------------------------------ MODULE MCConsole ------------------------------
(* Console with a buffer of 6 characters: texts that end just before, at    *)
(* and beyond its end, a %s that fills it and one that is longer, numbers   *)
(* of one to four digits, and %-s before and after the end of boot          *)
(* services, with an argument as long as the copy, and longer.              *)
EXTENDS Console

printf(items) == [call |-> "printf", items |-> items]
Exit == [call |-> "wstdlib_bs_exited", items |-> <<>>]
Item(spec, arg) == [spec |-> spec, arg |-> arg]

Str(n) == [k \in 1..n |-> 96 + k]
S(n) == Item("s", Str(n))
N(n) == Item("-s", Str(n))
Wide == Item("c", 353)  \* a character of two bytes

Strings == {printf(<<S(m), S(n)>>) : m, n \in {0, 1, 3, 5, 6, 7}}
Numbers ==
  {printf(<<Item(spec, n)>>) : spec \in {"u", "x", "d"}, n \in {0, 9, 10, 15, 16, 99, 100, 1024}}
    \cup {printf(<<Item("d", -10), Wide>>), printf(<<Item("p", 16), Item("p", 2748)>>)}
Narrows == {printf(<<S(m), N(n), Item("%", 37), S(1)>>) : m \in {0, 4}, n \in {0, 2, 3, 9}}
Literals == printf(Text(Str(5)) \o <<Item("other", 122), Item("literal", 13)>>)

MCScripts ==
  {<<s, Literals>> : s \in Strings} \cup {<<s, printf(<<S(2)>>)>> : s \in Numbers}
    \cup {<<s, Exit, t>> : s, t \in Narrows}
    \cup {<<printf(<<Item("-other", 100)>>), Literals>>}

MCBugMalloc == <<77, 33>>
MCBugFree == <<70, 33>>
==============================================================================
