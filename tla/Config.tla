------------------------------- MODULE Config --------------------------------
(***************************************************************************)
(* wboot_locate_config and wboot_load_config (src/phase3/wboot_config.c):  *)
(* the loader looks through the volumes for a wboot.conf it can use.  One  *)
(* action is one firmware call that can fail, or one line of the file,     *)
(* with the code up to the next; every block that is allocated is counted  *)
(* until it is freed.                                                      *)
(*                                                                         *)
(* A line is what parse_config_line makes of it: nothing between two       *)
(* newlines, white space or a comment, a value for one of the four keys,   *)
(* or an error (no value, an unknown key).  The value of a mode line is    *)
(* the tokens it is cut into, which ModeLine parses.                       *)
(***************************************************************************)
EXTENDS ModeLine, FiniteSets

CONSTANTS
  VolumeLists,  \* what the volumes may hold, in the order of their handles
  MaxHandles,   \* handles[64] of wboot_locate_config
  NULL          \* a pointer that is not set, a volume without wboot.conf

Keys == {"kernel", "initrd", "cmdline", "mode"}
Strings == {"kernel", "initrd", "cmdline"}  \* the keys whose values are allocated

ASSUME HandlesAssumption == MaxHandles \in Nat \ {0}
ASSUME VolumesAssumption ==
  \A list \in VolumeLists :
    /\ Len(list) \in Nat
    /\ \A n \in 1..Len(list) : list[n] # NULL =>
         /\ Len(list[n]) \in Nat
         /\ \A k \in 1..Len(list[n]) :
              /\ list[n][k].kind \in Keys \cup {"empty", "comment", "bad"}
              /\ list[n][k].kind \in Strings => list[n][k].value # NULL
              /\ list[n][k].kind = "mode" => list[n][k].value \in Seq(Tokens)

VARIABLES
  volumes,  \* the wboot.conf of every volume, or NULL
  pc,       \* the next call of the program, or "found", "not_found", "error"
  i,        \* the handle that is being looked at
  line,     \* the lines of the file that strtok_r has passed
  line_no,  \* line_no of wboot_load_config
  config,   \* the fields of config that have been set, NULL for the others
  seen,     \* config_parse_state_t
  live,     \* for every kind of block, how many are allocated
  open,     \* wboot.conf is open
  faulty,   \* the volumes on which a call of the firmware failed
  reported  \* the last parse error: its volume, its line, and the line it names

vars == <<volumes, pc, i, line, line_no, config, seen, live, open, faulty, reported>>
parseVars == <<line, line_no, config, seen, reported>>

Blocks == Strings \cup {"config", "file_info", "config_data"}
Unset == [key \in Keys |-> NULL]

Init ==
  /\ volumes \in VolumeLists
  /\ pc = "locate_handle"
  /\ i = 1
  /\ line = 0 /\ line_no = 1
  /\ config = Unset
  /\ seen = {}
  /\ live = [b \in Blocks |-> 0]
  /\ open = FALSE
  /\ faulty = {}
  /\ reported = [volume |-> 0, line |-> 0, said |-> 0]

file == volumes[i]

-----------------------------------------------------------------------------
(* Freeing: live with one block of each of the kinds in bs less, as free()  *)
(* is called once on each pointer that is not NULL.                         *)
Freed(bs) == [b \in Blocks |-> IF b \in bs /\ live[b] > 0 THEN live[b] - 1 ELSE live[b]]
Malloc(b) == live' = [live EXCEPT ![b] = @ + 1]

(* wboot_load_config returns NULL and wboot_locate_config goes on.          *)
GiveUpOnVolume(freed) ==
  /\ pc' = "volume"
  /\ i' = i + 1
  /\ live' = Freed(freed)
  /\ open' = FALSE
  /\ UNCHANGED <<volumes, line, line_no, config, seen>>

Faults(freed) ==
  /\ GiveUpOnVolume(freed)
  /\ faulty' = faulty \cup {i}
  /\ UNCHANGED reported

(* LocateProtocol and LocateHandle; the latter fails if there is no handle  *)
(* and refuses a buffer too small for all of them.                          *)
LocateHandle ==
  /\ pc = "locate_handle"
  /\ pc' \in IF Len(volumes) \in 1..MaxHandles THEN {"volume", "error"} ELSE {"error"}
  /\ UNCHANGED <<volumes, i, parseVars, live, open, faulty>>

(* HandleProtocol and OpenVolume for the next handle.                       *)
NextVolume ==
  /\ pc = "volume"
  /\ i <= Len(volumes)
  /\ \/ /\ pc' = "malloc_config"
        /\ UNCHANGED <<volumes, i, parseVars, live, open, faulty>>
     \/ Faults({})

NoMoreVolumes ==
  /\ pc = "volume"
  /\ i > Len(volumes)
  /\ pc' = "not_found"
  /\ UNCHANGED <<volumes, i, parseVars, live, open, faulty>>

MallocConfig ==
  /\ pc = "malloc_config"
  /\ \/ /\ pc' = "open_config"
        /\ Malloc("config")
        /\ config' = Unset
        /\ UNCHANGED <<volumes, i, line, line_no, seen, open, faulty, reported>>
     \/ Faults({})

OpenConfig ==
  /\ pc = "open_config"
  /\ \/ /\ file # NULL
        /\ pc' = "malloc_file_info"
        /\ open' = TRUE
        /\ UNCHANGED <<volumes, i, parseVars, live, faulty>>
     \/ /\ file = NULL
        /\ GiveUpOnVolume({"config"})
        /\ UNCHANGED <<faulty, reported>>
     \/ Faults({"config"})

MallocFileInfo ==
  /\ pc = "malloc_file_info"
  /\ \/ /\ pc' = "get_info"
        /\ Malloc("file_info")
        /\ UNCHANGED <<volumes, i, parseVars, open, faulty>>
     \/ Faults({"config"})

GetInfo ==
  /\ pc = "get_info"
  /\ \/ /\ pc' = "malloc_config_data"
        /\ live' = Freed({"file_info"})
        /\ UNCHANGED <<volumes, i, parseVars, open, faulty>>
     \/ Faults({"config", "file_info"})

MallocConfigData ==
  /\ pc = "malloc_config_data"
  /\ \/ /\ pc' = "read_config"
        /\ Malloc("config_data")
        /\ UNCHANGED <<volumes, i, parseVars, open, faulty>>
     \/ Faults({"config"})

(* Read fails or is short.                                                  *)
StaleReadConfig ==
  /\ pc = "read_config"
  /\ \/ /\ pc' = "parse"
        /\ line' = 0 /\ line_no' = 1
        /\ UNCHANGED <<volumes, i, config, seen, live, open, faulty, reported>>
     \/ Faults({"config", "config_data"})
ReadConfig ==
  /\ pc = "read_config"
  /\ \/ /\ pc' = "parse"
        /\ line' = 0 /\ line_no' = 1
        /\ seen' = {}
        /\ UNCHANGED <<volumes, i, config, live, open, faulty, reported>>
     \/ Faults({"config", "config_data"})

-----------------------------------------------------------------------------
(* strtok_r splits at newlines and passes over empty lines.                 *)
Rest == {k \in (line + 1)..Len(file) : file[k].kind # "empty"}
Current == CHOOSE k \in Rest : \A m \in Rest : k <= m

Parse(kinds) == pc = "parse" /\ Rest # {} /\ file[Current].kind \in kinds

StuckNextLine == line' = Current /\ line_no' = line_no + (IF seen = {} THEN 0 ELSE 1)
NextLine == line' = Current /\ line_no' = line_no + 1

SkipLine ==
  /\ Parse({"comment"})
  /\ NextLine
  /\ UNCHANGED <<volumes, pc, i, config, seen, live, open, faulty, reported>>

Set(key) ==
  /\ config' = [config EXCEPT ![key] = file[Current].value]
  /\ seen' = seen \cup {key}
  /\ NextLine
  /\ UNCHANGED <<volumes, pc, i, open, faulty, reported>>

(* The new value is allocated, then the old one freed.                      *)
StringLine ==
  /\ Parse(Strings)
  /\ LET key == file[Current].kind IN
     \/ Set(key) /\ (IF config[key] = NULL THEN Malloc(key) ELSE UNCHANGED live)
     \/ Faults({"config", "config_data"} \cup Strings)

ParsedMode(k) == parse_config_mode(file[k].value)

(* The fields are set only if the whole line parses.                        *)
ModeLine ==
  /\ Parse({"mode"})
  /\ ParsedMode(Current).valid
  /\ config' = [config EXCEPT !.mode = ParsedMode(Current).value]
  /\ seen' = seen \cup {"mode"}
  /\ NextLine
  /\ UNCHANGED <<volumes, pc, i, live, open, faulty, reported>>

DoesNotParse ==
  \/ Parse({"bad"})
  \/ Parse({"mode"}) /\ ~ParsedMode(Current).valid

(* The message names line_no; all fields are freed.                         *)
AbortingBadLine ==
  /\ DoesNotParse
  /\ reported' = [volume |-> i, line |-> Current, said |-> line_no]
  /\ pc' = "not_found"
  /\ live' = Freed({"config", "config_data"} \cup Strings)
  /\ open' = FALSE
  /\ UNCHANGED <<volumes, i, line, line_no, config, seen, faulty>>
BadLine ==
  /\ DoesNotParse
  /\ reported' = [volume |-> i, line |-> Current, said |-> line_no]
  /\ GiveUpOnVolume({"config", "config_data"} \cup Strings)
  /\ UNCHANGED faulty

(* After the last line all four keys must have been seen.                   *)
Accept ==
  /\ pc = "parse" /\ Rest = {}
  /\ seen = Keys
  /\ pc' = "found"
  /\ live' = Freed({"config_data"})
  /\ open' = FALSE
  /\ UNCHANGED <<volumes, i, parseVars, faulty>>

ForgetfulReject ==
  /\ pc = "parse" /\ Rest = {}
  /\ seen # Keys
  /\ GiveUpOnVolume({"config", "config_data"})
  /\ UNCHANGED <<faulty, reported>>
Reject ==
  /\ pc = "parse" /\ Rest = {}
  /\ seen # Keys
  /\ GiveUpOnVolume({"config", "config_data"} \cup Strings)
  /\ UNCHANGED <<faulty, reported>>

Next ==
  \/ LocateHandle \/ NextVolume \/ NoMoreVolumes
  \/ MallocConfig \/ OpenConfig \/ MallocFileInfo \/ GetInfo
  \/ MallocConfigData \/ ReadConfig
  \/ SkipLine \/ StringLine \/ ModeLine \/ BadLine
  \/ Accept \/ Reject

Spec == Init /\ [][Next]_vars

-----------------------------------------------------------------------------
(* Properties.                                                              *)

(* What a wboot.conf says, and when it is one the loader can use: read as a *)
(* whole, where the code goes line by line.                                 *)
LastLine(f, key) ==
  CHOOSE k \in 1..Len(f) :
    f[k].kind = key /\ \A m \in (k + 1)..Len(f) : f[m].kind # key
LineParses(l) ==
  /\ l.kind # "bad"
  /\ l.kind = "mode" => parse_config_mode(l.value).valid
Valid(f) ==
  /\ f # NULL
  /\ \A k \in 1..Len(f) : LineParses(f[k])
  /\ \A key \in Keys : \E k \in 1..Len(f) : f[k].kind = key
Meaning(f) ==
  [key \in Keys |->
     LET last == f[LastLine(f, key)].value IN
     IF key = "mode" THEN parse_config_mode(last).value ELSE last]

Unusable(n) == n \in faulty \/ ~Valid(volumes[n])

(* wboot_locate_config returns the configuration of the first volume that   *)
(* has a usable wboot.conf it could read, with the last value of every key; *)
(* nothing of the volumes tried before is left in it.                       *)
FindsFirst ==
  pc = "found" =>
    /\ Valid(file) /\ config = Meaning(file)
    /\ \A n \in 1..(i - 1) : Unusable(n)

(* It finds none only if every volume was unusable or could not be read.    *)
NotFoundHonest == pc = "not_found" => \A n \in 1..Len(volumes) : Unusable(n)

(* Nothing is allocated twice at a time, also when a key is repeated.       *)
(* Whatever failed on a volume, the next one starts with every block of it  *)
(* freed and its file closed; a configuration that is found keeps its own   *)
(* four blocks and nothing else.                                            *)
NoLeak ==
  /\ \A b \in Blocks : live[b] \in 0..1
  /\ pc \in {"volume", "not_found"} => ~open /\ \A b \in Blocks : live[b] = 0
  /\ pc = "found" =>
       ~open /\ \A b \in Blocks : live[b] = IF b \in Strings \cup {"config"} THEN 1 ELSE 0

(* The mode of the configuration is the one its last mode line writes,      *)
(* unless strtoul wrapped on one of the numbers, which parse_u32 does not   *)
(* notice; and a mode line is refused only if it does not write a mode.     *)
ModeAsWritten ==
  /\ pc = "found" =>
       LET tokens == file[LastLine(file, "mode")].value IN
       \/ Admissible(tokens) /\ config.mode = ModeWritten(tokens)
       \/ \E k \in DOMAIN tokens : Wraps(tokens[k])
  /\ reported.line # 0 =>
       LET l == volumes[reported.volume][reported.line] IN
       l.kind = "mode" => ~Admissible(l.value)

(* The line a parse error names is counted without the empty lines, which   *)
(* strtok_r passes over: it is the line's number only if there are none.    *)
ReportedLine ==
  reported.line # 0 =>
    reported.said = Cardinality({k \in 1..reported.line :
                                   volumes[reported.volume][k].kind # "empty"})

(* "error parsing wboot.conf line %u" (wboot_config.c:154) says that the    *)
(* number is that of the line in wboot.conf.                                *)
NamesTheLine == reported.said = reported.line
==============================================================================
