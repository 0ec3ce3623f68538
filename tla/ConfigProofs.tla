---------------------------- MODULE ConfigProofs -----------------------------
(***************************************************************************)
(* Proofs about Config and ModeLine.  The search and the memory come       *)
(* first, and hold whatever parse_config_mode accepts; the last part is    *)
(* about the numbers it reads.                                             *)
(***************************************************************************)
EXTENDS Config, Recursion, FiniteSetTheorems

(* The program counters with a configuration block, and with an open file.  *)
InVolume == {"malloc_config", "open_config", "malloc_file_info", "get_info",
             "malloc_config_data", "read_config", "parse", "found"}
Opened == {"malloc_file_info", "get_info", "malloc_config_data", "read_config", "parse"}
Pcs == {"locate_handle", "volume", "not_found", "error"} \cup InVolume

PathInv ==
  /\ volumes \in VolumeLists
  /\ pc \in Pcs
  /\ i \in Nat \ {0}
  /\ pc \in InVolume => i <= Len(volumes)
  /\ pc \in Opened \cup {"found"} => file # NULL
  /\ pc = "not_found" => i > Len(volumes)

(* Every volume the loop has left was unusable.                             *)
SearchInv == \A n \in 1..(i - 1) : Unusable(n)

(* The blocks that are allocated, by what has been called so far.           *)
Held ==
  {b \in Blocks :
     \/ b = "config" /\ pc \in InVolume \ {"malloc_config"}
     \/ b = "file_info" /\ pc = "get_info"
     \/ b = "config_data" /\ pc \in {"read_config", "parse"}
     \/ b \in Strings /\ pc \in {"parse", "found"} /\ config[b] # NULL}
HeldInv ==
  /\ live = [b \in Blocks |-> IF b \in Held THEN 1 ELSE 0]
  /\ open \in BOOLEAN /\ (open <=> pc \in Opened)

(* The fields of config: all NULL from malloc on, and then, for every key,  *)
(* the value of the last of its lines that have been read.                  *)
ValueOf(l) == IF l.kind = "mode" THEN parse_config_mode(l.value).value ELSE l.value
LastOf(key, k, n) ==
  k \in 1..n /\ file[k].kind = key /\ \A l \in (k + 1)..n : file[l].kind # key

FieldsInv ==
  /\ config = [key \in Keys |-> config[key]]
  /\ pc \in {"open_config", "malloc_file_info", "get_info", "malloc_config_data",
             "read_config"} => config = Unset
  /\ pc \in {"parse", "found"} =>
       /\ line \in 0..Len(file)
       /\ \A k \in 1..line : LineParses(file[k])
       /\ seen = {key \in Keys : \E k \in 1..line : file[k].kind = key}
       /\ \A key \in Keys \ seen : config[key] = NULL
       /\ \A key \in seen : \E k \in 1..line : LastOf(key, k, line) /\ config[key] = ValueOf(file[k])
  /\ pc = "found" => Rest = {} /\ seen = Keys

(* line_no counts the lines strtok_r has returned.                          *)
NonEmpty(f, n) == {k \in 1..n : f[k].kind # "empty"}
CountInv ==
  /\ pc = "parse" => line_no = Cardinality(NonEmpty(file, line)) + 1
  /\ ReportedLine

(* A reported line is one that does not parse.                              *)
RefusedInv ==
  reported.line # 0 =>
    /\ reported.volume \in 1..Len(volumes) /\ volumes[reported.volume] # NULL
    /\ reported.line \in 1..Len(volumes[reported.volume])
    /\ ~LineParses(volumes[reported.volume][reported.line])

IInv == PathInv /\ SearchInv /\ HeldInv /\ FieldsInv /\ CountInv /\ RefusedInv

-----------------------------------------------------------------------------
(* What VolumesAssumption says of the list that was chosen.                 *)
LEMMA ListFacts ==
  ASSUME PathInv
  PROVE  /\ Len(volumes) \in Nat
         /\ \A n \in 1..Len(volumes) : volumes[n] # NULL =>
              /\ Len(volumes[n]) \in Nat
              /\ \A k \in 1..Len(volumes[n]) :
                   /\ volumes[n][k].kind \in Keys \cup {"empty", "comment", "bad"}
                   /\ volumes[n][k].kind \in Strings => volumes[n][k].value # NULL
                   /\ volumes[n][k].kind = "mode" => volumes[n][k].value \in Seq(Tokens)
  BY VolumesAssumption DEF PathInv

LEMMA FileFacts ==
  ASSUME PathInv, pc \in Opened \cup {"found"}
  PROVE  /\ i \in 1..Len(volumes) /\ file # NULL
         /\ Len(file) \in Nat
         /\ \A k \in 1..Len(file) :
              /\ file[k].kind \in Keys \cup {"empty", "comment", "bad"}
              /\ file[k].kind \in Strings => file[k].value # NULL
              /\ file[k].kind = "mode" => file[k].value \in Seq(Tokens)
<1>1. i \in 1..Len(volumes) /\ file # NULL
  BY ListFacts DEF PathInv, Opened, InVolume
<1> QED
  BY <1>1, ListFacts DEF file

(* strtok_r returns the next line that is not empty.                        *)
LEMMA CurrentFacts ==
  ASSUME PathInv, FieldsInv, pc = "parse", Rest # {}
  PROVE  /\ Current \in (line + 1)..Len(file)
         /\ file[Current].kind # "empty"
         /\ \A k \in (line + 1)..(Current - 1) : file[k].kind = "empty"
<1>1. line \in 0..Len(file) /\ Len(file) \in Nat
  BY FileFacts DEF FieldsInv, Opened
<1>2. Rest \in SUBSET Nat /\ Rest \in SUBSET ((line + 1)..Len(file)) /\ line + 1 \in Int
  BY <1>1 DEF Rest
<1>3. \E n \in Rest : \A k \in Rest : n <= k
  BY <1>2, LeastExists
<1>4. Current \in Rest /\ \A k \in Rest : Current <= k
  BY <1>3 DEF Current
<1> QED
  BY <1>1, <1>4 DEF Rest

-----------------------------------------------------------------------------
(* Init, and how a volume is given up.                                      *)
LEMMA InitIInv ==
  ASSUME Init
  PROVE  IInv
<1>1. PathInv
  BY DEF Init, PathInv, Pcs, InVolume, Opened
<1>2. SearchInv
  BY DEF Init, SearchInv
<1>3. HeldInv
  <2>1. Held = {}
    BY DEF Init, Held, InVolume
  <2> QED
    BY <2>1 DEF Init, HeldInv, Opened
<1>4. FieldsInv
  BY DEF Init, FieldsInv, Unset
<1>5. CountInv
  BY DEF Init, CountInv, ReportedLine
<1>6. RefusedInv
  BY DEF Init, RefusedInv
<1> QED
  BY <1>1, <1>2, <1>3, <1>4, <1>5, <1>6 DEF IInv

LEMMA PathStep ==
  ASSUME IInv, [Next]_vars
  PROVE  PathInv'
<1> USE ListFacts DEF IInv, PathInv, Pcs, InVolume, Opened, file, Faults, GiveUpOnVolume
<1>1. CASE LocateHandle
  BY <1>1 DEF LocateHandle
<1>2. CASE NextVolume
  BY <1>2 DEF NextVolume
<1>3. CASE NoMoreVolumes
  BY <1>3 DEF NoMoreVolumes
<1>4. CASE MallocConfig
  BY <1>4 DEF MallocConfig
<1>5. CASE OpenConfig
  BY <1>5 DEF OpenConfig
<1>6. CASE MallocFileInfo
  BY <1>6 DEF MallocFileInfo
<1>7. CASE GetInfo
  BY <1>7 DEF GetInfo
<1>8. CASE MallocConfigData
  BY <1>8 DEF MallocConfigData
<1>9. CASE ReadConfig
  BY <1>9 DEF ReadConfig
<1>10. CASE SkipLine
  BY <1>10 DEF SkipLine, Parse
<1>11. CASE StringLine
  BY <1>11 DEF StringLine, Parse, Set
<1>12. CASE ModeLine
  BY <1>12 DEF ModeLine, Parse
<1>13. CASE BadLine
  BY <1>13 DEF BadLine, DoesNotParse, Parse
<1>14. CASE Accept
  BY <1>14 DEF Accept
<1>15. CASE Reject
  BY <1>15 DEF Reject
<1>16. CASE UNCHANGED vars
  BY <1>16 DEF vars
<1> QED
  BY <1>1, <1>2, <1>3, <1>4, <1>5, <1>6, <1>7, <1>8, <1>9, <1>10, <1>11, <1>12,
     <1>13, <1>14, <1>15, <1>16 DEF Next

(* free() on the pointers of the blocks in bs.                              *)
LEMMA FreedHeld ==
  ASSUME NEW held, live = [b \in Blocks |-> IF b \in held THEN 1 ELSE 0], NEW bs
  PROVE  Freed(bs) = [b \in Blocks |-> IF b \in held \ bs THEN 1 ELSE 0]
  BY DEF Freed

LEMMA MallocHeld ==
  ASSUME NEW held, live = [b \in Blocks |-> IF b \in held THEN 1 ELSE 0],
         NEW a \in Blocks, a \notin held, Malloc(a)
  PROVE  live' = [b \in Blocks |-> IF b \in held \cup {a} THEN 1 ELSE 0]
  BY DEF Malloc

LEMMA HeldStep ==
  ASSUME IInv, [Next]_vars
  PROVE  HeldInv'
<1> DEFINE Flags(held) == [b \in Blocks |-> IF b \in held THEN 1 ELSE 0]
<1> live = Flags(Held)
  BY DEF IInv, HeldInv
<1> pc \in Pcs
  BY DEF IInv, PathInv
<1>0. ASSUME NEW freed, GiveUpOnVolume(freed), Held \subseteq freed
      PROVE  HeldInv'
  <2>1. live' = Flags({})
    BY <1>0, FreedHeld DEF GiveUpOnVolume
  <2>2. Held' = {} /\ open' = FALSE /\ pc' = "volume"
    BY <1>0 DEF GiveUpOnVolume, Held, InVolume
  <2> QED
    BY <2>1, <2>2 DEF HeldInv, Opened
<1>a. ASSUME live' = live, Held' = Held, open' \in BOOLEAN, open' <=> pc' \in Opened
      PROVE  HeldInv'
  BY <1>a DEF HeldInv
<1>b. ASSUME NEW a \in Blocks, Malloc(a), a \notin Held, Held' = Held \cup {a},
             open' \in BOOLEAN, open' <=> pc' \in Opened
      PROVE  HeldInv'
  BY <1>b, MallocHeld DEF HeldInv
<1>c. ASSUME NEW freed, live' = Freed(freed), Held' = Held \ freed,
             open' \in BOOLEAN, open' <=> pc' \in Opened
      PROVE  HeldInv'
  BY <1>c, FreedHeld DEF HeldInv
<1>d. open \in BOOLEAN /\ (open <=> pc \in Opened)
  BY DEF IInv, HeldInv
<1> HIDE DEF Flags
<1>1. CASE LocateHandle
  <2>1. pc = "locate_handle" /\ pc' \in {"volume", "error"} /\ UNCHANGED <<live, open>>
    BY <1>1 DEF LocateHandle
  <2> QED
    BY <2>1, <1>a, <1>d DEF Held, InVolume, Opened
<1>2. CASE NextVolume
  <2>1. pc = "volume" /\ Held = {}
    BY <1>2 DEF NextVolume, Held, InVolume
  <2>2. CASE pc' = "malloc_config" /\ UNCHANGED <<live, open>>
    BY <2>1, <2>2, <1>a, <1>d DEF Held, Opened
  <2> QED
    BY <2>1, <2>2, <1>2, <1>0 DEF NextVolume, Faults
<1>3. CASE NoMoreVolumes
  BY <1>3, <1>a, <1>d DEF NoMoreVolumes, Held, InVolume, Opened
<1>4. CASE MallocConfig
  <2>1. pc = "malloc_config" /\ Held = {}
    BY <1>4 DEF MallocConfig, Held, InVolume
  <2>2. CASE pc' = "open_config" /\ Malloc("config") /\ UNCHANGED open
    <3>1. Held' = {"config"}
      BY <2>2 DEF Held, InVolume, Blocks
    <3> QED
      BY <2>1, <2>2, <3>1, <1>b, <1>d DEF Opened, Blocks
  <2> QED
    BY <2>1, <2>2, <1>4, <1>0 DEF MallocConfig, Faults
<1>5. CASE OpenConfig
  <2>1. pc = "open_config" /\ Held = {"config"}
    BY <1>5 DEF OpenConfig, Held, InVolume, Blocks
  <2>2. CASE pc' = "malloc_file_info" /\ open' = TRUE /\ UNCHANGED live
    BY <2>1, <2>2, <1>a DEF Held, Opened, InVolume, Blocks
  <2> QED
    BY <2>1, <2>2, <1>5, <1>0 DEF OpenConfig, Faults
<1>6. CASE MallocFileInfo
  <2>1. pc = "malloc_file_info" /\ Held = {"config"}
    BY <1>6 DEF MallocFileInfo, Held, InVolume, Blocks
  <2>2. CASE pc' = "get_info" /\ Malloc("file_info") /\ UNCHANGED open
    <3>1. Held' = {"config", "file_info"}
      BY <2>2 DEF Held, InVolume, Blocks
    <3> QED
      BY <2>1, <2>2, <3>1, <1>b, <1>d DEF Opened, Blocks
  <2> QED
    BY <2>1, <2>2, <1>6, <1>0 DEF MallocFileInfo, Faults
<1>7. CASE GetInfo
  <2>1. pc = "get_info" /\ Held = {"config", "file_info"}
    BY <1>7 DEF GetInfo, Held, InVolume, Blocks
  <2>2. CASE pc' = "malloc_config_data" /\ live' = Freed({"file_info"}) /\ UNCHANGED open
    <3>1. Held' = {"config"}
      BY <2>2 DEF Held, InVolume, Blocks
    <3> QED
      BY <2>1, <2>2, <3>1, <1>c, <1>d DEF Opened
  <2> QED
    BY <2>1, <2>2, <1>7, <1>0 DEF GetInfo, Faults
<1>8. CASE MallocConfigData
  <2>1. pc = "malloc_config_data" /\ Held = {"config"}
    BY <1>8 DEF MallocConfigData, Held, InVolume, Blocks
  <2>2. CASE pc' = "read_config" /\ Malloc("config_data") /\ UNCHANGED open
    <3>1. Held' = {"config", "config_data"}
      BY <2>2 DEF Held, InVolume, Blocks
    <3> QED
      BY <2>1, <2>2, <3>1, <1>b, <1>d DEF Opened, Blocks
  <2> QED
    BY <2>1, <2>2, <1>8, <1>0 DEF MallocConfigData, Faults
<1>9. CASE ReadConfig
  <2>1. pc = "read_config" /\ Held = {"config", "config_data"}
    BY <1>9 DEF ReadConfig, Held, InVolume, Blocks
  <2>2. CASE pc' = "parse" /\ UNCHANGED <<config, live, open>>
    <3>1. \A b \in Strings : config[b] = NULL
      BY <2>1 DEF IInv, FieldsInv, Unset, Strings, Keys
    <3>2. Held' = {"config", "config_data"}
      BY <2>2, <3>1 DEF Held, InVolume, Blocks
    <3> QED
      BY <2>1, <2>2, <3>2, <1>a, <1>d DEF Opened
  <2> QED
    BY <2>1, <2>2, <1>9, <1>0 DEF ReadConfig, Faults
<1> DEFINE ParseBlocks == {"config", "config_data"} \cup {b \in Strings : config[b] # NULL}
<1>e. ASSUME pc = "parse"
      PROVE  Held = ParseBlocks /\ Held \subseteq {"config", "config_data"} \cup Strings
  BY <1>e DEF Held, InVolume, Blocks, Strings
<1>10. CASE SkipLine
  <2>1. pc = "parse" /\ UNCHANGED <<pc, config, live, open>>
    BY <1>10 DEF SkipLine, Parse
  <2> QED
    BY <2>1, <1>a, <1>d DEF Held
<1>11. CASE StringLine
  <2> DEFINE key == file[Current].kind
  <2>1. pc = "parse" /\ key \in Strings
    BY <1>11 DEF StringLine, Parse
  <2>2. CASE Set(key) /\ (IF config[key] = NULL THEN Malloc(key) ELSE UNCHANGED live)
    <3>1. UNCHANGED <<pc, open>> /\ config' = [config EXCEPT ![key] = file[Current].value]
      BY <2>2 DEF Set
    <3>2. file[Current].value # NULL
      BY <1>11, <2>1, CurrentFacts, FileFacts DEF StringLine, Parse, IInv, FieldsInv, Opened
    <3> HIDE DEF key
    <3>3. config'[key] # NULL /\ \A b \in Strings \ {key} : config'[b] = config[b]
      BY <2>1, <3>1, <3>2 DEF IInv, FieldsInv, Strings, Keys
    <3>4. Held' = Held \cup {key}
      BY <2>1, <3>1, <3>3 DEF Held, Blocks, InVolume, Strings
    <3>5. key \in Held <=> config[key] # NULL
      BY <2>1 DEF Held, Blocks, Strings
    <3>6. key \in Blocks
      BY <2>1 DEF Blocks
    <3>7. CASE config[key] = NULL
      BY <2>1, <2>2, <3>1, <3>4, <3>5, <3>6, <3>7, <1>b, <1>d
    <3>8. CASE config[key] # NULL
      BY <2>1, <2>2, <3>1, <3>4, <3>5, <3>6, <3>8, <1>a, <1>d
    <3> QED
      BY <3>7, <3>8
  <2> QED
    BY <2>1, <2>2, <1>11, <1>0, <1>e DEF StringLine, Faults
<1>12. CASE ModeLine
  <2>1. pc = "parse" /\ UNCHANGED <<pc, live, open>>
    BY <1>12 DEF ModeLine, Parse
  <2>2. \A b \in Strings : config'[b] = config[b]
    BY <1>12 DEF ModeLine, IInv, FieldsInv, Strings, Keys
  <2> QED
    BY <2>1, <2>2, <1>a, <1>d DEF Held
<1>13. CASE BadLine
  BY <1>13, <1>0, <1>e DEF BadLine, DoesNotParse, Parse
<1>14. CASE Accept
  <2>1. pc = "parse" /\ pc' = "found" /\ UNCHANGED config /\ live' = Freed({"config_data"})
        /\ open' = FALSE
    BY <1>14 DEF Accept, parseVars
  <2>2. Held' = Held \ {"config_data"}
    BY <2>1 DEF Held, InVolume, Blocks, Strings
  <2> QED
    BY <2>1, <2>2, <1>c DEF Opened
<1>15. CASE Reject
  BY <1>15, <1>0, <1>e DEF Reject
<1>16. CASE UNCHANGED vars
  BY <1>16, <1>a, <1>d DEF vars, Held
<1> QED
  BY <1>1, <1>2, <1>3, <1>4, <1>5, <1>6, <1>7, <1>8, <1>9, <1>10, <1>11, <1>12,
     <1>13, <1>14, <1>15, <1>16 DEF Next

-----------------------------------------------------------------------------
(* One line of the file: what is skipped before it is empty.                *)
LEMMA ReadOn ==
  ASSUME PathInv, FieldsInv, pc = "parse", Rest # {}, LineParses(file[Current]),
         UNCHANGED <<volumes, pc, i>>, line' = Current,
         \/ file[Current].kind \notin Keys /\ UNCHANGED <<config, seen>>
         \/ /\ file[Current].kind \in Keys
            /\ seen' = seen \cup {file[Current].kind}
            /\ config' = [config EXCEPT ![file[Current].kind] = ValueOf(file[Current])]
  PROVE  FieldsInv'
<1> DEFINE c == Current
           kind == file[c].kind
<1>1. /\ line \in 0..Len(file) /\ Len(file) \in Nat
      /\ c \in (line + 1)..Len(file) /\ kind # "empty"
      /\ \A k \in (line + 1)..(c - 1) : file[k].kind = "empty"
  BY FileFacts, CurrentFacts DEF FieldsInv, Opened
<1>2. /\ config = [key \in Keys |-> config[key]]
      /\ \A k \in 1..line : LineParses(file[k])
      /\ seen = {key \in Keys : \E k \in 1..line : file[k].kind = key}
      /\ \A key \in Keys \ seen : config[key] = NULL
      /\ \A key \in seen : \E k \in 1..line :
           LastOf(key, k, line) /\ config[key] = ValueOf(file[k])
  BY DEF FieldsInv
<1>3. file' = file /\ line' = c
  BY DEF file
<1>k. LineParses(file[c])
  OBVIOUS
<1>s. \/ kind \notin Keys /\ UNCHANGED <<config, seen>>
      \/ /\ kind \in Keys
         /\ seen' = seen \cup {kind}
         /\ config' = [config EXCEPT ![kind] = ValueOf(file[c])]
  OBVIOUS
<1>o. \A k \in 1..c : k \in 1..line \/ k \in (line + 1)..(c - 1) \/ k = c
  BY <1>1
<1>n. "empty" \notin Keys
  BY DEF Keys
<1> HIDE DEF c, kind
<1>4. \A k \in 1..c : LineParses(file[k])
  BY <1>1, <1>2, <1>k, <1>o DEF LineParses
<1>5. \A key \in Keys :
        (\E k \in 1..c : file[k].kind = key) <=> (\E k \in 1..line : file[k].kind = key) \/ key = kind
  BY <1>1, <1>o, <1>n DEF kind
<1>6. seen' = {key \in Keys : \E k \in 1..c : file[k].kind = key}
  BY <1>2, <1>5, <1>s
<1>7. config' = [key \in Keys |-> config'[key]]
  BY <1>2, <1>s
<1>8. \A key \in Keys \ seen' : config'[key] = NULL
  BY <1>2, <1>s
<1>9. \A key \in seen' : \E k \in 1..c : LastOf(key, k, c) /\ config'[key] = ValueOf(file[k])
  <2> SUFFICES ASSUME NEW key \in Keys, key \in seen'
               PROVE  \E k \in 1..c : LastOf(key, k, c) /\ config'[key] = ValueOf(file[k])
    BY <1>6
  <2>1. CASE key = kind
    <3>1. LastOf(key, c, c) /\ c \in 1..c
      BY <1>1, <2>1 DEF LastOf, kind
    <3>2. config'[key] = ValueOf(file[c])
      BY <1>2, <1>s, <2>1
    <3> QED
      BY <3>1, <3>2
  <2>2. CASE key # kind
    <3>1. key \in seen /\ config'[key] = config[key]
      BY <1>2, <1>s, <2>2
    <3>2. PICK k \in 1..line : LastOf(key, k, line) /\ config[key] = ValueOf(file[k])
      BY <1>2, <3>1
    <3>3. k \in 1..c /\ file[k].kind = key
      BY <1>1, <3>2 DEF LastOf
    <3>4. ASSUME NEW l \in (k + 1)..c
          PROVE  file[l].kind # key
      <4>1. l \in (k + 1)..line \/ l \in (line + 1)..(c - 1) \/ l = c
        BY <1>1
      <4> QED
        BY <1>1, <1>n, <2>2, <3>2, <4>1 DEF LastOf, kind
    <3> QED
      BY <3>1, <3>2, <3>3, <3>4 DEF LastOf
  <2> QED
    BY <2>1, <2>2
<1> QED
  BY <1>1, <1>3, <1>4, <1>6, <1>7, <1>8, <1>9 DEF FieldsInv, LastOf

LEMMA FieldsStep ==
  ASSUME IInv, [Next]_vars
  PROVE  FieldsInv'
<1> USE DEF IInv
<1>0. config = [key \in Keys |-> config[key]]
  BY DEF FieldsInv
<1>a. ASSUME pc' \in {"locate_handle", "volume", "malloc_config", "not_found", "error"},
             UNCHANGED config
      PROVE  FieldsInv'
  BY <1>a, <1>0 DEF FieldsInv
<1>b. ASSUME NEW freed, GiveUpOnVolume(freed)
      PROVE  FieldsInv'
  BY <1>a, <1>b DEF GiveUpOnVolume
<1>c. ASSUME pc \in {"open_config", "malloc_file_info", "get_info", "malloc_config_data"},
             pc' \in {"malloc_file_info", "get_info", "malloc_config_data", "read_config"},
             UNCHANGED config
      PROVE  FieldsInv'
  BY <1>c, <1>0 DEF FieldsInv
<1>1. CASE LocateHandle
  BY <1>1, <1>a DEF LocateHandle, parseVars
<1>2. CASE NextVolume
  BY <1>2, <1>a, <1>b DEF NextVolume, Faults, parseVars
<1>3. CASE NoMoreVolumes
  BY <1>3, <1>a DEF NoMoreVolumes, parseVars
<1>4. CASE MallocConfig
  <2>1. CASE pc' = "open_config" /\ config' = Unset
    BY <2>1 DEF FieldsInv, Unset
  <2> QED
    BY <1>4, <2>1, <1>b DEF MallocConfig, Faults
<1>5. CASE OpenConfig
  BY <1>5, <1>b, <1>c DEF OpenConfig, Faults, parseVars
<1>6. CASE MallocFileInfo
  BY <1>6, <1>b, <1>c DEF MallocFileInfo, Faults, parseVars
<1>7. CASE GetInfo
  BY <1>7, <1>b, <1>c DEF GetInfo, Faults, parseVars
<1>8. CASE MallocConfigData
  BY <1>8, <1>b, <1>c DEF MallocConfigData, Faults, parseVars
<1>9. CASE ReadConfig
  <2>1. CASE pc' = "parse" /\ line' = 0 /\ seen' = {} /\ UNCHANGED <<volumes, i, config>>
    <3>1. Len(file) \in Nat /\ file' = file
      BY <1>9, <2>1, FileFacts DEF ReadConfig, file, Opened
    <3>2. config = Unset
      BY <1>9 DEF ReadConfig, FieldsInv
    <3> QED
      BY <2>1, <3>1, <3>2 DEF FieldsInv, Unset
  <2> QED
    BY <1>9, <2>1, <1>b DEF ReadConfig, Faults
<1>10. CASE SkipLine
  BY <1>10, ReadOn DEF SkipLine, Parse, NextLine, LineParses, Keys
<1>11. CASE StringLine
  <2>1. CASE Set(file[Current].kind)
    <3>1. /\ file[Current].kind \in Keys /\ LineParses(file[Current])
          /\ ValueOf(file[Current]) = file[Current].value
      BY <1>11 DEF StringLine, Parse, Strings, Keys, LineParses, ValueOf
    <3> QED
      BY <1>11, <2>1, <3>1, ReadOn DEF StringLine, Parse, Set, NextLine
  <2> QED
    BY <1>11, <2>1, <1>b DEF StringLine, Faults
<1>12. CASE ModeLine
  <2>1. /\ file[Current].kind = "mode" /\ "mode" \in Keys /\ LineParses(file[Current])
        /\ ValueOf(file[Current]) = ParsedMode(Current).value
    BY <1>12 DEF ModeLine, Parse, Keys, LineParses, ValueOf, ParsedMode
  <2> QED
    BY <1>12, <2>1, ReadOn DEF ModeLine, Parse, NextLine
<1>13. CASE BadLine
  BY <1>13, <1>b DEF BadLine
<1>14. CASE Accept
  <2>1. file' = file /\ Rest' = Rest
    BY <1>14 DEF Accept, file, Rest, parseVars
  <2> QED
    BY <1>14, <2>1 DEF Accept, FieldsInv, parseVars, LastOf
<1>15. CASE Reject
  BY <1>15, <1>b DEF Reject
<1>16. CASE UNCHANGED vars
  BY <1>16 DEF vars, FieldsInv, file, Rest, LastOf
<1> QED
  BY <1>1, <1>2, <1>3, <1>4, <1>5, <1>6, <1>7, <1>8, <1>9, <1>10, <1>11, <1>12,
     <1>13, <1>14, <1>15, <1>16 DEF Next

(* A volume is given up only when the firmware failed on it or its file is  *)
(* not a valid one.                                                         *)
LEMMA SearchStep ==
  ASSUME IInv, [Next]_vars
  PROVE  SearchInv'
<1> USE DEF IInv
<1>0. i \in Nat \ {0}
  BY DEF PathInv
<1>a. ASSUME UNCHANGED <<volumes, i, faulty>>
      PROVE  SearchInv'
  BY <1>a DEF SearchInv, Unusable
<1>b. ASSUME NEW freed, GiveUpOnVolume(freed), faulty \subseteq faulty',
             i \in faulty' \/ ~Valid(file)
      PROVE  SearchInv'
  <2>1. volumes' = volumes /\ \A n \in 1..(i' - 1) : n \in 1..(i - 1) \/ n = i
    BY <1>0, <1>b DEF GiveUpOnVolume
  <2> QED
    BY <1>b, <2>1 DEF SearchInv, Unusable, file
<1>c. ASSUME NEW freed, Faults(freed)
      PROVE  SearchInv'
  BY <1>b, <1>c DEF Faults
<1>1. CASE LocateHandle \/ NoMoreVolumes \/ SkipLine \/ ModeLine \/ Accept \/ UNCHANGED vars
  BY <1>1, <1>a DEF LocateHandle, NoMoreVolumes, SkipLine, ModeLine, Accept, vars
<1>2. CASE \/ NextVolume \/ MallocConfig \/ MallocFileInfo \/ GetInfo
           \/ MallocConfigData \/ ReadConfig
  BY <1>2, <1>a, <1>c
     DEF NextVolume, MallocConfig, MallocFileInfo, GetInfo, MallocConfigData, ReadConfig
<1>3. CASE OpenConfig
  BY <1>3, <1>a, <1>b, <1>c DEF OpenConfig, Valid
<1>4. CASE StringLine
  BY <1>4, <1>a, <1>c DEF StringLine, Set
<1>5. CASE BadLine
  <2>1. pc = "parse" /\ Rest # {} /\ ~LineParses(file[Current])
    BY <1>5 DEF BadLine, DoesNotParse, Parse, LineParses, ParsedMode
  <2>2. Current \in 1..Len(file)
    BY <2>1, CurrentFacts, FileFacts DEF FieldsInv, Opened
  <2>3. ~Valid(file)
    BY <2>1, <2>2 DEF Valid
  <2> QED
    BY <1>5, <1>b, <2>3 DEF BadLine
<1>6. CASE Reject
  <2>1. pc = "parse" /\ Rest = {} /\ seen # Keys
    BY <1>6 DEF Reject
  <2>2. /\ line \in 0..Len(file) /\ Len(file) \in Nat
        /\ seen = {key \in Keys : \E k \in 1..line : file[k].kind = key}
    BY <2>1, FileFacts DEF FieldsInv, Opened
  <2>3. PICK key \in Keys : \A k \in 1..line : file[k].kind # key
    BY <2>1, <2>2
  <2>4. \A k \in (line + 1)..Len(file) : file[k].kind = "empty"
    BY <2>1 DEF Rest
  <2>5. \A k \in 1..Len(file) : k \in 1..line \/ k \in (line + 1)..Len(file)
    BY <2>2
  <2>6. \A k \in 1..Len(file) : file[k].kind # key
    BY <2>3, <2>4, <2>5 DEF Keys
  <2> QED
    BY <1>6, <1>b, <2>6 DEF Reject, Valid
<1> QED
  BY <1>1, <1>2, <1>3, <1>4, <1>5, <1>6 DEF Next

(* The lines strtok_r has passed over add nothing to the count.             *)
LEMMA CountOn ==
  ASSUME PathInv, FieldsInv, CountInv, pc = "parse", Rest # {}
  PROVE  Cardinality(NonEmpty(file, Current)) = line_no
<1>1. /\ line \in 0..Len(file) /\ Len(file) \in Nat
      /\ Current \in (line + 1)..Len(file) /\ file[Current].kind # "empty"
      /\ \A k \in (line + 1)..(Current - 1) : file[k].kind = "empty"
  BY FileFacts, CurrentFacts DEF FieldsInv, Opened
<1>2. NonEmpty(file, Current) = NonEmpty(file, line) \cup {Current}
  <2>1. \A k \in 1..Current : k \in 1..line \/ k \in (line + 1)..(Current - 1) \/ k = Current
    BY <1>1
  <2>2. \A k \in 1..line : k \in 1..Current
    BY <1>1
  <2>3. Current \in 1..Current
    BY <1>1
  <2> QED
    BY <1>1, <2>1, <2>2, <2>3 DEF NonEmpty
<1>3. IsFiniteSet(NonEmpty(file, line)) /\ Current \notin NonEmpty(file, line)
  <2>1. 1 \in Int /\ line \in Int
    BY <1>1
  <2>2. IsFiniteSet(1..line)
    BY <2>1, FS_Interval
  <2>3. NonEmpty(file, line) \in SUBSET (1..line)
    BY DEF NonEmpty
  <2>4. IsFiniteSet(NonEmpty(file, line))
    BY <2>2, <2>3, FS_Subset
  <2> QED
    BY <1>1, <2>4 DEF NonEmpty
<1>4. Cardinality(NonEmpty(file, line) \cup {Current}) = Cardinality(NonEmpty(file, line)) + 1
  BY <1>3, FS_AddElement
<1> QED
  BY <1>2, <1>4 DEF CountInv

LEMMA CountStep ==
  ASSUME IInv, [Next]_vars
  PROVE  CountInv'
<1> USE DEF IInv
<1>a. ASSUME pc' # "parse", UNCHANGED <<volumes, reported>>
      PROVE  CountInv'
  BY <1>a DEF CountInv, ReportedLine
<1>b. ASSUME UNCHANGED <<volumes, pc, i, reported>>, pc = "parse", Rest # {},
             NextLine
      PROVE  CountInv'
  <2>1. Cardinality(NonEmpty(file, Current)) = line_no
    BY <1>b, CountOn
  <2>2. file' = file /\ line' = Current /\ line_no' = line_no + 1
    BY <1>b DEF file, NextLine
  <2> QED
    BY <1>b, <2>1, <2>2 DEF CountInv, ReportedLine, NonEmpty
<1>c. ASSUME NEW freed, GiveUpOnVolume(freed), UNCHANGED reported
      PROVE  CountInv'
  BY <1>a, <1>c DEF GiveUpOnVolume
<1>d. ASSUME NEW freed, Faults(freed)
      PROVE  CountInv'
  BY <1>c, <1>d DEF Faults
<1>1. CASE LocateHandle
  BY <1>1, <1>a DEF LocateHandle, parseVars
<1>2. CASE NextVolume \/ NoMoreVolumes
  BY <1>2, <1>a, <1>d DEF NextVolume, NoMoreVolumes, parseVars
<1>3. CASE MallocConfig \/ OpenConfig
  BY <1>3, <1>a, <1>c, <1>d DEF MallocConfig, OpenConfig, parseVars
<1>4. CASE MallocFileInfo \/ GetInfo \/ MallocConfigData
  BY <1>4, <1>a, <1>d DEF MallocFileInfo, GetInfo, MallocConfigData, parseVars
<1>5. CASE ReadConfig
  <2>1. CASE pc' = "parse" /\ line' = 0 /\ line_no' = 1 /\ UNCHANGED <<volumes, i, reported>>
    <3>1. NonEmpty(file, line)' = {} /\ Cardinality({}) = 0
      BY <2>1, FS_EmptySet DEF NonEmpty
    <3> QED
      BY <2>1, <3>1 DEF CountInv, ReportedLine
  <2> QED
    BY <1>5, <2>1, <1>d DEF ReadConfig
<1>6. CASE SkipLine \/ ModeLine
  BY <1>6, <1>b DEF SkipLine, ModeLine, Parse
<1>7. CASE StringLine
  BY <1>7, <1>b, <1>d DEF StringLine, Parse, Set
<1>8. CASE BadLine
  <2>1. pc = "parse" /\ Rest # {}
    BY <1>8 DEF BadLine, DoesNotParse, Parse
  <2>2. /\ reported' = [volume |-> i, line |-> Current, said |-> line_no]
        /\ pc' = "volume" /\ volumes' = volumes
    BY <1>8 DEF BadLine, GiveUpOnVolume
  <2>3. Cardinality(NonEmpty(file, Current)) = line_no
    BY <2>1, CountOn
  <2> QED
    BY <2>2, <2>3 DEF CountInv, ReportedLine, NonEmpty, file
<1>9. CASE Accept \/ Reject
  BY <1>9, <1>a, <1>c DEF Accept, Reject, parseVars
<1>10. CASE UNCHANGED vars
  BY <1>10 DEF vars, CountInv, ReportedLine, NonEmpty, file
<1> QED
  BY <1>1, <1>2, <1>3, <1>4, <1>5, <1>6, <1>7, <1>8, <1>9, <1>10 DEF Next

LEMMA RefusedStep ==
  ASSUME IInv, [Next]_vars
  PROVE  RefusedInv'
<1> USE DEF IInv
<1>a. ASSUME UNCHANGED <<volumes, reported>>
      PROVE  RefusedInv'
  BY <1>a DEF RefusedInv
<1>b. ASSUME NEW freed, Faults(freed)
      PROVE  RefusedInv'
  BY <1>a, <1>b DEF Faults, GiveUpOnVolume
<1>1. CASE LocateHandle \/ NextVolume \/ NoMoreVolumes
  BY <1>1, <1>a, <1>b DEF LocateHandle, NextVolume, NoMoreVolumes, parseVars
<1>2. CASE MallocConfig \/ OpenConfig
  BY <1>2, <1>a, <1>b DEF MallocConfig, OpenConfig, GiveUpOnVolume, parseVars
<1>3. CASE MallocFileInfo \/ GetInfo \/ MallocConfigData \/ ReadConfig
  BY <1>3, <1>a, <1>b DEF MallocFileInfo, GetInfo, MallocConfigData, ReadConfig, parseVars
<1>4. CASE SkipLine \/ StringLine \/ ModeLine
  BY <1>4, <1>a, <1>b DEF SkipLine, StringLine, Set, ModeLine
<1>5. CASE BadLine
  <2>1. pc = "parse" /\ Rest # {} /\ ~LineParses(file[Current])
    BY <1>5 DEF BadLine, DoesNotParse, Parse, LineParses, ParsedMode
  <2>2. /\ i \in 1..Len(volumes) /\ file # NULL
        /\ line \in 0..Len(file) /\ Len(file) \in Nat
    BY <2>1, FileFacts DEF FieldsInv, Opened
  <2>3. Current \in 1..Len(file)
    BY <2>1, <2>2, CurrentFacts
  <2>4. /\ reported' = [volume |-> i, line |-> Current, said |-> line_no]
        /\ volumes' = volumes
    BY <1>5 DEF BadLine, GiveUpOnVolume
  <2> QED
    BY <2>1, <2>2, <2>3, <2>4 DEF RefusedInv, file, LineParses
<1>6. CASE Accept \/ Reject
  BY <1>6, <1>a DEF Accept, Reject, GiveUpOnVolume, parseVars
<1>7. CASE UNCHANGED vars
  BY <1>7, <1>a DEF vars
<1> QED
  BY <1>1, <1>2, <1>3, <1>4, <1>5, <1>6, <1>7 DEF Next

-----------------------------------------------------------------------------
LEMMA SpecIInv == Spec => []IInv
<1>1. IInv /\ [Next]_vars => IInv'
  BY PathStep, SearchStep, HeldStep, FieldsStep, CountStep, RefusedStep DEF IInv
<1> QED
  BY <1>1, InitIInv, PTL DEF Spec

(* A file whose lines have all been read is valid if every key was seen,    *)
(* and the fields then have the meaning of the whole file.                  *)
LEMMA WholeFile ==
  ASSUME IInv, pc = "found"
  PROVE  Valid(file) /\ config = Meaning(file)
<1>1. /\ file # NULL /\ Len(file) \in Nat /\ line \in 0..Len(file)
      /\ Rest = {} /\ seen = Keys
      /\ config = [key \in Keys |-> config[key]]
      /\ \A k \in 1..line : LineParses(file[k])
      /\ \A key \in seen : \E k \in 1..line :
           LastOf(key, k, line) /\ config[key] = ValueOf(file[k])
  BY FileFacts DEF IInv, FieldsInv, Opened
<1>2. \A k \in (line + 1)..Len(file) : file[k].kind = "empty"
  BY <1>1 DEF Rest
<1>3. \A k \in 1..Len(file) : k \in 1..line \/ k \in (line + 1)..Len(file)
  BY <1>1
<1>4. \A k \in 1..Len(file) : LineParses(file[k])
  BY <1>1, <1>2, <1>3 DEF LineParses
<1>5. \A key \in Keys : \E k \in 1..Len(file) :
        LastOf(key, k, Len(file)) /\ config[key] = ValueOf(file[k])
  <2> TAKE key \in Keys
  <2>1. PICK k \in 1..line : LastOf(key, k, line) /\ config[key] = ValueOf(file[k])
    BY <1>1
  <2>2. \A l \in (k + 1)..Len(file) : l \in (k + 1)..line \/ l \in (line + 1)..Len(file)
    BY <1>1, <2>1
  <2>3. k \in 1..Len(file)
    BY <1>1, <2>1
  <2> QED
    BY <1>2, <2>1, <2>2, <2>3 DEF LastOf, Keys
<1>6. Valid(file)
  BY <1>1, <1>4, <1>5 DEF Valid, LastOf
<1>7. ASSUME NEW key \in Keys
      PROVE  config[key] = Meaning(file)[key]
  <2>1. PICK k \in 1..Len(file) : LastOf(key, k, Len(file)) /\ config[key] = ValueOf(file[k])
    BY <1>5
  <2>2. \A l \in 1..Len(file) : LastOf(key, l, Len(file)) => l = k
    <3>1. \A l \in 1..Len(file) : l = k \/ l \in (k + 1)..Len(file) \/ k \in (l + 1)..Len(file)
      BY <1>1, <2>1
    <3> QED
      BY <2>1, <3>1 DEF LastOf
  <2>3. LastLine(file, key) = k
    BY <2>1, <2>2 DEF LastLine, LastOf
  <2>4. file[k].kind = key
    BY <2>1 DEF LastOf
  <2> QED
    BY <2>1, <2>3, <2>4 DEF Meaning, ValueOf
<1>8. config = Meaning(file)
  BY <1>1, <1>7 DEF Meaning
<1> QED
  BY <1>6, <1>8

(* wboot_locate_config returns the configuration of the first volume with a *)
(* usable wboot.conf, with the last value of every key and nothing of the   *)
(* volumes tried before, for any number of volumes and lines.               *)
THEOREM FirstFound == Spec => []FindsFirst
<1>1. IInv => FindsFirst
  BY WholeFile DEF IInv, SearchInv, FindsFirst
<1> QED
  BY <1>1, SpecIInv, PTL

(* It finds none only if no volume was usable.                              *)
THEOREM NoneFound == Spec => []NotFoundHonest
<1>1. IInv => NotFoundHonest
  <2> SUFFICES ASSUME IInv, pc = "not_found", NEW n \in 1..Len(volumes)
               PROVE  Unusable(n)
    BY DEF NotFoundHonest
  <2>1. i \in Nat /\ i > Len(volumes) /\ Len(volumes) \in Nat
    BY ListFacts DEF IInv, PathInv
  <2> QED
    BY <2>1 DEF IInv, SearchInv
<1> QED
  BY <1>1, SpecIInv, PTL

(* Whatever fails, and however often a key is repeated, every block is      *)
(* freed once and the file closed before the next volume is looked at.      *)
THEOREM NothingLeaks == Spec => []NoLeak
<1>1. IInv => NoLeak
  <2> SUFFICES ASSUME IInv
               PROVE  NoLeak
    OBVIOUS
  <2>1. /\ live = [b \in Blocks |-> IF b \in Held THEN 1 ELSE 0]
        /\ open <=> pc \in Opened
    BY DEF IInv, HeldInv
  <2>2. \A b \in Blocks : live[b] \in 0..1
    BY <2>1
  <2>3. ASSUME pc \in {"volume", "not_found"}
        PROVE  ~open /\ \A b \in Blocks : live[b] = 0
    BY <2>1, <2>3 DEF Held, InVolume, Opened
  <2>4. ASSUME pc = "found"
        PROVE  ~open /\ \A b \in Blocks : live[b] = IF b \in Strings \cup {"config"} THEN 1 ELSE 0
    <3>1. ASSUME NEW b \in Strings
          PROVE  config[b] # NULL
      <4>1. seen = Keys /\ b \in Keys
        BY <2>4 DEF IInv, FieldsInv, Strings, Keys
      <4>2. PICK k \in 1..line : LastOf(b, k, line) /\ config[b] = ValueOf(file[k])
        BY <2>4, <4>1 DEF IInv, FieldsInv
      <4>3. k \in 1..Len(file) /\ file[k].kind = b
        BY <2>4, <4>2, FileFacts DEF IInv, FieldsInv, LastOf, Opened
      <4> QED
        BY <2>4, <4>2, <4>3, FileFacts DEF IInv, ValueOf, Strings
    <3>2. Held = Strings \cup {"config"}
      BY <2>4, <3>1 DEF Held, InVolume, Blocks, Strings
    <3> QED
      BY <2>1, <2>4, <3>2 DEF Opened
  <2> QED
    BY <2>2, <2>3, <2>4 DEF NoLeak
<1> QED
  BY <1>1, SpecIInv, PTL

(* The number a parse error names counts the lines that are not empty.      *)
THEOREM ErrorLineCounted == Spec => []ReportedLine
<1>1. IInv => ReportedLine
  BY DEF IInv, CountInv
<1> QED
  BY <1>1, SpecIInv, PTL

-----------------------------------------------------------------------------
(* The numbers of a mode line.                                              *)

(* What strtoul computes, digit by digit.                                   *)
Value(str) ==
  CHOOSE f : f = [k \in 0..Len(str) |->
    IF k = 0 THEN 0 ELSE (f[k - 1] * 10 + str[k]) % UINTN_LIMIT]

LEMMA ValueIs ==
  ASSUME NEW str \in Seq(0..Letter)
  PROVE  /\ strtoul(str, 10) = Value(str)[DigitsOf(str, 10)]
         /\ Value(str) \in [0..Len(str) -> Nat]
         /\ Value(str)[0] = 0
         /\ \A k \in 1..Len(str) :
              Value(str)[k] = (Value(str)[k - 1] * 10 + str[k]) % UINTN_LIMIT
<1> DEFINE N == Len(str)
           step == [p \in (1..N) \X Nat |-> (p[2] * 10 + str[p[1]]) % UINTN_LIMIT]
           Body(f) == [k \in 0..N |->
             IF k = 0 THEN 0 ELSE (f[k - 1] * 10 + str[k]) % UINTN_LIMIT]
<1>1. N \in Nat /\ \A k \in 1..N : str[k] \in Nat
  BY DEF Letter
<1>2. \A a \in Nat : a % UINTN_LIMIT \in Nat
  BY WidthsAssumption
<1>3. \A p \in (1..N) \X Nat : p[2] * 10 + str[p[1]] \in Nat
  BY <1>1
<1>4. step \in [(1..N) \X Nat -> Nat]
  BY <1>2, <1>3
<1>5. PICK g : Iterates(g, N, Nat, 0, step)
  <2>1. 0 \in Nat /\ N \in Nat /\ step \in Steps(N, Nat)
    BY <1>1, <1>4 DEF Steps
  <2> HIDE DEF step, N, Body
  <2> QED  BY <2>1, RecursionExists
<1>5a. g \in [0..N -> Nat] /\ g[0] = 0 /\ \A k \in 1..N : g[k] = step[<<k, g[k - 1]>>]
  <2> HIDE DEF step
  <2> QED  BY <1>5 DEF Iterates
<1>6. \A k \in 1..N : g[k] = (g[k - 1] * 10 + str[k]) % UINTN_LIMIT
  <2> TAKE k \in 1..N
  <2>1. k - 1 \in 0..N
    BY <1>1
  <2>2. g[k - 1] \in Nat
    <3> HIDE DEF N, step, Body
    <3> QED  BY <1>5a, <2>1
  <2>3. g[k] = step[<<k, g[k - 1]>>]
    BY <1>5a
  <2> DEFINE m == g[k - 1]
  <2>4. m \in Nat /\ g[k] = step[<<k, m>>]
    BY <2>2, <2>3
  <2> HIDE DEF m
  <2>5. step[<<k, m>>] = (m * 10 + str[k]) % UINTN_LIMIT
    BY <2>4
  <2>6. g[k] = (m * 10 + str[k]) % UINTN_LIMIT
    BY <2>4, <2>5
  <2> QED
    BY <2>6 DEF m
<1>7. g = Body(g)
  <2>1. \A k \in 0..N : k = 0 \/ k \in 1..N
    BY <1>1
  <2>2. \A k \in 0..N : g[k] = IF k = 0 THEN 0 ELSE (g[k - 1] * 10 + str[k]) % UINTN_LIMIT
    BY <1>5a, <1>6, <2>1
  <2> QED
    BY <1>5a, <2>2
<1>8. Value(str) = Body(Value(str))
  BY <1>7 DEF Value
<1> DEFINE f == Value(str)
<1>9. f[0] = 0 /\ \A k \in 1..N : f[k] = (f[k - 1] * 10 + str[k]) % UINTN_LIMIT
  <2> HIDE DEF f
  <2>1. f = Body(f)
    BY <1>8 DEF f
  <2>2. \A k \in 0..N : Body(f)[k] =
          IF k = 0 THEN 0 ELSE (f[k - 1] * 10 + str[k]) % UINTN_LIMIT
    OBVIOUS
  <2> HIDE DEF Body
  <2>3. \A k \in 0..N : f[k] = IF k = 0 THEN 0 ELSE (f[k - 1] * 10 + str[k]) % UINTN_LIMIT
    BY <2>1, <2>2
  <2>4. 0 \in 0..N /\ \A k \in 1..N : k \in 0..N /\ k # 0
    BY <1>1
  <2> QED
    BY <2>3, <2>4
<1>10. f \in [0..N -> Nat]
  <2>1. ASSUME NEW k \in 1..N, f[k - 1] \in Nat
        PROVE  f[k] \in Nat
    <3> HIDE DEF f
    <3>1. f[k] = (f[k - 1] * 10 + str[k]) % UINTN_LIMIT
      BY <1>9
    <3>2. f[k - 1] * 10 + str[k] \in Nat
      BY <1>1, <2>1
    <3> QED
      BY <1>2, <3>1, <3>2
  <2>2. f[0] \in Nat
    BY <1>9
  <2>3. \A k \in 0..N : f[k] \in Nat
    <3> HIDE DEF f, N
    <3> QED  BY <1>1, <2>1, <2>2, RecursionStays
  <2> QED
    BY <2>3, <1>8
<1>11. strtoul(str, 10) = f[DigitsOf(str, 10)]
  BY DEF strtoul, Value
<1> QED
  BY <1>9, <1>10, <1>11

LEMMA WeightsAre ==
  ASSUME NEW str \in Seq(0..Letter)
  PROVE  /\ Weights(str) \in [0..Len(str) -> Nat \ {0}]
         /\ Weights(str)[0] = 1
         /\ \A k \in 1..Len(str) : Weights(str)[k] = 10 * Weights(str)[k - 1]
<1> DEFINE N == Len(str)
           step == [p \in (1..N) \X (Nat \ {0}) |-> 10 * p[2]]
           Body(f) == [n \in 0..N |-> IF n = 0 THEN 1 ELSE 10 * f[n - 1]]
           f == Weights(str)
<1>1. N \in Nat
  OBVIOUS
<1>2. step \in Steps(N, Nat \ {0})
  BY DEF Steps
<1>3. PICK g : Iterates(g, N, Nat \ {0}, 1, step)
  <2>1. 1 \in Nat \ {0}
    OBVIOUS
  <2> HIDE DEF step, N, Body, f
  <2> QED  BY <2>1, <1>1, <1>2, RecursionExists
<1>4. g = Body(g)
  <2>1. \A k \in 0..N : k = 0 \/ k \in 1..N
    BY <1>1
  <2>2. g \in [0..N -> Nat \ {0}] /\ g[0] = 1 /\ \A k \in 1..N : g[k] = step[<<k, g[k - 1]>>]
    <3> HIDE DEF step
    <3> QED  BY <1>3 DEF Iterates
  <2>3. \A k \in 1..N : g[k] = 10 * g[k - 1]
    <3> TAKE k \in 1..N
    <3>1. <<k, g[k - 1]>> \in (1..N) \X (Nat \ {0})
      BY <1>1, <2>2
    <3> QED
      BY <2>2, <3>1
  <2>4. \A k \in 0..N : g[k] = IF k = 0 THEN 1 ELSE 10 * g[k - 1]
    BY <2>1, <2>2, <2>3
  <2> QED
    BY <2>2, <2>4
<1>5. f = Body(f)
  BY <1>4 DEF Weights
<1>6. f[0] = 1 /\ \A k \in 1..N : f[k] = 10 * f[k - 1]
  <2> HIDE DEF f
  <2>1. \A k \in 0..N : Body(f)[k] = IF k = 0 THEN 1 ELSE 10 * f[k - 1]
    OBVIOUS
  <2> HIDE DEF Body
  <2>2. \A k \in 0..N : f[k] = IF k = 0 THEN 1 ELSE 10 * f[k - 1]
    BY <1>5, <2>1
  <2>3. 0 \in 0..N /\ \A k \in 1..N : k \in 0..N /\ k # 0
    BY <1>1
  <2> QED
    BY <2>2, <2>3
<1>7. \A k \in 0..N : f[k] \in Nat \ {0}
  <2> HIDE DEF f, N
  <2>1. f[0] \in Nat \ {0} /\ \A k \in 1..N : f[k - 1] \in Nat \ {0} => f[k] \in Nat \ {0}
    BY <1>6
  <2> QED
    BY <1>1, <2>1, RecursionStays
<1> QED
  BY <1>5, <1>6, <1>7

LEMMA SumsAre ==
  ASSUME NEW str \in Seq(0..Letter)
  PROVE  /\ Sums(str) \in [0..Len(str) -> Nat]
         /\ Sums(str)[0] = 0
         /\ \A k \in 1..Len(str) :
              Sums(str)[k] = Sums(str)[k - 1] + str[k] * Weights(str)[Len(str) - k]
<1> DEFINE N == Len(str)
           Term(k) == str[k] * Weights(str)[N - k]
           step == [p \in (1..N) \X Nat |-> p[2] + Term(p[1])]
           Body(f) == [k \in 0..N |-> IF k = 0 THEN 0 ELSE f[k - 1] + Term(k)]
           f == Sums(str)
<1>1. N \in Nat
  OBVIOUS
<1>2. \A k \in 1..N : Term(k) \in Nat
  <2> TAKE k \in 1..N
  <2>1. N - k \in 0..N /\ str[k] \in Nat
    BY <1>1 DEF Letter
  <2>2. Weights(str)[N - k] \in Nat
    BY <2>1, WeightsAre
  <2>3. \A a, b \in Nat : a * b \in Nat
    OBVIOUS
  <2> QED
    BY <2>1, <2>2, <2>3
<1> HIDE DEF Term
<1>3. step \in Steps(N, Nat)
  BY <1>2 DEF Steps
<1>4. PICK g : Iterates(g, N, Nat, 0, step)
  <2>1. 0 \in Nat
    OBVIOUS
  <2> HIDE DEF step, N, Body, f
  <2> QED  BY <2>1, <1>1, <1>3, RecursionExists
<1>5. g = Body(g)
  <2>1. \A k \in 0..N : k = 0 \/ k \in 1..N
    BY <1>1
  <2>2. g \in [0..N -> Nat] /\ g[0] = 0 /\ \A k \in 1..N : g[k] = step[<<k, g[k - 1]>>]
    <3> HIDE DEF step
    <3> QED  BY <1>4 DEF Iterates
  <2>3. \A k \in 1..N : g[k] = g[k - 1] + Term(k)
    <3> TAKE k \in 1..N
    <3>1. <<k, g[k - 1]>> \in (1..N) \X Nat
      BY <1>1, <2>2
    <3> QED
      BY <2>2, <3>1
  <2>4. \A k \in 0..N : g[k] = IF k = 0 THEN 0 ELSE g[k - 1] + Term(k)
    BY <2>1, <2>2, <2>3
  <2> QED
    BY <2>2, <2>4
<1>6. f = Body(f)
  BY <1>5 DEF Sums, Term
<1>7. f[0] = 0 /\ \A k \in 1..N : f[k] = f[k - 1] + Term(k)
  <2> HIDE DEF f
  <2>1. \A k \in 0..N : Body(f)[k] = IF k = 0 THEN 0 ELSE f[k - 1] + Term(k)
    OBVIOUS
  <2> HIDE DEF Body
  <2>2. \A k \in 0..N : f[k] = IF k = 0 THEN 0 ELSE f[k - 1] + Term(k)
    BY <1>6, <2>1
  <2>3. 0 \in 0..N /\ \A k \in 1..N : k \in 0..N /\ k # 0
    BY <1>1
  <2> QED
    BY <2>2, <2>3
<1>8. \A k \in 0..N : f[k] \in Nat
  <2> HIDE DEF f, N
  <2>1. f[0] \in Nat /\ \A k \in 1..N : f[k - 1] \in Nat => f[k] \in Nat
    BY <1>2, <1>7
  <2> QED
    BY <1>1, <2>1, RecursionStays
<1> QED
  BY <1>6, <1>7, <1>8 DEF Term

(* As long as the number fits, its remainders are the number: the digits    *)
(* read so far, moved to their place, are the sum of their terms, and the   *)
(* sums only grow.                                                          *)
LEMMA ValueIsWritten ==
  ASSUME NEW str \in Seq(0..Letter), Written(str) < UINTN_LIMIT
  PROVE  Value(str)[Len(str)] = Written(str) /\ Written(str) \in Nat
<1> DEFINE N == Len(str)
           V == Value(str)
           W == Weights(str)
           S == Sums(str)
<1>1. N \in Nat /\ \A k \in 1..N : str[k] \in Nat
  BY DEF Letter
<1>2. /\ V \in [0..N -> Nat] /\ V[0] = 0
      /\ \A k \in 1..N : V[k] = (V[k - 1] * 10 + str[k]) % UINTN_LIMIT
  BY ValueIs
<1>3. W \in [0..N -> Nat \ {0}] /\ W[0] = 1 /\ \A k \in 1..N : W[k] = 10 * W[k - 1]
  BY WeightsAre
<1>4. S \in [0..N -> Nat] /\ S[0] = 0 /\ \A k \in 1..N : S[k] = S[k - 1] + str[k] * W[N - k]
  BY SumsAre
<1>5. S[N] < UINTN_LIMIT /\ Written(str) = S[N]
  BY DEF Written
<1> HIDE DEF V, W, S, N
<1>6. \A k \in 1..N : k \in 0..N /\ k - 1 \in 0..N /\ N - k \in 0..N /\ N - (k - 1) \in 1..N
                    /\ (N - (k - 1)) - 1 = N - k
  BY <1>1
<1>7. \A k \in 1..N : S[k - 1] <= S[k]
  <2> TAKE k \in 1..N
  <2>1. str[k] \in Nat /\ W[N - k] \in Nat
    BY <1>1, <1>3, <1>6
  <2>2. \A a, b \in Nat : a * b \in Nat
    OBVIOUS
  <2>3. str[k] * W[N - k] \in Nat
    BY <2>1, <2>2
  <2>4. S[k - 1] \in Nat /\ S[k] = S[k - 1] + str[k] * W[N - k]
    BY <1>4, <1>6
  <2> QED
    BY <2>3, <2>4
<1>8. \A k \in 0..N : S[k] <= S[N]
  <2> DEFINE Below == {n \in 0..N : \A k \in 0..n : S[k] <= S[n]}
  <2>1. 0 \in Below
    <3>1. 0 \in 0..N /\ S[0] \in Nat /\ \A k \in 0..0 : k = 0
      BY <1>1, <1>4
    <3> QED
      BY <3>1
  <2>2. ASSUME NEW n \in 1..N, n - 1 \in Below
        PROVE  n \in Below
    <3>1. \A k \in 0..n : k = n \/ k \in 0..(n - 1)
      BY <1>1
    <3>2. S[n] \in Nat /\ S[n - 1] \in Nat /\ S[n - 1] <= S[n]
      BY <1>4, <1>6, <1>7
    <3>3. \A k \in 0..(n - 1) : S[k] \in Nat /\ S[k] <= S[n - 1]
      BY <2>2, <1>1, <1>4
    <3>4. \A k \in 0..n : S[k] <= S[n]
      BY <3>1, <3>2, <3>3
    <3> QED
      BY <3>4, <1>6
  <2>3. N \in 0..N
    BY <1>1
  <2> HIDE DEF Below
  <2>4. N \in Below
    BY <1>1, <2>1, <2>2, <2>3, UpTo
  <2> QED
    BY <2>4 DEF Below
<1>9. \A k \in 0..N : V[k] * W[N - k] = S[k]
  <2> DEFINE Same == {k \in 0..N : V[k] * W[N - k] = S[k]}
  <2>1. 0 \in Same
    <3>1. W[N - 0] \in Nat /\ 0 \in 0..N
      BY <1>1, <1>3
    <3> QED
      BY <3>1, <1>2, <1>4
  <2>2. ASSUME NEW k \in 1..N, k - 1 \in Same
        PROVE  k \in Same
    <3> DEFINE a == V[k - 1]
               w == W[N - k]
               x == a * 10 + str[k]
    <3>1. a \in Nat /\ w \in Nat \ {0} /\ str[k] \in Nat /\ x \in Nat
      <4>1. k - 1 \in 0..N /\ N - k \in 0..N
        BY <1>6
      <4>2. a \in Nat
        BY <4>1, <1>2
      <4>3. w \in Nat \ {0}
        BY <4>1, <1>3
      <4>4. str[k] \in Nat
        BY <1>1
      <4> QED
        BY <4>2, <4>3, <4>4
    <3>2. W[N - (k - 1)] = 10 * w
      BY <1>3, <1>6
    <3>3. S[k] = a * (10 * w) + str[k] * w
      BY <2>2, <3>2, <1>4
    <3>4. \A p, q, r \in Nat : p * (10 * r) + q * r = (p * 10 + q) * r
      OBVIOUS
    <3>5. S[k] = x * w
      <4> HIDE DEF a, w
      <4>1. a * (10 * w) + str[k] * w = (a * 10 + str[k]) * w
        BY <3>1, <3>4, Zenon
      <4> QED
        BY <3>3, <4>1, Zenon
    <3>6. \A p \in Nat, q \in Nat \ {0} : p <= p * q
      OBVIOUS
    <3>7. x < UINTN_LIMIT
      <4>1. S[k] <= S[N] /\ S[k] \in Nat /\ S[N] \in Nat
        BY <1>8, <1>6, <1>4, <1>1
      <4> HIDE DEF x
      <4>2. x <= x * w
        BY <3>1, <3>6
      <4> QED
        BY <4>1, <4>2, <3>1, <3>5, <1>5, WidthsAssumption
    <3>8. \A p \in Nat : p < UINTN_LIMIT => p % UINTN_LIMIT = p
      BY WidthsAssumption
    <3>9. V[k] = x
      <4>1. V[k] = x % UINTN_LIMIT
        BY <1>2
      <4> HIDE DEF x
      <4> QED
        BY <4>1, <3>1, <3>7, <3>8
    <3> QED
      BY <3>5, <3>9, <1>6
  <2> HIDE DEF Same
  <2>3. \A k \in 0..N : k \in Same
    BY <1>1, <2>1, <2>2, UpTo
  <2> QED
    BY <2>3 DEF Same
<1>10. N \in 0..N /\ N - N = 0 /\ V[N] \in Nat
  BY <1>1, <1>2
<1>11. V[N] * W[0] = S[N]
  BY <1>9, <1>10
<1>12. V[N] = Written(str) /\ Written(str) \in Nat
  BY <1>11, <1>3, <1>10, <1>5
<1> QED
  BY <1>12 DEF V, N

(* strtoul reads the whole of a number and only part of anything else.      *)
LEMMA DigitsAre ==
  ASSUME NEW str \in Tokens
  PROVE  /\ DigitsOf(str, 10) \in 0..Len(str)
         /\ DigitsOf(str, 10) = Len(str) <=> IsNumber(str)
<1> DEFINE N == Len(str)
           Ends(n) == (\A k \in 1..n : str[k] < 10) /\ (n < N => str[n + 1] >= 10)
           Beyond == {k \in 1..N : str[k] >= 10}
<1>1. N \in Nat /\ DOMAIN str = 1..N /\ \A k \in 1..N : str[k] \in 0..17
  BY DEF Tokens, Letter
<1>2. IsNumber(str) <=> \A k \in 1..N : str[k] < 10
  BY <1>1 DEF IsNumber
<1>3. \E n \in 0..N : Ends(n)
  <2>1. CASE Beyond = {}
    <3>1. ASSUME NEW k \in 1..N PROVE str[k] < 10
      <4>1. ~(str[k] >= 10)
        BY <2>1
      <4>2. str[k] \in 0..17
        BY <1>1
      <4> HIDE DEF N, Beyond
      <4> QED
        BY <4>1, <4>2
    <3>2. N \in 0..N /\ ~(N < N)
      BY <1>1
    <3> QED
      BY <3>1, <3>2
  <2>2. CASE Beyond # {}
    <3>1. Beyond \in SUBSET Nat
      BY <1>1
    <3>2. PICK least \in Beyond : \A k \in Beyond : least <= k
      <4> HIDE DEF Beyond
      <4> QED  BY <2>2, <3>1, LeastExists
    <3>3. least \in 1..N /\ str[least] >= 10
      BY <3>2
    <3>4. \A k \in 1..(least - 1) : k \in 1..N /\ ~(least <= k)
      BY <3>3, <1>1
    <3>5. \A k \in 1..(least - 1) : str[k] < 10
      BY <3>2, <3>4, <1>1
    <3>6. least - 1 \in 0..N /\ (least - 1) + 1 = least
      BY <3>3, <1>1
    <3> QED
      BY <3>3, <3>5, <3>6
  <2> QED
    BY <2>1, <2>2
<1>4. DigitsOf(str, 10) \in 0..N /\ Ends(DigitsOf(str, 10))
  BY <1>3 DEF DigitsOf
<1>5. ASSUME IsNumber(str)
      PROVE  DigitsOf(str, 10) = N
  <2>1. \A n \in 0..N : n < N => n + 1 \in 1..N
    BY <1>1
  <2> QED
    BY <1>1, <1>2, <1>4, <1>5, <2>1
<1>6. ASSUME DigitsOf(str, 10) = N
      PROVE  IsNumber(str)
  BY <1>2, <1>4, <1>6
<1> QED
  BY <1>4, <1>5, <1>6

LEMMA StrtoulIsWritten ==
  ASSUME NEW str \in Tokens, IsNumber(str), Written(str) < UINTN_LIMIT
  PROVE  strtoul(str, 10) = Written(str)
<1>1. str \in Seq(0..Letter)
  BY DEF Tokens
<1>2. strtoul(str, 10) = Value(str)[DigitsOf(str, 10)]
  BY <1>1, ValueIs
<1> QED
  BY <1>1, <1>2, DigitsAre, ValueIsWritten

LEMMA WrittenType ==
  ASSUME NEW str \in Tokens
  PROVE  Written(str) \in Nat
<1>1. str \in Seq(0..Letter) /\ Len(str) \in 0..Len(str)
  BY DEF Tokens
<1> QED
  BY <1>1, SumsAre DEF Written

(* parse_u32 accepts the numbers that fit, and what wraps to one.           *)
LEMMA NumberParsed ==
  ASSUME NEW str \in Tokens
  PROVE  /\ IsNumber(str) /\ Written(str) <= UINT32_MAX => parse_u32(str) = Parsed(Written(str))
         /\ parse_u32(str).valid =>
              \/ Wraps(str)
              \/ /\ IsNumber(str) /\ Written(str) <= UINT32_MAX
                 /\ parse_u32(str).value = Written(str)
<1>1. Len(str) \in Nat
  BY DEF Tokens
<1>2. str # <<>> /\ Written(str) \in Nat
  BY WrittenType DEF Tokens
<1>3. ASSUME IsNumber(str), Written(str) <= UINT32_MAX
      PROVE  parse_u32(str) = Parsed(Written(str))
  <2>1. Written(str) < UINTN_LIMIT
    BY <1>2, <1>3, WidthsAssumption
  <2>2. strtoul(str, 10) = Written(str) /\ DigitsOf(str, 10) = Len(str)
    BY <1>3, <2>1, StrtoulIsWritten, DigitsAre
  <2>3. Len(str) \in Nat
    BY DEF Tokens
  <2> QED
    BY <1>2, <1>3, <2>2, <2>3, WidthsAssumption DEF parse_u32
<1>4. ASSUME parse_u32(str).valid, ~Wraps(str)
      PROVE  /\ IsNumber(str) /\ Written(str) <= UINT32_MAX
             /\ parse_u32(str).value = Written(str)
  <2>1. ~(DigitsOf(str, 10) < Len(str)) /\ ~(strtoul(str, 10) > UINT32_MAX)
    BY <1>4 DEF parse_u32, Invalid
  <2>2. DigitsOf(str, 10) = Len(str)
    BY <2>1, DigitsAre, <1>1
  <2>3. IsNumber(str)
    BY <2>2, DigitsAre
  <2>4. Written(str) < UINTN_LIMIT
    BY <1>2, <1>4, <2>3, WidthsAssumption DEF Wraps
  <2>5. strtoul(str, 10) = Written(str)
    BY <2>3, <2>4, StrtoulIsWritten
  <2>6. Written(str) <= UINT32_MAX
    BY <2>1, <2>5, <1>2, WidthsAssumption
  <2> QED
    BY <2>3, <2>6, <1>3 DEF Parsed
<1> QED
  BY <1>3, <1>4

LEMMA FormatParsed ==
  ASSUME NEW str \in Tokens
  PROVE  /\ str = MinusOne => parse_mode_format(str) = Parsed(-1)
         /\ str # MinusOne /\ IsNumber(str) /\ Written(str) <= INT32_MAX =>
              parse_mode_format(str) = Parsed(Written(str))
         /\ str # MinusOne /\ parse_mode_format(str).valid =>
              \/ Wraps(str)
              \/ /\ IsNumber(str) /\ Written(str) <= INT32_MAX
                 /\ parse_mode_format(str).value = Written(str)
<1>1. Written(str) \in Nat
  BY WrittenType
<1>2. str = MinusOne => parse_mode_format(str) = Parsed(-1)
  BY DEF parse_mode_format
<1>3. ASSUME str # MinusOne, IsNumber(str), Written(str) <= INT32_MAX
      PROVE  parse_mode_format(str) = Parsed(Written(str))
  <2>1. Written(str) <= UINT32_MAX
    BY <1>1, <1>3, WidthsAssumption
  <2>2. parse_u32(str) = Parsed(Written(str))
    BY <1>3, <2>1, NumberParsed
  <2> QED
    BY <1>3, <2>2 DEF parse_mode_format, Parsed
<1>4. ASSUME str # MinusOne, parse_mode_format(str).valid, ~Wraps(str)
      PROVE  /\ IsNumber(str) /\ Written(str) <= INT32_MAX
             /\ parse_mode_format(str).value = Written(str)
  <2>1. /\ parse_u32(str).valid /\ parse_u32(str).value <= INT32_MAX
        /\ parse_mode_format(str) = parse_u32(str)
    BY <1>4 DEF parse_mode_format, Invalid
  <2> QED
    BY <1>4, <2>1, NumberParsed
<1> QED
  BY <1>2, <1>3, <1>4

(* A mode line parses if it writes a mode, and then to that mode, or else   *)
(* one of its numbers wraps.                                                *)
LEMMA ModeParsed ==
  ASSUME NEW tokens \in Seq(Tokens)
  PROVE  /\ Admissible(tokens) => parse_config_mode(tokens).valid
         /\ parse_config_mode(tokens).valid =>
              \/ Admissible(tokens) /\ parse_config_mode(tokens).value = ModeWritten(tokens)
              \/ \E k \in DOMAIN tokens : Wraps(tokens[k])
<1> DEFINE width == parse_u32(tokens[1])
           height == parse_u32(tokens[2])
           format == IF Len(tokens) < 3 THEN Parsed(-1) ELSE parse_mode_format(tokens[3])
           depth == IF Len(tokens) < 4 THEN Parsed(0) ELSE parse_u32(tokens[4])
           Good == /\ Len(tokens) \in 2..4
                   /\ width.valid /\ height.valid /\ format.valid /\ depth.valid
           Mode == [width |-> width.value, height |-> height.value,
                    format |-> format.value, depth |-> depth.value]
<1>1. parse_config_mode(tokens) = IF Good THEN Parsed(Mode) ELSE Invalid
  BY DEF parse_config_mode
<1>2. Len(tokens) \in Nat /\ DOMAIN tokens = 1..Len(tokens)
  OBVIOUS
<1>3. \A k \in 1..Len(tokens) : tokens[k] \in Tokens
  <2> HIDE DEF Tokens
  <2> QED  OBVIOUS
<1>4. \A v : Parsed(v).valid /\ Parsed(v).value = v
  BY DEF Parsed
<1>5. ~Invalid.valid
  BY DEF Invalid
<1>6. Len(tokens) \in 2..4 =>
        /\ tokens[1] \in Tokens /\ tokens[2] \in Tokens
        /\ ~(Len(tokens) < 3) => tokens[3] \in Tokens
        /\ ~(Len(tokens) < 4) => tokens[4] \in Tokens
  BY <1>2, <1>3
<1>7. MinusOne \notin {str \in Tokens : IsNumber(str)}
  BY DEF MinusOne, IsNumber, Minus
<1>8. ASSUME Admissible(tokens)
      PROVE  Good
  <2>1. Len(tokens) \in 2..4
    BY <1>8 DEF Admissible
  <2>2. \A k \in 1..Len(tokens) : k # 3 =>
          IsNumber(tokens[k]) /\ Written(tokens[k]) <= UINT32_MAX
    BY <1>8, <1>2 DEF Admissible
  <2>3. ~(Len(tokens) < 3) =>
          \/ tokens[3] = MinusOne
          \/ IsNumber(tokens[3]) /\ Written(tokens[3]) <= INT32_MAX
    BY <1>8, <1>2, <2>1 DEF Admissible
  <2>4. width.valid /\ height.valid
    <3>1. 1 \in 1..Len(tokens) /\ 2 \in 1..Len(tokens)
      BY <2>1, <1>2
    <3>2. \A k \in {1, 2} : parse_u32(tokens[k]).valid
      BY <3>1, <2>2, <1>3, <1>4, NumberParsed
    <3> QED
      BY <3>2
  <2>5. format.valid
    <3>1. CASE Len(tokens) < 3
      BY <3>1, <1>4
    <3>2. CASE ~(Len(tokens) < 3)
      <4>1. parse_mode_format(tokens[3]).valid
        BY <3>2, <2>1, <2>3, <1>6, <1>4, FormatParsed
      <4> QED
        BY <3>2, <4>1
    <3> QED
      BY <3>1, <3>2
  <2>6. depth.valid
    <3>1. CASE Len(tokens) < 4
      BY <3>1, <1>4
    <3>2. CASE ~(Len(tokens) < 4)
      <4>1. 4 \in 1..Len(tokens)
        BY <3>2, <2>1
      <4>2. parse_u32(tokens[4]).valid
        BY <4>1, <2>2, <1>3, <1>4, NumberParsed
      <4> QED
        BY <3>2, <4>2
    <3> QED
      BY <3>1, <3>2
  <2> QED
    BY <2>1, <2>4, <2>5, <2>6
<1>9. ASSUME Good, \A k \in DOMAIN tokens : ~Wraps(tokens[k])
      PROVE  Admissible(tokens) /\ Mode = ModeWritten(tokens)
  <2>1. Len(tokens) \in 2..4 /\ width.valid /\ height.valid /\ format.valid /\ depth.valid
    BY <1>9
  <2>2. /\ IsNumber(tokens[1]) /\ Written(tokens[1]) <= UINT32_MAX
        /\ width.value = Written(tokens[1])
    <3>1. 1 \in 1..Len(tokens)
      BY <2>1, <1>2
    <3> QED
      BY <3>1, <2>1, <1>9, <1>2, <1>3, NumberParsed
  <2>3. /\ IsNumber(tokens[2]) /\ Written(tokens[2]) <= UINT32_MAX
        /\ height.value = Written(tokens[2])
    <3>1. 2 \in 1..Len(tokens)
      BY <2>1, <1>2
    <3> QED
      BY <3>1, <2>1, <1>9, <1>2, <1>3, NumberParsed
  <2>4. ~(Len(tokens) < 3) /\ tokens[3] # MinusOne =>
          /\ IsNumber(tokens[3]) /\ Written(tokens[3]) <= INT32_MAX
          /\ format.value = Written(tokens[3])
    <3> SUFFICES ASSUME ~(Len(tokens) < 3), tokens[3] # MinusOne
                 PROVE  /\ IsNumber(tokens[3]) /\ Written(tokens[3]) <= INT32_MAX
                        /\ format.value = Written(tokens[3])
      OBVIOUS
    <3>1. 3 \in 1..Len(tokens)
      BY <2>1
    <3>2. format = parse_mode_format(tokens[3])
      OBVIOUS
    <3> QED
      BY <3>1, <3>2, <2>1, <1>9, <1>2, <1>3, FormatParsed
  <2>5. Len(tokens) < 3 \/ tokens[3] = MinusOne => format.value = -1
    <3>1. CASE Len(tokens) < 3
      BY <3>1, <1>4
    <3>2. CASE ~(Len(tokens) < 3) /\ tokens[3] = MinusOne
      <4>1. parse_mode_format(tokens[3]) = Parsed(-1)
        BY <3>2, <2>1, <1>6, FormatParsed
      <4> QED
        BY <3>2, <4>1, <1>4
    <3> QED
      BY <3>1, <3>2
  <2>6. ~(Len(tokens) < 4) =>
          /\ IsNumber(tokens[4]) /\ Written(tokens[4]) <= UINT32_MAX
          /\ depth.value = Written(tokens[4])
    <3> SUFFICES ASSUME ~(Len(tokens) < 4)
                 PROVE  /\ IsNumber(tokens[4]) /\ Written(tokens[4]) <= UINT32_MAX
                        /\ depth.value = Written(tokens[4])
      OBVIOUS
    <3>1. 4 \in 1..Len(tokens)
      BY <2>1
    <3>2. depth = parse_u32(tokens[4])
      OBVIOUS
    <3> QED
      BY <3>1, <3>2, <2>1, <1>9, <1>2, <1>3, NumberParsed
  <2>7. Len(tokens) < 4 => depth.value = 0
    BY <1>4
  <2>8. Admissible(tokens)
    <3>1. \A n \in 2..4 : \A k \in 1..n :
            \/ k = 1 \/ k = 2
            \/ k = 3 /\ ~(n < 3)
            \/ k = 4 /\ ~(n < 4)
      OBVIOUS
    <3>2. \A k \in 1..Len(tokens) :
            \/ k = 1 \/ k = 2
            \/ k = 3 /\ ~(Len(tokens) < 3)
            \/ k = 4 /\ ~(Len(tokens) < 4)
      <4> HIDE DEF width, height, format, depth
      <4> QED  BY <3>1, <2>1
    <3> QED
      BY <3>2, <1>2, <2>1, <2>2, <2>3, <2>4, <2>6 DEF Admissible
  <2>9. Mode = ModeWritten(tokens)
    <3> HIDE DEF width, height, format, depth
    <3> QED
      BY <2>2, <2>3, <2>4, <2>5, <2>6, <2>7 DEF ModeWritten
  <2> QED
    BY <2>8, <2>9
<1> HIDE DEF Good, Mode
<1> QED
  BY <1>1, <1>4, <1>5, <1>8, <1>9

LEMMA LastModeLine ==
  ASSUME IInv, pc = "found"
  PROVE  LastLine(file, "mode") \in 1..Len(file) /\ file[LastLine(file, "mode")].kind = "mode"
<1>1. /\ Len(file) \in Nat /\ line \in 0..Len(file)
      /\ Rest = {} /\ seen = Keys
      /\ \A key \in seen : \E k \in 1..line :
           LastOf(key, k, line) /\ config[key] = ValueOf(file[k])
  BY FileFacts DEF IInv, FieldsInv, Opened
<1>2. \A k \in (line + 1)..Len(file) : file[k].kind = "empty"
  BY <1>1 DEF Rest
<1>3. PICK k \in 1..line : LastOf("mode", k, line)
  BY <1>1 DEF Keys
<1>4. \A l \in (k + 1)..Len(file) : l \in (k + 1)..line \/ l \in (line + 1)..Len(file)
  BY <1>1, <1>3
<1>5. k \in 1..Len(file) /\ LastOf("mode", k, Len(file))
  BY <1>1, <1>2, <1>3, <1>4 DEF LastOf
<1> QED
  BY <1>5 DEF LastLine, LastOf

(* The mode of the configuration is the one written in the last mode line,  *)
(* in as many digits as it likes, unless a number wraps; and no line that   *)
(* writes a mode is reported as an error.                                   *)
THEOREM ModeIsWritten == Spec => []ModeAsWritten
<1>1. ASSUME IInv, pc = "found"
      PROVE  LET tokens == file[LastLine(file, "mode")].value IN
             \/ Admissible(tokens) /\ config.mode = ModeWritten(tokens)
             \/ \E k \in DOMAIN tokens : Wraps(tokens[k])
  <2> DEFINE last == LastLine(file, "mode")
             tokens == file[last].value
  <2>1. Valid(file) /\ config = Meaning(file)
    BY <1>1, WholeFile
  <2>2. config.mode = parse_config_mode(tokens).value
    BY <2>1 DEF Meaning, Keys
  <2>3. /\ \A k \in 1..Len(file) : LineParses(file[k])
        /\ \A k \in 1..Len(file) : file[k].kind = "mode" => file[k].value \in Seq(Tokens)
    BY <1>1, <2>1, FileFacts DEF Valid, IInv
  <2>4. last \in 1..Len(file) /\ file[last].kind = "mode"
    BY <1>1, LastModeLine
  <2>5. tokens \in Seq(Tokens) /\ parse_config_mode(tokens).valid
    BY <2>3, <2>4 DEF LineParses
  <2> QED
    BY <2>2, <2>5, ModeParsed
<1>2. ASSUME IInv, reported.line # 0
      PROVE  LET l == volumes[reported.volume][reported.line] IN
             l.kind = "mode" => ~Admissible(l.value)
  <2> DEFINE l == volumes[reported.volume][reported.line]
  <2>1. ~LineParses(l) /\ (l.kind = "mode" => l.value \in Seq(Tokens))
    BY <1>2, ListFacts DEF IInv, RefusedInv
  <2>2. l.kind = "mode" => ~parse_config_mode(l.value).valid
    BY <2>1 DEF LineParses
  <2> QED
    BY <2>1, <2>2, ModeParsed
<1>3. IInv => ModeAsWritten
  BY <1>1, <1>2 DEF ModeAsWritten
<1> QED
  BY <1>3, SpecIInv, PTL
==============================================================================
