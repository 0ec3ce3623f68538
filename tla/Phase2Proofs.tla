---------------------------- MODULE Phase2Proofs -----------------------------
(***************************************************************************)
(* Proofs about Phase2, for every list of volumes and every number of      *)
(* handles.                                                                *)
(***************************************************************************)
EXTENDS Phase2, TLAPS

-----------------------------------------------------------------------------
(* The points of efi_main.                                                  *)

Searching == {"locate_handle", "volume", "open_kernel", "open_initramfs"}
WithInfo == {"get_kernel_info", "get_initramfs_info", "read_setup_header", "free_pool"}
Compressed == {"read_compressed", "allocate_preferred", "allocate_any", "decompress"}
WithKernel == {"initramfs_info_size", "malloc_file_info", "initramfs_info",
               "allocate_initramfs", "read_initramfs"}
Leaving == {"exit", "returned"}
Points == Searching \cup {"malloc_main_info", "create_dctx", "malloc_compressed"}
          \cup WithInfo \cup Compressed \cup WithKernel \cup Leaving

-----------------------------------------------------------------------------
(* The inductive invariant.                                                 *)

(* efi_main leaves early because of one function, whose failure it reports  *)
(* unless that is the malloc.                                               *)
PathInv ==
  /\ pc \in Points
  /\ in # "none" => pc \in Leaving
  /\ in \in {"malloc_main_info", "none"} \/ status = "error"

(* Where what a stage allocates can still be.                               *)
OwnInv ==
  /\ "main_info" \in live => pc \in WithInfo \/ in # "none"
  /\ "compressed_kernel" \in live => pc \in Compressed
  /\ "file_info" \in live => pc = "initramfs_info"
  /\ "kernel_pages" \in live =>
       pc \in {"decompress"} \cup WithKernel \/ (pc \in Leaving /\ in # "decompress_kernel")
  /\ "initramfs_pages" \in live =>
       pc = "read_initramfs" \/ (pc \in Leaving /\ in # "load_initramfs")

(* What is held on the way to a success.                                    *)
Succeeding == pc \in Leaving /\ in = "none"
HeldInv ==
  /\ pc \in {"decompress"} \cup WithKernel \/ Succeeding =>
       "kernel_pages" \in live /\ base # "none"
  /\ pc = "read_initramfs" \/ Succeeding => "initramfs_pages" \in live

(* The volumes before the current one had their turn: none of them is       *)
(* usable, and the current one has not failed yet.                          *)
SearchTypeOK == volumes \in Seq(SUBSET Files) /\ i \in Nat \ {0}
PassedInv ==
  pc \in Searching \/ in = "locate_kernel" => \A n \in 1..(i - 1) : ~Usable(n)
CurrentInv ==
  pc \in Searching =>
    /\ faulty \subseteq 1..(i - 1)
    /\ pc \in {"open_kernel", "open_initramfs"} => i \in 1..Len(volumes)
    /\ pc = "open_initramfs" =>
         /\ kernel_file = i
         /\ "vmlinuz-linux" \in volumes[i]
         /\ <<i, "vmlinuz-linux">> \in opened
SearchInv == SearchTypeOK /\ PassedInv /\ CurrentInv /\ FilesTogether

IInv == PathInv /\ OwnInv /\ HeldInv /\ SearchInv

-----------------------------------------------------------------------------
LEMMA InitIInv == Init => IInv
<1> SUFFICES ASSUME Init PROVE IInv
  OBVIOUS
<1>1. PathInv /\ OwnInv /\ HeldInv
  BY DEF Init, LoadingInit, PathInv, OwnInv, HeldInv, Succeeding, Points, Searching,
         WithInfo, Compressed, WithKernel, Leaving
<1>2. SearchInv
  BY Phase2Assumption DEF Init, LoadingInit, SearchInv, SearchTypeOK, PassedInv,
         CurrentInv, FilesTogether, Located, Searching
<1> QED
  BY <1>1, <1>2 DEF IInv

LEMMA NextPath == PathInv /\ [Next]_vars => PathInv'
<1> SUFFICES ASSUME PathInv, [Next]_vars PROVE PathInv'
  OBVIOUS
<1> USE DEF PathInv, Points, Searching, WithInfo, Compressed, WithKernel, Leaving,
            Continue, GiveUp, Check, Acquire
<1>1. CASE LocateKernel
  BY <1>1 DEF LocateKernel, LocateHandle, OpenVolume, OpenKernel, OpenInitramfs,
              NoMoreVolumes, NextVolume, Opens, NotOpened
<1>2. CASE MallocMainInfo \/ GetKernelInfo \/ GetInitramfsInfo
  BY <1>2 DEF MallocMainInfo, GetKernelInfo, GetInitramfsInfo
<1>3. CASE wboot_read_setup_header \/ FreeMainInfo
  BY <1>3 DEF wboot_read_setup_header, ReadSetupHeader, FreeMainInfo
<1>4. CASE DecompressKernel
  BY <1>4 DEF DecompressKernel, wboot_decompress_kernel, CreateDCtx, MallocCompressed,
              ReadCompressed, AllocatePreferred, AllocateAny, Decompress
<1>5. CASE wboot_load_initramfs
  BY <1>5 DEF wboot_load_initramfs, InitramfsBuffer, InitramfsInfoSize, MallocFileInfo,
              InitramfsInfo, AllocateInitramfs, ReadInitramfs, Reads, ReadFails
<1>6. CASE Exit \/ UNCHANGED vars
  BY <1>6 DEF Exit, vars, loadVars
<1> QED
  BY <1>1, <1>2, <1>3, <1>4, <1>5, <1>6 DEF Next, MainStep

(* Each stage allocates at one point and releases on every other way out.   *)
LEMMA NextOwn == PathInv /\ OwnInv /\ [Next]_vars => OwnInv'
<1> SUFFICES ASSUME PathInv, OwnInv, [Next]_vars PROVE OwnInv'
  OBVIOUS
<1> USE DEF PathInv, OwnInv, Points, Searching, WithInfo, Compressed, WithKernel, Leaving,
            Continue, GiveUp, Check, Acquire
<1>1. CASE LocateKernel
  BY <1>1 DEF LocateKernel, LocateHandle, OpenVolume, OpenKernel, OpenInitramfs,
              NoMoreVolumes, NextVolume, Opens, NotOpened
<1>2. CASE MallocMainInfo \/ GetKernelInfo \/ GetInitramfsInfo
  BY <1>2 DEF MallocMainInfo, GetKernelInfo, GetInitramfsInfo
<1>3. CASE wboot_read_setup_header \/ FreeMainInfo
  BY <1>3 DEF wboot_read_setup_header, ReadSetupHeader, FreeMainInfo
<1>4. CASE DecompressKernel
  BY <1>4 DEF DecompressKernel, wboot_decompress_kernel, CreateDCtx, MallocCompressed,
              ReadCompressed, AllocatePreferred, AllocateAny, Decompress
<1>5. CASE wboot_load_initramfs
  BY <1>5 DEF wboot_load_initramfs, InitramfsBuffer, InitramfsInfoSize, MallocFileInfo,
              InitramfsInfo, AllocateInitramfs, ReadInitramfs, Reads, ReadFails
<1>6. CASE Exit \/ UNCHANGED vars
  BY <1>6 DEF Exit, vars, loadVars
<1> QED
  BY <1>1, <1>2, <1>3, <1>4, <1>5, <1>6 DEF Next, MainStep

LEMMA NextHeld == PathInv /\ HeldInv /\ [Next]_vars => HeldInv'
<1> SUFFICES ASSUME PathInv, HeldInv, [Next]_vars PROVE HeldInv'
  OBVIOUS
<1> USE DEF PathInv, HeldInv, Succeeding, Points, Searching, WithInfo, Compressed, WithKernel, Leaving,
            Continue, GiveUp, Check, Acquire
<1>1. CASE LocateKernel
  BY <1>1 DEF LocateKernel, LocateHandle, OpenVolume, OpenKernel, OpenInitramfs,
              NoMoreVolumes, NextVolume, Opens, NotOpened
<1>2. CASE MallocMainInfo \/ GetKernelInfo \/ GetInitramfsInfo
  BY <1>2 DEF MallocMainInfo, GetKernelInfo, GetInitramfsInfo
<1>3. CASE wboot_read_setup_header \/ FreeMainInfo
  BY <1>3 DEF wboot_read_setup_header, ReadSetupHeader, FreeMainInfo
<1>4. CASE DecompressKernel
  BY <1>4 DEF DecompressKernel, wboot_decompress_kernel, CreateDCtx, MallocCompressed,
              ReadCompressed, AllocatePreferred, AllocateAny, Decompress
<1>5. CASE wboot_load_initramfs
  BY <1>5 DEF wboot_load_initramfs, InitramfsBuffer, InitramfsInfoSize, MallocFileInfo,
              InitramfsInfo, AllocateInitramfs, ReadInitramfs, Reads, ReadFails
<1>6. CASE Exit \/ UNCHANGED vars
  BY <1>6 DEF Exit, vars, loadVars
<1> QED
  BY <1>1, <1>2, <1>3, <1>4, <1>5, <1>6 DEF Next, MainStep

(* The search.  A volume that is passed over has failed, or has not the     *)
(* file that was looked for on it.                                          *)
LEMMA PassOver ==
  ASSUME SearchInv, PathInv, NEW from \in Searching, NEW failed \in SUBSET {i},
         NextVolume(from, failed), i \in failed \/ volumes[i] # Files
  PROVE  SearchInv'
<1> USE DEF SearchInv, Searching, NextVolume, Continue
<1>1. SearchTypeOK'
  BY DEF SearchTypeOK
<1>2. \A n \in 1..(i' - 1) : ~Usable(n)'
  <2> SUFFICES ASSUME NEW n \in 1..(i' - 1) PROVE ~Usable(n)'
    OBVIOUS
  <2>1. CASE n \in 1..(i - 1)
    BY <2>1 DEF PassedInv, Usable
  <2>2. CASE n = i
    BY <2>2 DEF Usable
  <2> QED
    BY <2>1, <2>2 DEF SearchTypeOK
<1>3. PassedInv'
  BY <1>2 DEF PassedInv
<1>4. CurrentInv'
  <2>1. i \in Nat \ {0} /\ faulty \subseteq 1..(i - 1) /\ pc' = "volume"
    BY DEF CurrentInv, SearchTypeOK
  <2>2. faulty' = faulty \cup failed /\ i' = i + 1
    OBVIOUS
  <2>3. faulty' \subseteq 1..(i' - 1)
    BY <2>1, <2>2
  <2> QED
    BY <2>1, <2>3 DEF CurrentInv
<1>5. FilesTogether'
  BY DEF FilesTogether, Located
<1> QED
  BY <1>1, <1>3, <1>4, <1>5

LEMMA NextSearch == PathInv /\ SearchInv /\ [Next]_vars => SearchInv'
<1> SUFFICES ASSUME PathInv, SearchInv, [Next]_vars PROVE SearchInv'
  OBVIOUS
<1>1. CASE LocateHandle \/ NoMoreVolumes
  BY <1>1 DEF LocateHandle, NoMoreVolumes, Continue, GiveUp, searchVars, SearchInv,
     SearchTypeOK, PassedInv, CurrentInv, FilesTogether, Located, Usable, Searching
<1>2. CASE OpenVolume
  <2>1. CASE NextVolume("volume", {i})
    BY <2>1, PassOver DEF Searching
  <2>2. CASE ~NextVolume("volume", {i})
    BY <1>2, <2>2 DEF OpenVolume, Continue, SearchInv, SearchTypeOK, PassedInv, CurrentInv,
       FilesTogether, Located, Usable, Searching
  <2> QED
    BY <2>1, <2>2
<1>3. ASSUME NEW from \in {"open_kernel", "open_initramfs"}, NEW name \in Files,
             NotOpened(from, name)
      PROVE  SearchInv'
  <2>1. CASE NextVolume(from, {i})
    BY <2>1, PassOver DEF Searching
  <2>2. CASE NextVolume(from, {}) /\ name \notin volumes[i]
    BY <2>2, PassOver DEF Searching
  <2> QED
    BY <1>3, <2>1, <2>2 DEF NotOpened
<1>4. CASE OpenKernel /\ ~NotOpened("open_kernel", "vmlinuz-linux")
  BY <1>4 DEF OpenKernel, Opens, Continue, SearchInv, SearchTypeOK, PassedInv, CurrentInv,
     FilesTogether, Located, Usable, Searching
<1>5. CASE OpenInitramfs /\ ~NotOpened("open_initramfs", "initramfs-linux.img")
  <2>1. /\ pc = "open_initramfs" /\ pc' = "malloc_main_info" /\ in' = "none"
        /\ UNCHANGED <<volumes, i, faulty, kernel_file>> /\ initramfs_file' = i
        /\ opened' = opened \cup {<<i, "initramfs-linux.img">>}
        /\ "initramfs-linux.img" \in volumes[i]
    BY <1>5 DEF OpenInitramfs, Opens, Continue, PathInv, Leaving
  <2>2. /\ i \in 1..Len(volumes) /\ kernel_file = i /\ faulty \subseteq 1..(i - 1)
        /\ "vmlinuz-linux" \in volumes[i] /\ <<i, "vmlinuz-linux">> \in opened
    BY <2>1 DEF SearchInv, CurrentInv, Searching
  <2>3. volumes[i] = Files /\ i \notin faulty
    BY <2>1, <2>2 DEF SearchInv, SearchTypeOK, Files
  <2>4. \A n \in 1..(i - 1) : ~Usable(n)
    BY <2>1 DEF SearchInv, PassedInv, Searching
  <2>5. FilesTogether'
    BY <2>1, <2>2, <2>3, <2>4 DEF FilesTogether, Usable, Files
  <2> QED
    BY <2>1, <2>5 DEF SearchInv, SearchTypeOK, PassedInv, CurrentInv, Searching
<1>6. CASE MainStep /\ UNCHANGED searchVars
  <2>1. pc \notin Searching /\ pc' \notin Searching
    BY <1>6 DEF MainStep, MallocMainInfo, GetKernelInfo, GetInitramfsInfo,
       wboot_read_setup_header, ReadSetupHeader, FreeMainInfo, DecompressKernel,
       wboot_decompress_kernel, CreateDCtx, MallocCompressed, ReadCompressed,
       AllocatePreferred, AllocateAny, Decompress, wboot_load_initramfs, InitramfsBuffer,
       InitramfsInfoSize, MallocFileInfo, InitramfsInfo, AllocateInitramfs, ReadInitramfs,
       Reads, ReadFails, Exit, Continue, GiveUp, Check, Acquire, Searching
  <2>2. in' = "locate_kernel" <=> in = "locate_kernel"
    BY <1>6 DEF MainStep, MallocMainInfo, GetKernelInfo, GetInitramfsInfo,
       wboot_read_setup_header, ReadSetupHeader, FreeMainInfo, DecompressKernel,
       wboot_decompress_kernel, CreateDCtx, MallocCompressed, ReadCompressed,
       AllocatePreferred, AllocateAny, Decompress, wboot_load_initramfs, InitramfsBuffer,
       InitramfsInfoSize, MallocFileInfo, InitramfsInfo, AllocateInitramfs, ReadInitramfs,
       Reads, ReadFails, Exit, Continue, GiveUp, Check, Acquire, PathInv, Leaving
  <2> QED
    BY <1>6, <2>1, <2>2 DEF searchVars, SearchInv, SearchTypeOK, PassedInv, CurrentInv,
       FilesTogether, Located, Usable, Searching
<1>7. CASE UNCHANGED vars
  BY <1>7 DEF vars, loadVars, searchVars, SearchInv, SearchTypeOK, PassedInv, CurrentInv,
     FilesTogether, Located, Usable, Searching
<1> QED
  BY <1>1, <1>2, <1>3, <1>4, <1>5, <1>6, <1>7
     DEF Next, LocateKernel, OpenKernel, OpenInitramfs, Files

LEMMA NextIInv == IInv /\ [Next]_vars => IInv'
BY NextPath, NextOwn, NextHeld, NextSearch DEF IInv

LEMMA Inductive == Spec => []IInv
BY InitIInv, NextIInv, PTL DEF Spec

-----------------------------------------------------------------------------
(* The two files phase 2 loads are of one volume, the first from which both *)
(* could be opened, for any number of volumes.                              *)
THEOREM SameVolume == Spec => []FilesTogether
BY Inductive, PTL DEF IInv, SearchInv

(* A success of efi_main has both files in memory, or is the one failure    *)
(* that it does not report.                                                 *)
THEOREM SuccessLoaded == Spec => []SuccessMeansLoaded
<1>1. IInv => SuccessMeansLoaded
  BY DEF IInv, PathInv, OwnInv, HeldInv, Succeeding, SuccessMeansLoaded, Leaving,
         WithInfo, Compressed
<1> QED
  BY <1>1, Inductive, PTL

(* The functions shared with phase 3 release their own memory when phase 2  *)
(* calls them, too.                                                         *)
THEOREM SharedStagesFree == Spec => []StagesFreeTheirOwn
<1>1. IInv => StagesFreeTheirOwn
  BY DEF IInv, PathInv, OwnInv, StagesFreeTheirOwn, Points, Searching, WithInfo,
         Compressed, WithKernel, Leaving
<1> QED
  BY <1>1, Inductive, PTL
==============================================================================
