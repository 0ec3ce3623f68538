-------------------------- MODULE KernelImageProofs --------------------------
(***************************************************************************)
(* Proofs about KernelImage, for every machine, every kernel file and      *)
(* every choice the firmware's allocator makes.                            *)
(***************************************************************************)
EXTENDS KernelImage, TLAPS

-----------------------------------------------------------------------------
(* The inductive invariant.                                                 *)

Kinds == {"used", "free", "elf", "initrd", "params", "zero", "junk"}
Contents == [what : Kinds, frame : Int]
TypeOK ==
  /\ pc \in {"allocate_preferred", "allocate_any", "decompress", "load_initramfs",
             "prepare_bootparams", "get_kernel_entry", "kernel", "failed"}
  /\ mem \in [Frames -> Contents]
  /\ base \in Nat /\ initrd \in Nat /\ params \in Nat
  /\ i \in 1..(Len(Segments) + 1)
  /\ pc \notin {"get_kernel_entry", "kernel"} => i = 1

(* The three allocations lie in the machine's memory, apart.                *)
BaseInv ==
  pc \in {"decompress", "load_initramfs", "prepare_bootparams", "get_kernel_entry"} =>
    Span(base, InitSize) \subseteq Frames \cap used
InitrdInv ==
  pc \in {"prepare_bootparams", "get_kernel_entry"} =>
    /\ Span(initrd, InitrdSize) \subseteq Frames \cap used
    /\ Span(initrd, InitrdSize) \cap Span(base, InitSize) = {}
ParamsInv ==
  pc = "get_kernel_entry" =>
    params \in Frames \ (Span(base, InitSize) \cup Span(initrd, InitrdSize))

(* The decompressed file is whole until a segment is moved onto it.         *)
Clear == Span(base, FileSize) \cap Window = {}
FileInv ==
  pc \in {"load_initramfs", "prepare_bootparams"} \/ (pc = "get_kernel_entry" /\ Clear) =>
    \A k \in 0..(FileSize - 1) : mem[base + k] = Elf(k)

(* What is moved into a window that was reserved hits nothing else.         *)
OthersInv ==
  /\ pc = "prepare_bootparams" => InitrdIntact
  /\ PreferredSparesOthers

(* From a file clear of the window the segments before i are in place, if   *)
(* the machine has memory there.                                            *)
SegmentsInv ==
  Window \subseteq Frames =>
    /\ pc = "get_kernel_entry" /\ Clear =>
         \A s \in 1..(i - 1) : SegmentLoaded(Segments[s])
    /\ LoadedFromElsewhere

AllocInv == BaseInv /\ InitrdInv /\ ParamsInv
IInv == TypeOK /\ AllocInv /\ FileInv /\ OthersInv /\ SegmentsInv

-----------------------------------------------------------------------------
LEMMA ContentTypes ==
  /\ \A k \in Int : Elf(k) \in Contents /\ Initrd(k) \in Contents
  /\ \A w \in Kinds : Content(w) \in Contents
BY DEF Elf, Initrd, Content, Contents, Kinds

LEMMA Sizes ==
  /\ Frames \subseteq Nat /\ PrefAddress \in Nat /\ InitrdSize \in Nat
  /\ InitSize \in Nat /\ FileSize \in Nat /\ 1 <= FileSize /\ FileSize <= InitSize
  /\ Len(Segments) \in Nat
BY ImageAssumption

(* A segment comes from the file and goes into the window.                  *)
LEMMA SegmentFacts ==
  ASSUME NEW s \in 1..Len(Segments)
  PROVE  /\ Segments[s].paddr \in Nat /\ Segments[s].offset \in Nat
         /\ Segments[s].filesz \in Nat /\ Segments[s].memsz \in Nat
         /\ Segments[s].filesz <= Segments[s].memsz
         /\ Segments[s].offset + Segments[s].filesz <= FileSize
         /\ PrefAddress <= Segments[s].paddr
         /\ Segments[s].paddr + Segments[s].memsz <= PrefAddress + InitSize
<1> DEFINE Headers == [paddr : Nat, offset : Nat, filesz : Nat, memsz : Nat]
<1>1. Segments[s] \in Headers
  <2>1. Segments \in Seq(Headers)
    BY ImageAssumption
  <2> HIDE DEF Headers
  <2> QED
    BY <2>1
<1> QED
  BY <1>1, ImageAssumption, LayoutAssumption

LEMMA SpanWithin ==
  ASSUME NEW a \in Nat, NEW n \in Nat, NEW b \in Nat, NEW m \in Nat, b <= a, a + n <= b + m
  PROVE  Span(a, n) \subseteq Span(b, m)
BY DEF Span

LEMMA FilePart ==
  ASSUME NEW s \in 1..Len(Segments)
  PROVE  Span(Segments[s].paddr, Segments[s].filesz)
           \subseteq Span(Segments[s].paddr, Segments[s].memsz)
<1> DEFINE p == Segments[s].paddr
           n == Segments[s].filesz
           m == Segments[s].memsz
<1>1. p \in Nat /\ n \in Nat /\ m \in Nat /\ n <= m
  BY SegmentFacts
<1> HIDE DEF p, n, m
<1>2. p <= p /\ p + n <= p + m
  BY <1>1
<1>3. Span(p, n) \subseteq Span(p, m)
  BY <1>1, <1>2, SpanWithin
<1> QED
  BY <1>3 DEF p, n, m

LEMMA SegmentInWindow ==
  ASSUME NEW s \in 1..Len(Segments)
  PROVE  Span(Segments[s].paddr, Segments[s].memsz) \subseteq Window
<1> DEFINE p == Segments[s].paddr
           m == Segments[s].memsz
<1>1. p \in Nat /\ m \in Nat /\ PrefAddress <= p /\ p + m <= PrefAddress + InitSize
  BY SegmentFacts
<1> HIDE DEF p, m
<1>2. Span(p, m) \subseteq Span(PrefAddress, InitSize)
  BY <1>1, Sizes, SpanWithin
<1> QED
  BY <1>2 DEF Window, p, m

LEMMA SegmentsApart ==
  ASSUME NEW s \in 1..Len(Segments), NEW t \in 1..(s - 1)
  PROVE  Span(Segments[s].paddr, Segments[s].memsz)
           \cap Span(Segments[t].paddr, Segments[t].memsz) = {}
<1>1. t \in 1..Len(Segments) /\ s \in (t + 1)..Len(Segments)
  BY Sizes
<1>2. Segments[t].paddr + Segments[t].memsz <= Segments[s].paddr
  BY <1>1, LayoutAssumption
<1> QED
  BY <1>1, <1>2, SegmentFacts DEF Span

(* Moving a segment writes its own frames, inside the window, and no other. *)
LEMMA MovedElsewhere ==
  ASSUME NEW s \in 1..Len(Segments), NEW f,
         f \notin Span(Segments[s].paddr, Segments[s].memsz)
  PROVE  Moved(Segments[s], f) = mem[f]
<1>1. f \notin Span(Segments[s].paddr, Segments[s].filesz)
  BY FilePart
<1> QED
  BY <1>1 DEF Moved

LEMMA MovedFile ==
  ASSUME NEW s \in 1..Len(Segments), NEW f \in Span(Segments[s].paddr, Segments[s].filesz)
  PROVE  Moved(Segments[s], f) = mem[base + Segments[s].offset + (f - Segments[s].paddr)]
BY DEF Moved

LEMMA MovedTail ==
  ASSUME NEW s \in 1..Len(Segments),
         NEW f \in Span(Segments[s].paddr, Segments[s].memsz)
                     \ Span(Segments[s].paddr, Segments[s].filesz)
  PROVE  Moved(Segments[s], f) = Content("zero")
BY DEF Moved

(* The frames of the file are those of its allocation.                      *)
LEMMA FileFrames ==
  ASSUME TypeOK, BaseInv, pc \in {"load_initramfs", "prepare_bootparams", "get_kernel_entry"},
         NEW k \in 0..(FileSize - 1)
  PROVE  base + k \in Frames \cap used /\ base + k \in Span(base, InitSize)
                                       /\ base + k \in Span(base, FileSize)
BY Sizes DEF TypeOK, BaseInv, Span

(* What is moved is read from the file.                                     *)
LEMMA SourceOffset ==
  ASSUME NEW s \in 1..Len(Segments), NEW f \in Span(Segments[s].paddr, Segments[s].filesz)
  PROVE  Segments[s].offset + (f - Segments[s].paddr) \in 0..(FileSize - 1)
<1> DEFINE p == Segments[s].paddr
           o == Segments[s].offset
           z == Segments[s].filesz
<1>1. p \in Nat /\ o \in Nat /\ z \in Nat /\ o + z <= FileSize
  BY SegmentFacts
<1>2. f \in p..(p + z - 1)
  BY DEF Span
<1> HIDE DEF p, o, z
<1>3. o + (f - p) \in 0..(FileSize - 1)
  BY <1>1, <1>2, Sizes
<1> QED
  BY <1>3 DEF p, o

LEMMA SourceFrame ==
  ASSUME TypeOK, BaseInv, pc = "get_kernel_entry",
         NEW s \in 1..Len(Segments), NEW f \in Span(Segments[s].paddr, Segments[s].filesz)
  PROVE  base + Segments[s].offset + (f - Segments[s].paddr) \in Frames
<1> DEFINE k == Segments[s].offset + (f - Segments[s].paddr)
<1>1. k \in 0..(FileSize - 1)
  BY SourceOffset
<1>2. base + k \in Frames
  BY <1>1, FileFrames
<1>3. base + Segments[s].offset + (f - Segments[s].paddr) = base + k
  <2>1. f \in Int
    BY SegmentFacts DEF Span
  <2> QED
    BY <2>1, SegmentFacts DEF TypeOK
<1> QED
  BY <1>2, <1>3

LEMMA MovedType ==
  ASSUME TypeOK, BaseInv, pc = "get_kernel_entry",
         NEW s \in 1..Len(Segments), NEW f \in Frames
  PROVE  Moved(Segments[s], f) \in Contents
<1>1. CASE f \in Span(Segments[s].paddr, Segments[s].filesz)
  <2>1. base + Segments[s].offset + (f - Segments[s].paddr) \in Frames
    BY <1>1, SourceFrame
  <2> QED
    BY <1>1, <2>1, MovedFile DEF TypeOK
<1>2. CASE f \in Span(Segments[s].paddr, Segments[s].memsz)
                   \ Span(Segments[s].paddr, Segments[s].filesz)
  BY <1>2, MovedTail, ContentTypes DEF Kinds
<1>3. CASE f \notin Span(Segments[s].paddr, Segments[s].memsz)
  BY <1>3, MovedElsewhere DEF TypeOK
<1> QED
  BY <1>1, <1>2, <1>3

-----------------------------------------------------------------------------
LEMMA InitIInv == Init => IInv
<1> SUFFICES ASSUME Init PROVE IInv
  OBVIOUS
<1>1. TypeOK
  BY Sizes, ContentTypes DEF Init, TypeOK, Kinds
<1>2. AllocInv /\ FileInv /\ OthersInv /\ SegmentsInv
  BY DEF Init, AllocInv, BaseInv, InitrdInv, ParamsInv, FileInv, OthersInv,
         PreferredSparesOthers, SegmentsInv, LoadedFromElsewhere
<1> QED
  BY <1>1, <1>2 DEF IInv

LEMMA NextTypeOK == TypeOK /\ BaseInv /\ [Next]_vars => TypeOK'
<1> SUFFICES ASSUME TypeOK, BaseInv, [Next]_vars PROVE TypeOK'
  OBVIOUS
<1>0. Frames \subseteq Nat /\ PrefAddress \in Nat /\ Len(Segments) \in Nat
  BY Sizes
<1>1. CASE AllocatePreferred \/ AllocateAny
  BY <1>0, <1>1 DEF AllocatePreferred, AllocateAny, Fail, TypeOK
<1>2. CASE Decompress
  <2>1. \A f \in Frames : Elf(f - base) \in Contents
    BY <1>0, ContentTypes DEF TypeOK
  <2> QED
    BY <1>2, <2>1 DEF Decompress, TypeOK
<1>3. CASE LoadInitramfs
  <2>1. CASE Fail
    BY <1>3, <2>1 DEF LoadInitramfs, Fail, TypeOK
  <2>2. ASSUME NEW a \in InitrdChoices, initrd' = a,
               pc = "load_initramfs", pc' = "prepare_bootparams",
               UNCHANGED <<base, params, i>>,
               mem' = [f \in Frames |->
                         IF f \in Span(a, InitrdSize) THEN Initrd(f - a) ELSE mem[f]]
        PROVE  TypeOK'
    <3>1. a \in Nat
      BY <1>0 DEF InitrdChoices, LowChoices
    <3>2. \A f \in Frames : Initrd(f - a) \in Contents
      BY <1>0, <3>1, ContentTypes
    <3> QED
      BY <2>2, <3>1, <3>2 DEF TypeOK
  <2> QED
    BY <1>3, <2>1, <2>2 DEF LoadInitramfs
<1>4. CASE PrepareBootparams
  BY <1>0, <1>4, ContentTypes DEF PrepareBootparams, Fail, TypeOK, Kinds
<1>5. CASE CopySegment
  <2>1. i \in 1..Len(Segments) /\ i' \in 1..(Len(Segments) + 1)
    BY <1>0, <1>5 DEF CopySegment, TypeOK
  <2>2. \A f \in Frames : Moved(Segments[i], f) \in Contents
    BY <1>5, <2>1, MovedType DEF CopySegment
  <2> QED
    BY <1>5, <2>1, <2>2 DEF CopySegment, TypeOK
<1>6. CASE ReturnEntry
  BY <1>6 DEF ReturnEntry, TypeOK
<1>7. CASE ReturnGarbage
  BY <1>7, ContentTypes DEF ReturnGarbage, TypeOK, Kinds
<1>8. CASE UNCHANGED vars
  BY <1>8 DEF vars, TypeOK
<1> QED
  BY <1>1, <1>2, <1>3, <1>4, <1>5, <1>6, <1>7, <1>8 DEF Next

(* An allocation takes free frames, so that it is apart from those before.  *)
LEMMA NextAlloc == TypeOK /\ AllocInv /\ [Next]_vars => AllocInv'
<1> SUFFICES ASSUME TypeOK, AllocInv, [Next]_vars PROVE AllocInv'
  OBVIOUS
<1> USE DEF AllocInv, BaseInv, InitrdInv, ParamsInv
<1>1. CASE AllocatePreferred
  BY <1>1 DEF AllocatePreferred, IsFree, Window
<1>2. CASE AllocateAny
  BY <1>2 DEF AllocateAny, Fail, IsFree
<1>3. CASE Decompress
  BY <1>3 DEF Decompress
<1>4. CASE LoadInitramfs
  <2>1. CASE Fail
    BY <2>1 DEF Fail
  <2>2. ASSUME NEW a \in InitrdChoices, initrd' = a, pc = "load_initramfs",
               pc' = "prepare_bootparams", base' = base,
               used' = used \cup Span(a, InitrdSize)
        PROVE  AllocInv'
    <3>1. Span(a, InitrdSize) \subseteq Frames /\ Span(a, InitrdSize) \cap used = {}
      BY DEF InitrdChoices, LowChoices, IsFree
    <3> QED
      BY <2>2, <3>1
  <2> QED
    BY <1>4, <2>1, <2>2 DEF LoadInitramfs
<1>5. CASE PrepareBootparams
  BY <1>5 DEF PrepareBootparams, Fail
<1>6. CASE CopySegment \/ ReturnEntry \/ ReturnGarbage \/ UNCHANGED vars
  BY <1>6 DEF CopySegment, ReturnEntry, ReturnGarbage, vars
<1> QED
  BY <1>1, <1>2, <1>3, <1>4, <1>5, <1>6 DEF Next

(* Nothing but the segments is written to the frames of the file.           *)
LEMMA NextFile == IInv /\ [Next]_vars => FileInv'
<1> SUFFICES ASSUME IInv, [Next]_vars PROVE FileInv'
  OBVIOUS
<1>0. TypeOK /\ BaseInv /\ FileInv /\ AllocInv
  BY DEF IInv, AllocInv
<1>1. CASE Decompress
  <2> SUFFICES ASSUME NEW k \in 0..(FileSize - 1) PROVE mem'[base' + k] = Elf(k)
    BY DEF FileInv
  <2>1. base \in Nat /\ k \in Nat /\ base + k \in Span(base, FileSize) /\ (base + k) - base = k
    BY <1>0, Sizes DEF TypeOK, Span
  <2>2. base + k \in Frames
    BY <1>0, <1>1, <2>1, Sizes DEF Decompress, BaseInv, Span
  <2> QED
    BY <1>1, <2>1, <2>2 DEF Decompress
<1>2. CASE LoadInitramfs
  <2>1. CASE Fail
    BY <2>1 DEF Fail, FileInv
  <2>2. ASSUME NEW a \in InitrdChoices, pc = "load_initramfs",
               pc' = "prepare_bootparams", base' = base,
               mem' = [f \in Frames |->
                         IF f \in Span(a, InitrdSize) THEN Initrd(f - a) ELSE mem[f]]
        PROVE  FileInv'
    <3> SUFFICES ASSUME NEW k \in 0..(FileSize - 1) PROVE mem'[base + k] = Elf(k)
      BY <2>2 DEF FileInv
    <3>1. Span(a, InitrdSize) \cap used = {}
      BY DEF InitrdChoices, LowChoices, IsFree
    <3>2. base + k \in Frames /\ base + k \notin Span(a, InitrdSize)
      BY <1>0, <2>2, <3>1, FileFrames
    <3> QED
      BY <1>0, <2>2, <3>2 DEF FileInv
  <2> QED
    BY <1>2, <2>1, <2>2 DEF LoadInitramfs
<1>3. CASE PrepareBootparams
  <2>1. CASE Fail
    BY <2>1 DEF Fail, FileInv
  <2>2. ASSUME NEW f \in Frames \ used, pc = "prepare_bootparams", base' = base,
               mem' = [mem EXCEPT ![f] = Content("params")]
        PROVE  FileInv'
    <3> SUFFICES ASSUME NEW k \in 0..(FileSize - 1) PROVE mem'[base + k] = Elf(k)
      BY <2>2 DEF FileInv
    <3>1. base + k \in Frames /\ base + k # f
      BY <1>0, <2>2, FileFrames
    <3> QED
      BY <1>0, <2>2, <3>1 DEF FileInv, TypeOK
  <2> QED
    BY <1>3, <2>1, <2>2 DEF PrepareBootparams
<1>4. CASE CopySegment
  <2> SUFFICES ASSUME Clear, NEW k \in 0..(FileSize - 1) PROVE mem'[base + k] = Elf(k)
    BY <1>4 DEF CopySegment, FileInv, Clear
  <2>1. i \in 1..Len(Segments) /\ pc = "get_kernel_entry"
    BY <1>0, <1>4, Sizes DEF CopySegment, TypeOK
  <2>2. base + k \in Frames /\ base + k \in Span(base, FileSize)
    BY <1>0, <2>1, FileFrames
  <2>3. base + k \notin Span(Segments[i].paddr, Segments[i].memsz)
    BY <2>1, <2>2, SegmentInWindow DEF Clear
  <2> QED
    BY <1>0, <1>4, <2>1, <2>2, <2>3, MovedElsewhere DEF CopySegment, FileInv
<1>5. CASE AllocatePreferred \/ AllocateAny \/ ReturnEntry \/ ReturnGarbage \/ UNCHANGED vars
  BY <1>0, <1>5 DEF AllocatePreferred, AllocateAny, Fail, ReturnEntry, ReturnGarbage, vars,
                    FileInv, Clear
<1> QED
  BY <1>1, <1>2, <1>3, <1>4, <1>5 DEF Next

(* In a window that was reserved the segments hit neither the initramfs nor *)
(* the boot parameters.                                                     *)
LEMMA NextOthers == IInv /\ [Next]_vars => OthersInv'
<1> SUFFICES ASSUME IInv, [Next]_vars PROVE OthersInv'
  OBVIOUS
<1>0. TypeOK /\ AllocInv /\ OthersInv
  BY DEF IInv
<1>1. CASE LoadInitramfs
  <2>1. CASE Fail
    BY <2>1 DEF Fail, OthersInv, PreferredSparesOthers
  <2>2. ASSUME NEW a \in InitrdChoices, pc' = "prepare_bootparams", initrd' = a,
               mem' = [f \in Frames |->
                         IF f \in Span(a, InitrdSize) THEN Initrd(f - a) ELSE mem[f]]
        PROVE  OthersInv'
    <3> SUFFICES ASSUME NEW k \in 0..(InitrdSize - 1) PROVE mem'[a + k] = Initrd(k)
      BY <2>2 DEF OthersInv, InitrdIntact, PreferredSparesOthers
    <3>1. a \in Nat /\ Span(a, InitrdSize) \subseteq Frames
      BY Sizes DEF InitrdChoices, LowChoices, IsFree
    <3>2. a + k \in Span(a, InitrdSize) /\ (a + k) - a = k
      BY <3>1, Sizes DEF Span
    <3> QED
      BY <2>2, <3>1, <3>2
  <2> QED
    BY <1>1, <2>1, <2>2 DEF LoadInitramfs
<1>2. CASE PrepareBootparams
  <2>1. CASE Fail
    BY <2>1 DEF Fail, OthersInv, PreferredSparesOthers
  <2>2. ASSUME NEW f \in Frames \ used, pc = "prepare_bootparams",
               pc' = "get_kernel_entry", initrd' = initrd, params' = f,
               mem' = [mem EXCEPT ![f] = Content("params")]
        PROVE  OthersInv'
    <3>1. ASSUME NEW k \in 0..(InitrdSize - 1) PROVE mem'[initrd + k] = Initrd(k)
      <4>1. initrd + k \in Span(initrd, InitrdSize)
        BY <1>0, Sizes DEF TypeOK, Span
      <4>2. initrd + k \in Frames \cap used
        BY <1>0, <2>2, <4>1 DEF AllocInv, InitrdInv
      <4> QED
        BY <1>0, <2>2, <4>2 DEF OthersInv, InitrdIntact, TypeOK
    <3>2. mem'[f] = Content("params")
      BY <1>0, <2>2 DEF TypeOK
    <3> QED
      BY <2>2, <3>1, <3>2 DEF OthersInv, InitrdIntact, ParamsIntact, PreferredSparesOthers
  <2> QED
    BY <1>2, <2>1, <2>2 DEF PrepareBootparams
<1>3. CASE CopySegment
  <2> SUFFICES ASSUME base = PrefAddress PROVE (InitrdIntact /\ ParamsIntact)'
    BY <1>3 DEF CopySegment, OthersInv, PreferredSparesOthers
  <2>1. i \in 1..Len(Segments) /\ pc = "get_kernel_entry"
    BY <1>0, <1>3, Sizes DEF CopySegment, TypeOK
  <2>2. /\ mem' = [f \in Frames |-> Moved(Segments[i], f)]
        /\ UNCHANGED <<initrd, params>>
    BY <1>3 DEF CopySegment
  <2>3. ASSUME NEW f \in Frames, f \notin Span(base, InitSize) PROVE mem'[f] = mem[f]
    <3>1. f \notin Span(Segments[i].paddr, Segments[i].memsz)
      BY <2>1, <2>3, SegmentInWindow DEF Window
    <3> QED
      BY <2>1, <2>2, <3>1, MovedElsewhere
  <2>4. mem'[params] = mem[params]
    BY <1>0, <2>1, <2>3 DEF AllocInv, ParamsInv
  <2>5. ASSUME NEW k \in 0..(InitrdSize - 1) PROVE mem'[initrd + k] = mem[initrd + k]
    <3>1. initrd + k \in Span(initrd, InitrdSize)
      BY <1>0, Sizes DEF TypeOK, Span
    <3>2. initrd + k \in Frames /\ initrd + k \notin Span(base, InitSize)
      BY <1>0, <2>1, <3>1 DEF AllocInv, InitrdInv
    <3> QED
      BY <2>3, <3>2
  <2> QED
    BY <1>0, <2>1, <2>2, <2>4, <2>5
       DEF OthersInv, PreferredSparesOthers, InitrdIntact, ParamsIntact
<1>4. CASE AllocatePreferred \/ AllocateAny \/ Decompress \/ ReturnEntry \/ ReturnGarbage
  BY <1>4 DEF AllocatePreferred, AllocateAny, Fail, Decompress, ReturnEntry, ReturnGarbage,
              OthersInv, PreferredSparesOthers
<1>5. CASE UNCHANGED vars
  BY <1>0, <1>5 DEF vars, OthersInv, PreferredSparesOthers, InitrdIntact, ParamsIntact
<1> QED
  BY <1>1, <1>2, <1>3, <1>4, <1>5 DEF Next

(* A segment moved from a file that is whole is in place ...                *)
LEMMA CopiedSegment ==
  ASSUME IInv, CopySegment, Clear, Window \subseteq Frames, NEW s \in {i}
  PROVE  SegmentLoaded(Segments[s])'
<1> DEFINE sg == Segments[s]
<1>1. s \in 1..Len(Segments) /\ pc = "get_kernel_entry" /\ TypeOK /\ FileInv
  BY Sizes DEF IInv, CopySegment, TypeOK
<1>2. mem' = [f \in Frames |-> Moved(sg, f)]
  BY DEF CopySegment
<1>3. Span(sg.paddr, sg.memsz) \subseteq Frames
  BY <1>1, SegmentInWindow
<1>4. ASSUME NEW f \in Span(sg.paddr, sg.filesz)
      PROVE  mem'[f] = Elf(sg.offset + (f - sg.paddr))
  <2>1. f \in Frames
    BY <1>1, <1>3, SegmentFacts DEF Span
  <2>2. sg.offset + (f - sg.paddr) \in 0..(FileSize - 1)
    BY <1>1, SourceOffset
  <2>3. mem[base + (sg.offset + (f - sg.paddr))] = Elf(sg.offset + (f - sg.paddr))
    BY <1>1, <2>2 DEF FileInv
  <2>4. base + sg.offset + (f - sg.paddr) = base + (sg.offset + (f - sg.paddr))
    <3>1. f \in Int
      BY <1>1, SegmentFacts DEF Span
    <3> QED
      BY <1>1, <3>1, SegmentFacts DEF TypeOK
  <2>5. mem'[f] = mem[base + sg.offset + (f - sg.paddr)]
    BY <1>1, <1>2, <2>1, MovedFile
  <2> QED
    BY <2>3, <2>4, <2>5
<1>5. ASSUME NEW f \in Span(sg.paddr, sg.memsz) \ Span(sg.paddr, sg.filesz)
      PROVE  mem'[f] = Content("zero")
  BY <1>1, <1>2, <1>3, <1>5, MovedTail
<1>6. SegmentLoaded(sg)' <=>
        /\ \A f \in Span(sg.paddr, sg.filesz) : mem'[f] = Elf(sg.offset + (f - sg.paddr))
        /\ \A f \in Span(sg.paddr, sg.memsz) \ Span(sg.paddr, sg.filesz) :
             mem'[f] = Content("zero")
  BY DEF SegmentLoaded
<1> QED
  BY <1>4, <1>5, <1>6

(* ... and stays so while the next ones are moved.                          *)
LEMMA KeptSegment ==
  ASSUME IInv, CopySegment, Window \subseteq Frames,
         NEW s \in 1..(i - 1), SegmentLoaded(Segments[s])
  PROVE  SegmentLoaded(Segments[s])'
<1>1. i \in 1..Len(Segments) /\ s \in 1..Len(Segments)
  BY Sizes DEF IInv, CopySegment, TypeOK
<1>2. ASSUME NEW f \in Span(Segments[s].paddr, Segments[s].memsz) PROVE mem'[f] = mem[f]
  <2>1. f \in Frames /\ f \notin Span(Segments[i].paddr, Segments[i].memsz)
    BY <1>1, SegmentInWindow, SegmentsApart
  <2> QED
    BY <1>1, <2>1, MovedElsewhere DEF CopySegment
<1>3. Span(Segments[s].paddr, Segments[s].filesz)
        \subseteq Span(Segments[s].paddr, Segments[s].memsz)
  BY <1>1, FilePart
<1> QED
  BY <1>2, <1>3 DEF SegmentLoaded

LEMMA NextSegments == IInv /\ [Next]_vars => SegmentsInv'
<1> SUFFICES ASSUME IInv, [Next]_vars, Window \subseteq Frames
             PROVE  /\ pc' = "get_kernel_entry" /\ Clear' =>
                         \A s \in 1..(i' - 1) : SegmentLoaded(Segments[s])'
                    /\ LoadedFromElsewhere'
  BY DEF SegmentsInv
<1>0. TypeOK /\ BaseInv /\ FileInv /\ SegmentsInv
  BY DEF IInv, AllocInv
<1>1. CASE CopySegment
  <2>1. pc = "get_kernel_entry" /\ pc' = pc /\ base' = base /\ i' = i + 1 /\ i \in Nat
    BY <1>0, <1>1 DEF CopySegment, TypeOK
  <2>2. ASSUME Clear, NEW s \in 1..(i' - 1) PROVE SegmentLoaded(Segments[s])'
    <3>1. CASE s = i
      BY <1>1, <2>2, <3>1, CopiedSegment DEF CopySegment
    <3>2. CASE s \in 1..(i - 1)
      BY <1>0, <1>1, <2>1, <2>2, <3>2, KeptSegment DEF SegmentsInv
    <3> QED
      BY <2>1, <3>1, <3>2
  <2> QED
    BY <2>1, <2>2 DEF Clear, LoadedFromElsewhere
<1>2. CASE ReturnEntry
  <2>1. pc = "get_kernel_entry" /\ i > Len(Segments) /\ pc' = "kernel" /\ entry' = "e_entry"
        /\ UNCHANGED <<base, mem>>
    BY <1>2 DEF ReturnEntry
  <2>2. ASSUME Clear, NEW s \in 1..Len(Segments) PROVE SegmentLoaded(Segments[s])'
    <3>1. s \in 1..(i - 1)
      BY <1>0, <2>1, Sizes DEF TypeOK
    <3>2. SegmentLoaded(Segments[s])
      BY <1>0, <2>1, <2>2, <3>1 DEF SegmentsInv
    <3> QED
      BY <2>1, <3>2 DEF SegmentLoaded
  <2> QED
    BY <2>1, <2>2 DEF Clear, LoadedFromElsewhere, KernelLoaded
<1>3. CASE ReturnGarbage
  <2>1. pc = "get_kernel_entry" /\ pc' = "kernel" /\ base' = base /\ mem[base] # Elf(0)
    BY <1>3 DEF ReturnGarbage, HeadersIntact
  <2>2. ~Clear
    <3>1. Clear => mem[base + 0] = Elf(0)
      BY <1>0, <2>1, Sizes DEF FileInv
    <3>2. base + 0 = base
      BY <1>0 DEF TypeOK
    <3> QED
      BY <2>1, <3>1, <3>2
  <2> QED
    BY <2>1, <2>2 DEF Clear, LoadedFromElsewhere
<1>4. CASE PrepareBootparams
  <2>1. pc' = "get_kernel_entry" => i' = 1
    BY <1>0, <1>4 DEF PrepareBootparams, Fail, TypeOK
  <2>2. pc' # "kernel"
    BY <1>4 DEF PrepareBootparams, Fail
  <2> QED
    BY <2>1, <2>2 DEF LoadedFromElsewhere
<1>5. CASE AllocatePreferred \/ AllocateAny \/ Decompress \/ LoadInitramfs
  BY <1>5 DEF AllocatePreferred, AllocateAny, Fail, Decompress, LoadInitramfs,
              LoadedFromElsewhere
<1>6. CASE UNCHANGED vars
  BY <1>0, <1>6 DEF vars, SegmentsInv, Clear, SegmentLoaded, LoadedFromElsewhere, KernelLoaded
<1> QED
  BY <1>1, <1>2, <1>3, <1>4, <1>5, <1>6 DEF Next

LEMMA NextIInv == IInv /\ [Next]_vars => IInv'
<1> SUFFICES ASSUME IInv, [Next]_vars PROVE IInv'
  OBVIOUS
<1>1. TypeOK' /\ AllocInv'
  BY NextTypeOK, NextAlloc DEF IInv, AllocInv
<1> QED
  BY <1>1, NextFile, NextOthers, NextSegments DEF IInv

LEMMA Inductive == Spec => []IInv
BY InitIInv, NextIInv, PTL DEF Spec

-----------------------------------------------------------------------------
(* A kernel file decompressed clear of its window is loaded whole, for any  *)
(* number of segments and any addresses the setup header's window holds, on *)
(* a machine that has memory there (the code does not look).                *)
THEOREM LoadsFromElsewhere ==
  Spec => [](Window \subseteq Frames => LoadedFromElsewhere)
<1>1. IInv => (Window \subseteq Frames => LoadedFromElsewhere)
  BY DEF IInv, SegmentsInv
<1> QED
  BY <1>1, Inductive, PTL

(* A kernel file decompressed at pref_address is spread out inside the      *)
(* pages that init_size reserved: initramfs and boot parameters survive     *)
(* every segment that is moved while the file's headers last.               *)
THEOREM SparesOthers == Spec => []PreferredSparesOthers
<1>1. IInv => PreferredSparesOthers
  BY DEF IInv, OthersInv
<1> QED
  BY <1>1, Inductive, PTL
==============================================================================
