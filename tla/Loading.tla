------------------------------ MODULE Loading --------------------------------
(***************************************************************************)
(* The functions of src/phase3/wboot.c that bring the kernel and the       *)
(* initramfs into memory: wboot_read_setup_header, wboot_decompress_kernel *)
(* and wboot_load_initramfs.  Phase 2 (src/phase2/wboot.c) has the first   *)
(* two, and the beginning of the third, word for word but for the messages *)
(* they print.  One action is one call that can fail, with the code up to  *)
(* the next; what has been allocated or opened is tracked until it is      *)
(* released.                                                               *)
(***************************************************************************)

VARIABLES
  pc,         \* the next call of the program
  in,         \* the function that made efi_main give up, or "none"
  status,     \* status of efi_main: "success" or "error"
  live,       \* what the loader has allocated or opened and not released
  base        \* where the kernel image is: "none", "preferred" or "any"

loadVars == <<pc, in, status, live, base>>

LoadingInit(first) ==
  /\ pc = first
  /\ in = "none"
  /\ status = "success"
  /\ live = {}
  /\ base = "none"

-----------------------------------------------------------------------------
(* Forms the steps take.                                                    *)

Continue(from, to) == pc = from /\ pc' = to /\ UNCHANGED <<in, status>>

(* goto exit, from the function f, with the status it returned.             *)
GiveUp(from, f, st) ==
  /\ pc = from /\ pc' = "exit"
  /\ in' = f
  /\ status' = st
  /\ UNCHANGED base

(* A call that only may fail; on failure f frees held.                      *)
Check(from, to, f, held) ==
  \/ Continue(from, to) /\ UNCHANGED <<live, base>>
  \/ GiveUp(from, f, "error") /\ live' = live \ held

(* A call that allocates or opens the resource r; on failure f frees held.  *)
Acquire(from, to, f, r, held) ==
  \/ Continue(from, to) /\ live' = live \cup {r} /\ UNCHANGED base
  \/ GiveUp(from, f, "error") /\ live' = live \ held

-----------------------------------------------------------------------------
(* SetPosition, Read, a short read, either magic.                           *)
ReadSetupHeader(to) == Check("read_setup_header", to, "read_setup_header", {})

(* wboot_decompress_kernel.  The decompressor's context is static and never *)
(* freed.                                                                   *)
CreateDCtx == Acquire("create_dctx", "malloc_compressed", "decompress_kernel", "dctx", {})

MallocCompressed ==
  Acquire("malloc_compressed", "read_compressed", "decompress_kernel", "compressed_kernel", {})

(* SetPosition, Read, a short read, no zstd magic, no zstd frame.           *)
LeakyReadCompressed == Check("read_compressed", "allocate_preferred", "decompress_kernel", {})
ReadCompressed ==
  Check("read_compressed", "allocate_preferred", "decompress_kernel", {"compressed_kernel"})

(* A refused pref_address, or a header without one, falls back to any       *)
(* address.                                                                 *)
AllocatePreferred ==
  \/ /\ Continue("allocate_preferred", "decompress")
     /\ live' = live \cup {"kernel_pages"}
     /\ base' = "preferred"
  \/ Continue("allocate_preferred", "allocate_any") /\ UNCHANGED <<live, base>>

AllocateAny ==
  \/ /\ Continue("allocate_any", "decompress")
     /\ live' = live \cup {"kernel_pages"}
     /\ base' = "any"
  \/ /\ GiveUp("allocate_any", "decompress_kernel", "error")
     /\ live' = live \ {"compressed_kernel"}

(* ZSTD_decompressDCtx fails, or what it made is not an ELF file.           *)
Decompress(to) ==
  \/ /\ Continue("decompress", to)
     /\ live' = live \ {"compressed_kernel"}
     /\ UNCHANGED base
  \/ /\ GiveUp("decompress", "decompress_kernel", "error")
     /\ live' = live \ {"compressed_kernel", "kernel_pages"}

(* wboot_load_initramfs: the size of the file.                              *)
InitramfsInfoSize == Check("initramfs_info_size", "malloc_file_info", "load_initramfs", {})

MallocFileInfo ==
  Acquire("malloc_file_info", "initramfs_info", "load_initramfs", "file_info", {})

InitramfsInfo ==
  \/ /\ Continue("initramfs_info", "allocate_initramfs")
     /\ live' = live \ {"file_info"}
     /\ UNCHANGED base
  \/ /\ GiveUp("initramfs_info", "load_initramfs", "error")
     /\ live' = live \ {"file_info"}

(* Phase 3: pages below 4 GiB, else anywhere.  Phase 2: one pool block.     *)
AllocateInitramfs ==
  Acquire("allocate_initramfs", "read_initramfs", "load_initramfs", "initramfs_pages", {})

wboot_decompress_kernel(to) ==
  \/ CreateDCtx \/ MallocCompressed \/ ReadCompressed
  \/ AllocatePreferred \/ AllocateAny \/ Decompress(to)

InitramfsBuffer ==
  InitramfsInfoSize \/ MallocFileInfo \/ InitramfsInfo \/ AllocateInitramfs

-----------------------------------------------------------------------------
(* Whatever call fails, a function that fails has released the memory it    *)
(* allocated for its result and for its own use, and one that succeeds what *)
(* it allocated for its own use.                                            *)
StagesFreeTheirOwn ==
  /\ in = "decompress_kernel" => live \cap {"compressed_kernel", "kernel_pages"} = {}
  /\ in = "load_initramfs" => live \cap {"file_info", "initramfs_pages"} = {}
  /\ pc \in {"open_initramfs", "initramfs_info_size", "prepare_bootparams", "handoff",
             "kernel", "returned"} =>
       live \cap {"compressed_kernel", "file_info"} = {}
==============================================================================
