------------------------------- MODULE Phase2 --------------------------------
(***************************************************************************)
(* efi_main of the earlier stage of the loader (src/phase2/main.c), and    *)
(* its wboot_locate_kernel (src/phase2/wboot.c), which takes the kernel    *)
(* and the initramfs from the first volume that has both.  It stops when   *)
(* they are in memory; the functions that load them are in Loading.        *)
(***************************************************************************)
EXTENDS Loading, Naturals, Sequences

CONSTANTS
  VolumeLists,  \* which of the two files the volumes have, in the order of their handles
  MaxHandles    \* handles[64] of wboot_locate_kernel

Files == {"vmlinuz-linux", "initramfs-linux.img"}

ASSUME Phase2Assumption ==
  /\ MaxHandles \in Nat \ {0}
  /\ VolumeLists \subseteq Seq(SUBSET Files)

VARIABLES
  volumes,         \* the files of every volume
  i,               \* the handle that is being looked at
  opened,          \* the directories and files that are open, with their volumes
  kernel_file,     \* the volume of *kernel_file, 0 if it has not been set
  initramfs_file,  \* the volume of *initramfs_file
  faulty           \* the volumes on which a call of the firmware failed

searchVars == <<volumes, i, opened, kernel_file, initramfs_file, faulty>>
vars == <<loadVars, searchVars>>

Init ==
  /\ LoadingInit("locate_handle")
  /\ volumes \in VolumeLists
  /\ i = 1
  /\ opened = {}
  /\ kernel_file = 0 /\ initramfs_file = 0
  /\ faulty = {}

-----------------------------------------------------------------------------
(* wboot_locate_kernel.  LocateHandle refuses a buffer too small for all    *)
(* handles, and fails when there is none.                                   *)
LocateHandle ==
  /\ \/ Len(volumes) \in 1..MaxHandles /\ Continue("locate_handle", "volume") /\ UNCHANGED base
     \/ GiveUp("locate_handle", "locate_kernel", "error")
  /\ UNCHANGED <<live, searchVars>>

(* continue: what has been opened on this volume stays open.                *)
NextVolume(from, failed) ==
  /\ Continue(from, "volume")
  /\ i' = i + 1
  /\ faulty' = faulty \cup failed
  /\ UNCHANGED <<live, base, volumes, opened, kernel_file, initramfs_file>>

(* Open of one of the files: *file is set as soon as it is open.            *)
Opens(from, to, name) ==
  /\ Continue(from, to)
  /\ name \in volumes[i]
  /\ opened' = opened \cup {<<i, name>>}
  /\ UNCHANGED <<live, base, volumes, i, faulty>>
NotOpened(from, name) ==
  \/ NextVolume(from, {}) /\ name \notin volumes[i]
  \/ NextVolume(from, {i})

(* HandleProtocol and OpenVolume.                                           *)
OpenVolume ==
  /\ i <= Len(volumes)
  /\ \/ /\ Continue("volume", "open_kernel")
        /\ opened' = opened \cup {<<i, "root">>}
        /\ UNCHANGED <<live, base, volumes, i, kernel_file, initramfs_file, faulty>>
     \/ NextVolume("volume", {i})

KeepingOpenKernel ==
  \/ /\ Opens("open_kernel", "open_initramfs", "vmlinuz-linux")
     /\ kernel_file' = IF kernel_file = 0 THEN i ELSE kernel_file
     /\ UNCHANGED initramfs_file
  \/ NotOpened("open_kernel", "vmlinuz-linux")
OpenKernel ==
  \/ /\ Opens("open_kernel", "open_initramfs", "vmlinuz-linux")
     /\ kernel_file' = i
     /\ UNCHANGED initramfs_file
  \/ NotOpened("open_kernel", "vmlinuz-linux")

OpenInitramfs ==
  \/ /\ Opens("open_initramfs", "malloc_main_info", "initramfs-linux.img")
     /\ initramfs_file' = i
     /\ UNCHANGED kernel_file
  \/ NotOpened("open_initramfs", "initramfs-linux.img")

NoMoreVolumes ==
  /\ i > Len(volumes)
  /\ GiveUp("volume", "locate_kernel", "error")
  /\ UNCHANGED <<live, searchVars>>

LocateKernel ==
  LocateHandle \/ OpenVolume \/ OpenKernel \/ OpenInitramfs \/ NoMoreVolumes

-----------------------------------------------------------------------------
(* efi_main leaves status as it is when it finds no memory for the file     *)
(* information, and keeps that when a later call fails.                     *)
MallocMainInfo ==
  \/ /\ Continue("malloc_main_info", "get_kernel_info")
     /\ live' = live \cup {"main_info"}
     /\ UNCHANGED base
  \/ GiveUp("malloc_main_info", "malloc_main_info", status) /\ UNCHANGED live

GetKernelInfo == Check("get_kernel_info", "get_initramfs_info", "get_info", {})
GetInitramfsInfo == Check("get_initramfs_info", "read_setup_header", "get_info", {})

FreeMainInfo ==
  \/ /\ Continue("free_pool", "create_dctx")
     /\ live' = live \ {"main_info"}
     /\ UNCHANGED base
  \/ GiveUp("free_pool", "free_pool", "error") /\ UNCHANGED live

(* A Read that is short succeeds: bytes_read is not compared with the size  *)
(* of the file.                                                             *)
Reads == Continue("read_initramfs", "exit") /\ UNCHANGED <<live, base>>
ReadFails(st) ==
  /\ GiveUp("read_initramfs", "load_initramfs", st)
  /\ live' = live \ {"initramfs_pages"}
SwallowingReadInitramfs == Reads \/ ReadFails("success")
ReadInitramfs == Reads \/ ReadFails("error")

(* exit: also the way of a success.                                         *)
Exit ==
  /\ pc = "exit" /\ pc' = "returned"
  /\ UNCHANGED <<in, status, live, base>>

wboot_read_setup_header == ReadSetupHeader("free_pool")
DecompressKernel == wboot_decompress_kernel("initramfs_info_size")
wboot_load_initramfs == InitramfsBuffer \/ ReadInitramfs

MainStep ==
  \/ MallocMainInfo \/ GetKernelInfo \/ GetInitramfsInfo
  \/ wboot_read_setup_header \/ FreeMainInfo
  \/ DecompressKernel \/ wboot_load_initramfs \/ Exit

Next == LocateKernel \/ (MainStep /\ UNCHANGED searchVars)

Spec == Init /\ [][Next]_vars

-----------------------------------------------------------------------------
(* Properties.                                                              *)

Located == pc \notin {"locate_handle", "volume", "open_kernel", "open_initramfs"}
Usable(n) == n \notin faulty /\ volumes[n] = Files

(* The kernel and the initramfs are of one volume, the first that has both  *)
(* and could be read, although a kernel found without an initramfs is       *)
(* handed out and kept open on the way; nothing is found only if there is   *)
(* no such volume among those that were looked at.                          *)
FilesTogether ==
  /\ Located /\ in # "locate_kernel" =>
       /\ kernel_file = initramfs_file /\ Usable(kernel_file)
       /\ {<<kernel_file, name>> : name \in Files} \subseteq opened
       /\ \A n \in 1..(kernel_file - 1) : ~Usable(n)
  /\ Located /\ in = "locate_kernel" => \A n \in 1..(i - 1) : ~Usable(n)

(* efi_main returns EFI_SUCCESS without both files in memory, and all that  *)
(* served to load them released, only when the memory for the file          *)
(* information was refused.  Whether the Read was short it does not say.    *)
SuccessMeansLoaded ==
  pc = "returned" /\ status = "success" =>
    \/ in = "malloc_main_info"
    \/ /\ in = "none"
       /\ base # "none"
       /\ {"kernel_pages", "initramfs_pages"} \subseteq live
       /\ live \cap {"main_info", "compressed_kernel", "file_info"} = {}
==============================================================================
