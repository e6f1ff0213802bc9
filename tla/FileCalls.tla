----------------------------- MODULE FileCalls -----------------------------
(***************************************************************************)
(* How a name reaches an entry of the descriptor pool: file systems are    *)
(* registered by alt_sys_init(), alt_find_dev() and alt_find_file() look   *)
(* names up, alt_io_redirect() and open() take what they find, and read()  *)
(* and write() go by the mode open() stored.                               *)
(*                                                                         *)
(* Names are strings, sequences of characters ending in Nul.  Devices,     *)
(* mount points and the files a program names are given by their           *)
(* components, sequences of Letters, and spelled with a slash before each. *)
(***************************************************************************)
EXTENDS FdTable, Sequences
Seqs == INSTANCE SequencesExt

CONSTANTS
  Letters,     \* the characters of a component
  DevPath,     \* the components of each character device's name
  MountPath,   \* the components of each file system's mount point
  Slashed,     \* the file systems whose mount point is written with a final slash
  Paths,       \* the components of the files programs name
  StdPath      \* those given to alt_io_redirect(), per standard stream

Slash == "/"
Nul == "0"
Names == Seq(Seq(Letters))

ASSUME NamesAssumption ==
  /\ Slash \notin Letters /\ Nul \notin Letters
  /\ DOMAIN DevPath = CharDevs /\ DOMAIN MountPath = FileSystems
  /\ \A d \in CharDevs : DevPath[d] \in Names
  /\ \A d, e \in CharDevs : DevPath[d] = DevPath[e] => d = e
  /\ \A f \in FileSystems :
       /\ MountPath[f] \in Names
       /\ \A k \in 1 .. Len(MountPath[f]) : MountPath[f][k] # <<>>
       /\ MountPath[f] = <<>> => f \in Slashed
  /\ Slashed \subseteq FileSystems
  /\ \A path \in Paths : path \in Names
  /\ \A s \in Std : StdPath[s] \in Paths

Spelled(path) == Seqs!FlattenSeq([k \in 1 .. Len(path) |-> <<Slash>> \o path[k]])
MountName(f) == Spelled(MountPath[f]) \o (IF f \in Slashed THEN <<Slash>> ELSE <<>>)
Char(name, k) == IF k <= Len(name) THEN name[k] ELSE Nul

VARIABLE fsList    \* alt_fs_list from its head

callVars == <<vars, fsList>>

CallInit == Init /\ fsList = <<>>

\* alt_fs_reg(): alt_llist_insert() puts the newest first.
Register(f) ==
  /\ redirected = 0 /\ f \notin Seqs!Range(fsList)
  /\ fsList' = <<f>> \o fsList
  /\ UNCHANGED vars

(***************************************************************************)
(* alt_find_dev() and alt_find_file().                                     *)
(***************************************************************************)
IsDev(d, name) == Spelled(DevPath[d]) = name

\* Where the comparison with a mount point ends: its final slash or its Nul.
Ends(mount, k) ==
  Char(mount, k) = Nul \/ (Char(mount, k) = Slash /\ Char(mount, k + 1) = Nul)
Stop(mount) ==
  CHOOSE k \in 1 .. Len(mount) + 1 :
    Ends(mount, k) /\ \A l \in 1 .. k - 1 : ~Ends(mount, l)

\* Mutant: what follows the prefix is not looked at.
Covers_WrongPrefix(mount, name) ==
  \A k \in 1 .. Stop(mount) - 1 : Char(mount, k) = Char(name, k)

Covers(mount, name) ==
  /\ \A k \in 1 .. Stop(mount) - 1 : Char(mount, k) = Char(name, k)
  /\ Char(name, Stop(mount)) \in {Slash, Nul}

\* The first entry of the list that covers the name.
FirstCover(k, name) ==
  /\ Covers(MountName(fsList[k]), name)
  /\ \A l \in 1 .. k - 1 : ~Covers(MountName(fsList[l]), name)

FoundFile(name) ==
  IF \E k \in DOMAIN fsList : FirstCover(k, name)
    THEN fsList[CHOOSE k \in DOMAIN fsList : FirstCover(k, name)]
    ELSE NoDev

Found(path) ==
  LET name == Spelled(path) IN
  IF \E d \in CharDevs : IsDev(d, name)
    THEN CHOOSE d \in CharDevs : IsDev(d, name)
    ELSE FoundFile(name)

(***************************************************************************)
(* The callers.                                                            *)
(***************************************************************************)
\* A name alt_io_redirect() finds nothing for leaves the stream as it was.
RedirectUnknown(s) ==
  /\ Turn(s)
  /\ Found(StdPath[s]) = NoDev
  /\ UNCHANGED <<pool, app, fsList>>

RedirectFound(s, i) ==
  /\ Found(StdPath[s]) # NoDev
  /\ Redirect(s, Found(StdPath[s]), i)
  /\ UNCHANGED fsList

\* An unknown name (-ENODEV) changes nothing.
Known == {Found(path) : path \in Paths} \ {NoDev}

Open(d, fl, i) ==
  /\ Opened(d, fl, i) \/ OpenFailed(d, fl, i)
  /\ UNCHANGED fsList

Call(i) == \/ Close(i) \/ Lock(i) \/ Unlock(i)
           \/ \E arg \in SUBSET Flags : SetFl(i, arg)

CallNext ==
  \/ \E f \in FileSystems : Register(f)
  \/ \E s \in Std : RedirectUnknown(s) \/ \E i \in Fds : RedirectFound(s, i)
  \/ Running /\ \E d \in Known : \E fl \in SUBSET Flags, i \in Free : Open(d, fl, i)
  \/ \E i \in Fds : Call(i) /\ UNCHANGED fsList

CallSpec == CallInit /\ [][CallNext]_callVars

\* The mode test of read() and of write(); the null device has no read().
Readable(i) == "O_WRONLY" \notin flags[i] /\ dev[i] # Null
Writable(i) == "O_WRONLY" \in flags[i]

(***************************************************************************)
(* Properties                                                              *)
(***************************************************************************)
\* A name reaches the device of that very name before any file system, and
\* otherwise the file system registered last among those whose mount point
\* contains it component by component: "/fs" contains "/fs" and "/fs/x" and
\* never "/fsx", with or without a final slash.
Mounted(f, path) == Seqs!IsPrefix(MountPath[f], path)
NamesReachOwner ==
  \A path \in Paths :
    IF \E d \in CharDevs : DevPath[d] = path
      THEN DevPath[Found(path)] = path
      ELSE \/ /\ Found(path) = NoDev
              /\ \A f \in Seqs!Range(fsList) : ~Mounted(f, path)
           \/ \E k \in DOMAIN fsList :
                /\ Found(path) = fsList[k] /\ Mounted(fsList[k], path)
                /\ \A l \in 1 .. k - 1 : ~Mounted(fsList[l], path)

StreamOK(s) ==
  \/ /\ dev[s] = Found(StdPath[s])
     /\ IF s = 0 THEN Readable(s) \/ dev[s] = Null ELSE Writable(s)
  \/ /\ dev[s] = Null /\ Found(StdPath[s]) \notin CharDevs
     /\ ~Readable(s) /\ ~Writable(s)

\* When main() starts and ever after, whatever is opened, closed, locked or set
\* in between, read() on standard input and write() on the other two reach the
\* device chosen; a stream whose redirection failed sits on the null device
\* and refuses both.  (The null device, when chosen for input, has no read().)
StreamsWork == Running => \A s \in Std : StreamOK(s)
=============================================================================
