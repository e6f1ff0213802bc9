------------------------------ MODULE FdTable ------------------------------
(***************************************************************************)
(* The file descriptor pool of the HAL: alt_fd_list and alt_max_fd, the    *)
(* redirection of the standard streams before main(), and open(), close(), *)
(* ioctl(TIOCEXCL), ioctl(TIOCNXCL) and fcntl(F_SETFL) as an application   *)
(* may call them afterwards.  One thread calls them and no interrupt       *)
(* handler touches the pool, so each call is one step.                     *)
(***************************************************************************)
EXTENDS Integers, FiniteSets

CONSTANTS
  PoolSize,      \* ALT_MAX_FD
  CharDevs,      \* the devices on alt_dev_list
  FileSystems,   \* the entries of alt_fs_list
  Null,          \* alt_dev_null, always on alt_dev_list
  NoDev,         \* the NULL of a free descriptor
  StdIn, StdOut, StdErr   \* the names given to alt_io_redirect()

Fds == 0 .. PoolSize - 1
Std == 0 .. 2
Devs == CharDevs \cup FileSystems

ASSUME PoolAssumption == PoolSize \in Nat /\ PoolSize > 3
ASSUME DevsAssumption ==
  /\ Null \in CharDevs
  /\ CharDevs \cap FileSystems = {}
  /\ NoDev \notin Devs
  /\ {StdIn, StdOut, StdErr} \subseteq Devs

(***************************************************************************)
(* Flags: the two bits of ALT_FD_FLAGS_MASK, one bit of the access mode,   *)
(* which open() alone sets, and one bit fcntl() may set.                   *)
(***************************************************************************)
Guarded == {"ALT_FD_EXCL", "ALT_FD_DEV"}
AccessMode == {"O_WRONLY"}
Settable == {"O_NONBLOCK"}
Flags == Guarded \cup AccessMode \cup Settable

VARIABLES
  dev,           \* alt_fd_list[i].dev
  flags,         \* alt_fd_list[i].fd_flags
  maxFd,         \* alt_max_fd
  redirected,    \* how many standard streams alt_io_redirect() has treated
  held,          \* application: the device each descriptor it holds stands for
  locks          \* application: the descriptors whose lock it has been granted

pool == <<dev, flags, maxFd>>
app == <<held, locks>>
vars == <<dev, flags, maxFd, redirected, held, locks>>

Init ==
  /\ dev = [i \in Fds |-> IF i \in Std THEN Null ELSE NoDev]
  /\ flags = [i \in Fds |-> {}]
  /\ maxFd = -1
  /\ redirected = 0
  /\ held = [i \in Fds |-> NoDev]
  /\ locks = {}

(***************************************************************************)
(* The parts of open().                                                    *)
(***************************************************************************)
Free == {i \in Fds : dev[i] = NoDev}

FirstFree(i) == i \in Free /\ \A k \in Free : i <= k

HighWater(i) == IF i > maxFd THEN i ELSE maxFd

FreshFlags(d, fl) ==
  (fl \ Guarded) \cup (IF d \in CharDevs THEN {"ALT_FD_DEV"} ELSE {})

Locked(d, i) ==
  \E k \in Fds :
    k <= HighWater(i) /\ k # i /\ dev[k] = d /\ "ALT_FD_EXCL" \in flags[k]

Admitted(d, i) == d \in CharDevs => ~Locked(d, i)

\* A file system's own open() may fail; the character devices have none.
OpenSucceeds(d, i) == FirstFree(i) /\ Admitted(d, i)
OpenFails(d, i) == FirstFree(i) /\ (~Admitted(d, i) \/ d \in FileSystems)

Allocated(d, fl, i) ==
  [dev |-> [dev EXCEPT ![i] = d],
   flags |-> [flags EXCEPT ![i] = FreshFlags(d, fl)]]

\* Mutants: the limit one too high, and the flags left behind.
Released_WrongFour(t, i) ==
  IF i > 3
    THEN [dev |-> [t.dev EXCEPT ![i] = NoDev],
          flags |-> [t.flags EXCEPT ![i] = {}]]
    ELSE t
Released_WrongFlags(t, i) ==
  IF i > 2 THEN [t EXCEPT !.dev[i] = NoDev] ELSE t

Released(t, i) ==
  IF i > 2
    THEN [dev |-> [t.dev EXCEPT ![i] = NoDev],
          flags |-> [t.flags EXCEPT ![i] = {}]]
    ELSE t

Table == [dev |-> dev, flags |-> flags]

Become(t) == dev' = t.dev /\ flags' = t.flags

(***************************************************************************)
(* alt_open_fd(): the entry open() has just filled is copied into the      *)
(* standard descriptor and released.  When open() fails the descriptor     *)
(* stays on the null device.                                               *)
(***************************************************************************)
\* Mutant: the flags are not copied.
Copied_WrongFlags(t, from, to) ==
  [t EXCEPT !.dev[to] = t.dev[from]]

Copied(t, from, to) ==
  [dev |-> [t.dev EXCEPT ![to] = t.dev[from]],
   flags |-> [t.flags EXCEPT ![to] = t.flags[from]]]

StdDev(s) == IF s = 0 THEN StdIn ELSE IF s = 1 THEN StdOut ELSE StdErr
StdMode(s) == IF s = 0 THEN {} ELSE {"O_WRONLY"}

\* Standard output comes first, then input, then error.
Turn(s) ==
  /\ redirected < 3
  /\ s = <<1, 0, 2>>[redirected + 1]
  /\ redirected' = redirected + 1

Redirect(s, d, i) ==
  /\ Turn(s)
  /\ maxFd' = HighWater(i)
  /\ \/ /\ OpenSucceeds(d, i)
        /\ Become(Released(Copied(Allocated(d, StdMode(s), i), i, s), i))
     \/ /\ OpenFails(d, i)
        /\ Become(Released(Allocated(d, StdMode(s), i), i))
  /\ UNCHANGED app

(***************************************************************************)
(* open() by the application.  Unknown names (-ENODEV) and a full pool     *)
(* (-EMFILE) change nothing and are no steps.                              *)
(***************************************************************************)
Running == redirected = 3

Opened(d, fl, i) ==
  /\ Running
  /\ OpenSucceeds(d, i)
  /\ maxFd' = HighWater(i)
  /\ Become(Allocated(d, fl, i))
  /\ held' = [held EXCEPT ![i] = d]
  /\ UNCHANGED <<redirected, locks>>

OpenFailed(d, fl, i) ==
  /\ Running
  /\ OpenFails(d, i)
  /\ maxFd' = HighWater(i)
  /\ Become(Released(Allocated(d, fl, i), i))
  /\ UNCHANGED <<redirected, app>>

(***************************************************************************)
(* The other calls, on a standard descriptor or one the application holds. *)
(***************************************************************************)
Usable(i) == Running /\ (i \in Std \/ held[i] # NoDev)

\* The result of the driver's close() is passed on, and the descriptor is
\* released whatever it is.
Close(i) ==
  /\ Usable(i)
  /\ Become(Released(Table, i))
  /\ held' = [held EXCEPT ![i] = NoDev]
  /\ locks' = locks \ {i}
  /\ UNCHANGED <<maxFd, redirected>>

\* Mutant: the search never goes beyond the standard streams.
Searched_WrongStd == {k \in Fds : k < maxFd /\ k < 3}

\* The part of the pool alt_fd_lock() searches.
Searched == {k \in Fds : k < maxFd}

Contended(i) == \E k \in Searched : k # i /\ dev[k] = dev[i]

IsDevice(i) == "ALT_FD_DEV" \in flags[i]

Lock(i) ==
  /\ Usable(i)
  /\ IsDevice(i)
  /\ ~Contended(i)
  /\ flags' = [flags EXCEPT ![i] = @ \cup {"ALT_FD_EXCL"}]
  /\ locks' = locks \cup {i}
  /\ UNCHANGED <<dev, maxFd, redirected, held>>

Unlock(i) ==
  /\ Usable(i)
  /\ IsDevice(i)
  /\ flags' = [flags EXCEPT ![i] = @ \ {"ALT_FD_EXCL"}]
  /\ locks' = locks \ {i}
  /\ UNCHANGED <<dev, maxFd, redirected, held>>

SetFl(i, arg) ==
  /\ Usable(i)
  /\ flags' = [flags EXCEPT ![i] = (@ \ Settable) \cup (arg \cap Settable)]
  /\ UNCHANGED <<dev, maxFd, redirected, app>>

Next ==
  \E i \in Fds :
    \/ \E s \in Std : Redirect(s, StdDev(s), i)
    \/ \E d \in Devs, fl \in SUBSET Flags : Opened(d, fl, i) \/ OpenFailed(d, fl, i)
    \/ Close(i) \/ Lock(i) \/ Unlock(i)
    \/ \E arg \in SUBSET Flags : SetFl(i, arg)

Spec == Init /\ [][Next]_vars

(***************************************************************************)
(* Properties                                                              *)
(***************************************************************************)
Excl(i) == "ALT_FD_EXCL" \in flags[i]

\* Every variable has its type.
TypeOK ==
  /\ dev \in [Fds -> Devs \cup {NoDev}]
  /\ flags \in [Fds -> SUBSET Flags]
  /\ maxFd \in -1 .. PoolSize - 1
  /\ redirected \in 0 .. 3
  /\ held \in [Fds -> Devs \cup {NoDev}]
  /\ locks \in SUBSET Fds

\* Two descriptors never hold the exclusive lock of one device, although
\* alt_fd_lock() leaves the highest descriptor out of its search.
OneOwner == \A i, k \in Fds : Excl(i) /\ Excl(k) /\ dev[i] = dev[k] => i = k

\* The weaker promise alt_fd_lock() does keep: beside a locked descriptor at
\* most one other refers to the device, and it is a higher one.
OneIntruder ==
  \A i \in Fds : Excl(i) =>
    \A k, l \in Fds \ {i} :
      dev[k] = dev[i] /\ dev[l] = dev[i] => k = l /\ k > i

\* Nothing leaks and nothing is taken back: above the standard streams the
\* pool holds exactly the descriptors the application holds, on the devices
\* it opened, whatever open() and close() failed in between.
PoolIsHeld == \A i \in Fds \ Std : dev[i] = held[i]

\* No flags given to open() or fcntl() forge or lift a lock: a descriptor is
\* locked exactly when its last ioctl() was a granted TIOCEXCL.
LockIsGranted == \A i \in Fds : Excl(i) /\ i \notin Std <=> i \in locks \ Std

\* What alt_fd_lock() documents: it grants the lock only if no other open
\* descriptor refers to the device.
Exclusive ==
  [][\A i \in Fds : ~Excl(i) /\ Excl(i)' =>
       \A k \in Fds \ {i} : dev[k] # dev[i]]_vars

=============================================================================
