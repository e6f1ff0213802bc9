--------------------------- MODULE FdTableProofs ---------------------------
(***************************************************************************)
(* Proofs about FdTable and FileCalls for a pool of any size, any devices, *)
(* file systems and names, and any choice of standard streams: type        *)
(* correctness, the one owner of an exclusive lock, the at most one        *)
(* descriptor that shares the owner's device, that the pool holds what the *)
(* application holds, locked as granted, that every name finds its owner,  *)
(* and that the standard streams reach the devices their names stand for.  *)
(*                                                                         *)
(* FdTable redirects the streams to given devices, FileCalls to whatever   *)
(* is found under a name; PoolSpec allows any device, or none, and so both.*)
(***************************************************************************)
EXTENDS FileCalls, SequenceTheorems, FiniteSetTheorems, TLAPS

(***************************************************************************)
(* The inductive invariant.  The high-water mark covers every descriptor   *)
(* in use, so alt_file_locked() sees every lock; the standard streams are  *)
(* never free, so open() never hands them out; a locked descriptor is      *)
(* marked as a device's, so open() does check it; and a marked descriptor  *)
(* exists only once the mark is past the standard streams.                 *)
(***************************************************************************)
InPool == \A i \in Fds \ Std : dev[i] # NoDev => i <= maxFd
StdTaken == \A s \in Std : dev[s] \in Devs
Marked == \A i \in Fds : IsDevice(i) => dev[i] \in CharDevs /\ maxFd >= 3
ExclMarked == \A i \in Fds : Excl(i) => IsDevice(i)

IInv == TypeOK /\ InPool /\ StdTaken /\ Marked /\ ExclMarked /\ OneIntruder

USE PoolAssumption, DevsAssumption DEF Fds, Std, Devs

\* The slot open() fills lies above the standard streams.
LEMMA FreeAboveStd ==
  ASSUME IInv, NEW i \in Fds, FirstFree(i)
  PROVE  i > 2 /\ dev[i] = NoDev
BY DEF IInv, StdTaken, FirstFree, Free

\* The mark after alt_get_fd() covers the new slot and all the old ones.
LEMMA HighWaterBound ==
  ASSUME TypeOK, NEW i \in Fds
  PROVE  /\ HighWater(i) \in -1 .. PoolSize - 1
         /\ HighWater(i) >= i
         /\ HighWater(i) >= maxFd
BY DEF HighWater, TypeOK

\* alt_file_locked() sees every locked descriptor of the device: after it has
\* admitted d, no descriptor in use is locked on d.
LEMMA AdmittedUnlocked ==
  ASSUME IInv, NEW i \in Fds, NEW d \in Devs, FirstFree(i), Admitted(d, i),
         NEW k \in Fds, Excl(k)
  PROVE  dev[k] # d
<1>1. i > 2 /\ dev[i] = NoDev
  BY FreeAboveStd
<1>2. dev[k] \in CharDevs /\ maxFd >= 3
  BY DEF IInv, Marked, ExclMarked
<1>3. k # i
  BY <1>1, <1>2
<1>4. k <= maxFd
  BY <1>2 DEF IInv, InPool, TypeOK
<1>5. k <= HighWater(i)
  BY <1>4, HighWaterBound DEF IInv, TypeOK
<1> QED
  BY <1>2, <1>3, <1>5 DEF Admitted, Locked, Excl

LEMMA FreshFlagsType ==
  ASSUME NEW d \in Devs, NEW fl \in SUBSET Flags
  PROVE  /\ FreshFlags(d, fl) \in SUBSET Flags
         /\ "ALT_FD_EXCL" \notin FreshFlags(d, fl)
         /\ "ALT_FD_DEV" \in FreshFlags(d, fl) => d \in CharDevs
BY DEF FreshFlags, Flags, Guarded, AccessMode, Settable

LEMMA InitIInv == Init => IInv
BY DEF Init, IInv, TypeOK, InPool, StdTaken, Marked, ExclMarked, OneIntruder,
       IsDevice, Excl, Flags

(***************************************************************************)
(* The effect of the table operations, entry by entry.                     *)
(***************************************************************************)
LEMMA OpenedEffect ==
  ASSUME IInv, NEW i \in Fds, NEW d \in Devs, NEW fl \in SUBSET Flags,
         Become(Allocated(d, fl, i))
  PROVE  /\ dev' = [dev EXCEPT ![i] = d]
         /\ flags' = [flags EXCEPT ![i] = FreshFlags(d, fl)]
BY DEF Become, Allocated

LEMMA FailedEffect ==
  ASSUME IInv, NEW i \in Fds, FirstFree(i), NEW d \in Devs, NEW fl \in SUBSET Flags,
         Become(Released(Allocated(d, fl, i), i))
  PROVE  dev' = dev /\ flags' = [flags EXCEPT ![i] = {}]
<1>1. i > 2 /\ dev[i] = NoDev
  BY FreeAboveStd
<1>2. /\ dev' = [[dev EXCEPT ![i] = d] EXCEPT ![i] = NoDev]
      /\ flags' = [[flags EXCEPT ![i] = FreshFlags(d, fl)] EXCEPT ![i] = {}]
  BY <1>1 DEF Become, Allocated, Released
<1> QED
  BY <1>1, <1>2 DEF IInv, TypeOK

LEMMA RedirectEffect ==
  ASSUME IInv, NEW i \in Fds, FirstFree(i), NEW s \in Std, NEW d \in Devs,
         NEW fl \in SUBSET Flags,
         Become(Released(Copied(Allocated(d, fl, i), i, s), i))
  PROVE  /\ dev' = [dev EXCEPT ![s] = d]
         /\ flags' = [flags EXCEPT ![s] = FreshFlags(d, fl), ![i] = {}]
<1>1. i > 2 /\ dev[i] = NoDev /\ s # i /\ s \in Fds
  BY FreeAboveStd
<1>2. /\ Allocated(d, fl, i).dev = [dev EXCEPT ![i] = d]
      /\ Allocated(d, fl, i).flags = [flags EXCEPT ![i] = FreshFlags(d, fl)]
  BY DEF Allocated
<1>3. /\ Copied(Allocated(d, fl, i), i, s).dev = [[dev EXCEPT ![i] = d] EXCEPT ![s] = d]
      /\ Copied(Allocated(d, fl, i), i, s).flags =
           [[flags EXCEPT ![i] = FreshFlags(d, fl)] EXCEPT ![s] = FreshFlags(d, fl)]
  BY <1>1, <1>2 DEF Copied, IInv, TypeOK
<1>4. /\ dev' = [[[dev EXCEPT ![i] = d] EXCEPT ![s] = d] EXCEPT ![i] = NoDev]
      /\ flags' = [[[flags EXCEPT ![i] = FreshFlags(d, fl)]
                      EXCEPT ![s] = FreshFlags(d, fl)] EXCEPT ![i] = {}]
  BY <1>1, <1>3 DEF Become, Released
<1>5. dev' = [dev EXCEPT ![s] = d]
  BY <1>1, <1>4 DEF IInv, TypeOK
<1>6. flags' = [flags EXCEPT ![s] = FreshFlags(d, fl), ![i] = {}]
  BY <1>1, <1>4 DEF IInv, TypeOK
<1> QED
  BY <1>5, <1>6

(***************************************************************************)
(* Each operation preserves the invariant.                                 *)
(***************************************************************************)
LEMMA OpenedIInv ==
  ASSUME IInv, NEW i \in Fds, NEW d \in Devs, NEW fl \in SUBSET Flags, Opened(d, fl, i)
  PROVE  IInv'
<1> DEFINE f == FreshFlags(d, fl)
<1>1. /\ dev' = [dev EXCEPT ![i] = d]
      /\ flags' = [flags EXCEPT ![i] = f]
      /\ held' = [held EXCEPT ![i] = d]
      /\ UNCHANGED <<redirected, locks>>
  BY OpenedEffect DEF Opened
<1>2. i > 2 /\ dev[i] = NoDev
  BY FreeAboveStd DEF Opened, OpenSucceeds
<1>3. /\ maxFd' \in -1 .. PoolSize - 1
      /\ maxFd' >= i
      /\ maxFd' >= maxFd
  BY HighWaterBound DEF Opened, IInv
<1>4. /\ f \in SUBSET Flags
      /\ "ALT_FD_EXCL" \notin f
      /\ "ALT_FD_DEV" \in f => d \in CharDevs
  BY FreshFlagsType
<1>5. \A k \in Fds : Excl(k) => dev[k] # d
  BY AdmittedUnlocked DEF Opened, OpenSucceeds
<1> HIDE DEF f
<1>6. TypeOK'
  BY <1>1, <1>3, <1>4 DEF IInv, TypeOK
<1>7. InPool' /\ StdTaken'
  BY <1>1, <1>2, <1>3 DEF IInv, TypeOK, InPool, StdTaken
<1>8. Marked' /\ ExclMarked'
  BY <1>1, <1>2, <1>3, <1>4 DEF IInv, TypeOK, Marked, ExclMarked, IsDevice, Excl
<1>9. OneIntruder'
  BY <1>1, <1>4, <1>5 DEF IInv, TypeOK, OneIntruder, Excl
<1> QED
  BY <1>6, <1>7, <1>8, <1>9 DEF IInv

\* A failed open(), from the application or from alt_open_fd().
LEMMA FailedIInv ==
  ASSUME IInv, NEW i \in Fds, FirstFree(i), NEW d \in Devs, NEW fl \in SUBSET Flags,
         Become(Released(Allocated(d, fl, i), i)), maxFd' = HighWater(i),
         redirected' \in 0 .. 3, UNCHANGED app
  PROVE  IInv'
<1>1. dev' = dev /\ flags' = [flags EXCEPT ![i] = {}] /\ UNCHANGED <<held, locks>>
  BY FailedEffect DEF app
<1>2. i > 2 /\ dev[i] = NoDev
  BY FreeAboveStd
<1>3. /\ maxFd' \in -1 .. PoolSize - 1
      /\ maxFd' >= i
      /\ maxFd' >= maxFd
  BY HighWaterBound DEF IInv
<1>4. TypeOK'
  BY <1>1, <1>3 DEF IInv, TypeOK
<1>5. InPool' /\ StdTaken'
  BY <1>1, <1>3 DEF IInv, TypeOK, InPool, StdTaken
<1>6. Marked' /\ ExclMarked'
  BY <1>1, <1>3 DEF IInv, TypeOK, Marked, ExclMarked, IsDevice, Excl
<1>7. OneIntruder'
  BY <1>1 DEF IInv, TypeOK, OneIntruder, Excl
<1> QED
  BY <1>4, <1>5, <1>6, <1>7 DEF IInv

LEMMA RedirectIInv ==
  ASSUME IInv, NEW s \in Std, NEW d \in Devs, NEW i \in Fds, Redirect(s, d, i)
  PROVE  IInv'
<1> DEFINE fl == StdMode(s)
           f == FreshFlags(d, fl)
<1>1. d \in Devs /\ fl \in SUBSET Flags /\ redirected' \in 0 .. 3
  BY DEF StdMode, Flags, AccessMode, Redirect, Turn, IInv, TypeOK
<1>2. CASE OpenFails(d, i) /\ Become(Released(Allocated(d, fl, i), i))
  BY <1>1, <1>2, FailedIInv DEF Redirect, OpenFails
<1>3. CASE OpenSucceeds(d, i) /\ Become(Released(Copied(Allocated(d, fl, i), i, s), i))
  <2>1. /\ dev' = [dev EXCEPT ![s] = d]
        /\ flags' = [flags EXCEPT ![s] = f, ![i] = {}]
        /\ UNCHANGED <<held, locks>>
    BY <1>1, <1>3, RedirectEffect DEF Redirect, OpenSucceeds, app
  <2>2. i > 2 /\ dev[i] = NoDev /\ s \in Fds
    BY <1>3, FreeAboveStd DEF OpenSucceeds
  <2>3. /\ maxFd' \in -1 .. PoolSize - 1
        /\ maxFd' >= i
        /\ maxFd' >= maxFd
    BY HighWaterBound DEF Redirect, IInv
  <2>4. /\ f \in SUBSET Flags
        /\ "ALT_FD_EXCL" \notin f
        /\ "ALT_FD_DEV" \in f => d \in CharDevs
    BY <1>1, FreshFlagsType
  <2>5. \A k \in Fds : Excl(k) => dev[k] # d
    BY <1>1, <1>3, AdmittedUnlocked DEF OpenSucceeds
  <2> HIDE DEF fl, f
  <2>6. TypeOK'
    BY <1>1, <2>1, <2>3, <2>4 DEF IInv, TypeOK
  <2>7. InPool' /\ StdTaken'
    BY <1>1, <2>1, <2>2, <2>3 DEF IInv, TypeOK, InPool, StdTaken
  <2>8. Marked' /\ ExclMarked'
    BY <2>1, <2>2, <2>3, <2>4 DEF IInv, TypeOK, Marked, ExclMarked, IsDevice, Excl
  <2>9. OneIntruder'
    BY <2>1, <2>2, <2>4, <2>5 DEF IInv, TypeOK, OneIntruder, Excl
  <2> QED
    BY <2>6, <2>7, <2>8, <2>9 DEF IInv
<1> QED
  BY <1>2, <1>3 DEF Redirect

LEMMA CloseIInv ==
  ASSUME IInv, NEW i \in Fds, Close(i)
  PROVE  IInv'
<1>1. /\ held' = [held EXCEPT ![i] = NoDev]
      /\ locks' = locks \ {i}
      /\ UNCHANGED <<maxFd, redirected>>
  BY DEF Close
<1>2. CASE i > 2
  <2>1. dev' = [dev EXCEPT ![i] = NoDev] /\ flags' = [flags EXCEPT ![i] = {}]
    BY <1>2 DEF Close, Become, Released, Table
  <2>2. TypeOK'
    BY <1>1, <2>1 DEF IInv, TypeOK
  <2>3. InPool' /\ StdTaken'
    BY <1>1, <1>2, <2>1 DEF IInv, TypeOK, InPool, StdTaken
  <2>4. Marked' /\ ExclMarked'
    BY <1>1, <2>1 DEF IInv, TypeOK, Marked, ExclMarked, IsDevice, Excl
  <2>5. \A k \in Fds : Excl(k) => dev[k] # NoDev
    BY DEF IInv, Marked, ExclMarked
  <2>6. OneIntruder'
    BY <2>1, <2>5 DEF IInv, TypeOK, OneIntruder, Excl
  <2> QED
    BY <2>2, <2>3, <2>4, <2>6 DEF IInv
<1>3. CASE ~(i > 2)
  <2>1. dev' = dev /\ flags' = flags
    BY <1>3 DEF Close, Become, Released, Table
  <2> QED
    BY <1>1, <2>1 DEF IInv, TypeOK, InPool, StdTaken, Marked, ExclMarked,
                      OneIntruder, IsDevice, Excl
<1> QED
  BY <1>2, <1>3

\* A granted lock: what was not searched is the highest descriptor alone.
LEMMA LockIInv ==
  ASSUME IInv, NEW i \in Fds, Lock(i)
  PROVE  IInv'
<1>1. /\ flags' = [flags EXCEPT ![i] = @ \cup {"ALT_FD_EXCL"}]
      /\ locks' = locks \cup {i}
      /\ UNCHANGED <<dev, maxFd, redirected, held>>
  BY DEF Lock
<1>2. "ALT_FD_DEV" \in flags[i] /\ dev[i] \in CharDevs /\ maxFd >= 3
  BY DEF Lock, IsDevice, IInv, Marked
<1>3. \A k \in Fds \ {i} : dev[k] = dev[i] => k = maxFd
  <2> SUFFICES ASSUME NEW k \in Fds \ {i}, dev[k] = dev[i]
               PROVE  k = maxFd
    OBVIOUS
  <2>1. ~(k < maxFd)
    BY DEF Lock, Contended, Searched
  <2>2. k <= maxFd
    BY <1>2 DEF IInv, InPool, TypeOK
  <2> QED
    BY <2>1, <2>2 DEF IInv, TypeOK
<1>4. i <= maxFd
  BY <1>2 DEF IInv, InPool, TypeOK
<1>5. TypeOK'
  BY <1>1 DEF IInv, TypeOK, Flags, Guarded
<1>6. InPool' /\ StdTaken'
  BY <1>1 DEF IInv, InPool, StdTaken
<1>7. Marked' /\ ExclMarked'
  BY <1>1, <1>2 DEF IInv, TypeOK, Marked, ExclMarked, IsDevice, Excl
<1>8. OneIntruder'
  BY <1>1, <1>3, <1>4 DEF IInv, TypeOK, OneIntruder, Excl
<1> QED
  BY <1>5, <1>6, <1>7, <1>8 DEF IInv

\* TIOCNXCL and fcntl() set no guarded flag.
LEMMA FlagsIInv ==
  ASSUME IInv, NEW i \in Fds,
         \/ Unlock(i)
         \/ \E arg \in SUBSET Flags : SetFl(i, arg)
  PROVE  IInv'
<1>1. /\ UNCHANGED <<dev, maxFd, redirected, held>>
      /\ locks' \in SUBSET Fds
  BY DEF Unlock, SetFl, app, IInv, TypeOK
<1>2. PICK f \in SUBSET Flags :
        /\ flags' = [flags EXCEPT ![i] = f]
        /\ f \cap Guarded \subseteq flags[i]
        /\ "ALT_FD_DEV" \in flags[i] => "ALT_FD_DEV" \in f
  <2>1. CASE Unlock(i)
    <3> DEFINE f == flags[i] \ {"ALT_FD_EXCL"}
    <3>1. f \in SUBSET Flags /\ f \cap Guarded \subseteq flags[i]
      BY DEF IInv, TypeOK
    <3>2. flags' = [flags EXCEPT ![i] = f] /\ ("ALT_FD_DEV" \in flags[i] => "ALT_FD_DEV" \in f)
      BY <2>1 DEF Unlock
    <3> QED
      BY <3>1, <3>2
  <2>2. CASE \E arg \in SUBSET Flags : SetFl(i, arg)
    <3> PICK arg \in SUBSET Flags : SetFl(i, arg)
      BY <2>2
    <3> DEFINE f == (flags[i] \ Settable) \cup (arg \cap Settable)
    <3>1. f \in SUBSET Flags /\ f \cap Guarded \subseteq flags[i]
      BY DEF IInv, TypeOK, Guarded, Settable
    <3>2. flags' = [flags EXCEPT ![i] = f] /\ ("ALT_FD_DEV" \in flags[i] => "ALT_FD_DEV" \in f)
      BY DEF SetFl, Settable
    <3> QED
      BY <3>1, <3>2
  <2> QED
    BY <2>1, <2>2
<1>3. TypeOK'
  BY <1>1, <1>2 DEF IInv, TypeOK
<1>4. InPool' /\ StdTaken'
  BY <1>1 DEF IInv, InPool, StdTaken
<1>5. Marked' /\ ExclMarked'
  BY <1>1, <1>2 DEF IInv, TypeOK, Marked, ExclMarked, IsDevice, Excl, Guarded
<1>6. OneIntruder'
  BY <1>1, <1>2 DEF IInv, TypeOK, OneIntruder, Excl, Guarded
<1> QED
  BY <1>3, <1>4, <1>5, <1>6 DEF IInv

(***************************************************************************)
(* The pool under either caller.                                           *)
(***************************************************************************)
PoolNext ==
  \/ \E i \in Fds :
       \/ \E s \in Std, d \in Devs : Redirect(s, d, i)
       \/ \E d \in Devs, fl \in SUBSET Flags : Opened(d, fl, i) \/ OpenFailed(d, fl, i)
       \/ Close(i) \/ Lock(i) \/ Unlock(i)
       \/ \E arg \in SUBSET Flags : SetFl(i, arg)
  \/ \E s \in Std : Turn(s) /\ UNCHANGED <<pool, app>>

PoolSpec == Init /\ [][PoolNext]_vars

\* FdTable redirects to devices that exist.
LEMMA TableImplementsPool == Spec => PoolSpec
<1>1. [Next]_vars => [PoolNext]_vars
  <2>1. \A s \in Std : StdDev(s) \in Devs
    BY DEF StdDev
  <2> QED
    BY <2>1 DEF Next, PoolNext
<1> QED
  BY <1>1, PTL DEF Spec, PoolSpec

\* A name stands for one of the devices or for none.
LEMMA FoundType ==
  ASSUME fsList \in Seq(FileSystems), NEW path
  PROVE  Found(path) \in Devs \cup {NoDev}
<1> DEFINE name == Spelled(path)
<1>1. FoundFile(name) \in FileSystems \cup {NoDev}
  <2>1. CASE \E k \in DOMAIN fsList : FirstCover(k, name)
    <3> DEFINE c == CHOOSE k \in DOMAIN fsList : FirstCover(k, name)
    <3>1. c \in DOMAIN fsList
      BY <2>1
    <3>2. FoundFile(name) = fsList[c]
      BY <2>1 DEF FoundFile
    <3> HIDE DEF c
    <3>3. fsList[c] \in FileSystems
      BY <3>1
    <3> QED
      BY <3>2, <3>3
  <2>2. CASE ~\E k \in DOMAIN fsList : FirstCover(k, name)
    BY <2>2 DEF FoundFile
  <2> QED
    BY <2>1, <2>2
<1>2. CASE \E d \in CharDevs : IsDev(d, name)
  <2> DEFINE c == CHOOSE d \in CharDevs : IsDev(d, name)
  <2>1. c \in CharDevs
    BY <1>2
  <2>2. Found(path) = c
    BY <1>2 DEF Found
  <2> QED
    BY <2>1, <2>2
<1>3. CASE ~\E d \in CharDevs : IsDev(d, name)
  <2>1. Found(path) = FoundFile(name)
    BY <1>3 DEF Found
  <2> QED
    BY <1>1, <2>1
<1> QED
  BY <1>2, <1>3

\* alt_fs_reg() puts file systems on the list, and only before main().
LEMMA ListType ==
  ASSUME fsList \in Seq(FileSystems), [CallNext]_callVars
  PROVE  fsList' \in Seq(FileSystems)
<1>1. CASE \E f \in FileSystems : Register(f)
  <2> PICK f \in FileSystems : Register(f)
    BY <1>1
  <2>1. fsList' = <<f>> \o fsList
    BY DEF Register
  <2> QED
    BY <2>1
<1>2. CASE ~\E f \in FileSystems : Register(f)
  BY <1>2 DEF CallNext, callVars, RedirectUnknown, RedirectFound, Open
<1> QED
  BY <1>1, <1>2

\* FileCalls redirects to what it finds, and opens nothing else.
LEMMA CallsImplementPool == CallSpec => PoolSpec /\ [](fsList \in Seq(FileSystems))
<1>1. CallInit => Init /\ fsList \in Seq(FileSystems)
  BY DEF CallInit
<1>2. fsList \in Seq(FileSystems) /\ [CallNext]_callVars => (fsList \in Seq(FileSystems))'
  BY ListType
<1>3. fsList \in Seq(FileSystems) /\ [CallNext]_callVars => [PoolNext]_vars
  <2> SUFFICES ASSUME fsList \in Seq(FileSystems), CallNext
               PROVE  [PoolNext]_vars
    BY DEF callVars, vars
  <2>1. CASE \E f \in FileSystems : Register(f)
    BY <2>1 DEF Register
  <2>2. CASE \E s \in Std : RedirectUnknown(s)
    BY <2>2 DEF RedirectUnknown, PoolNext
  <2>3. ASSUME NEW s \in Std, NEW i \in Fds, RedirectFound(s, i)
        PROVE  PoolNext
    <3>1. Found(StdPath[s]) \in Devs
      BY <2>3, FoundType DEF RedirectFound
    <3> QED
      BY <2>3, <3>1 DEF RedirectFound, PoolNext
  <2>4. ASSUME NEW d \in Known, NEW fl \in SUBSET Flags, NEW i \in Free, Open(d, fl, i)
        PROVE  PoolNext
    <3>1. d \in Devs /\ i \in Fds
      BY FoundType DEF Known, Free
    <3> QED
      BY <2>4, <3>1 DEF Open, PoolNext
  <2>5. CASE \E i \in Fds : Call(i)
    BY <2>5 DEF Call, PoolNext
  <2> QED
    BY <2>1, <2>2, <2>3, <2>4, <2>5 DEF CallNext
<1> QED
  BY <1>1, <1>2, <1>3, PTL DEF CallSpec, PoolSpec

(***************************************************************************)
(* The theorems.                                                           *)
(***************************************************************************)
\* In every behaviour the inductive invariant holds.
THEOREM IInvCorrect == PoolSpec => []IInv
<1>1. Init => IInv
  BY InitIInv
<1>2. IInv /\ [PoolNext]_vars => IInv'
  <2> SUFFICES ASSUME IInv, [PoolNext]_vars PROVE IInv'
    OBVIOUS
  <2>1. ASSUME NEW i \in Fds, NEW s \in Std, NEW d \in Devs, Redirect(s, d, i) PROVE IInv'
    BY <2>1, RedirectIInv
  <2>2. ASSUME NEW i \in Fds, NEW d \in Devs, NEW fl \in SUBSET Flags,
               Opened(d, fl, i)
        PROVE  IInv'
    BY <2>2, OpenedIInv
  <2>3. ASSUME NEW i \in Fds, NEW d \in Devs, NEW fl \in SUBSET Flags,
               OpenFailed(d, fl, i)
        PROVE  IInv'
    <3>1. redirected' \in 0 .. 3
      BY <2>3 DEF OpenFailed, IInv, TypeOK
    <3> QED
      BY <2>3, <3>1, FailedIInv DEF OpenFailed, OpenFails
  <2>4. ASSUME NEW i \in Fds, Close(i) PROVE IInv'
    BY <2>4, CloseIInv
  <2>5. ASSUME NEW i \in Fds, Lock(i) PROVE IInv'
    BY <2>5, LockIInv
  <2>6. ASSUME NEW i \in Fds,
               Unlock(i) \/ \E arg \in SUBSET Flags : SetFl(i, arg)
        PROVE  IInv'
    BY <2>6, FlagsIInv
  <2>7. CASE UNCHANGED vars
    BY <2>7 DEF vars, IInv, TypeOK, InPool, StdTaken, Marked, ExclMarked,
                OneIntruder, IsDevice, Excl
  <2>8. ASSUME NEW s \in Std, Turn(s), UNCHANGED <<pool, app>> PROVE IInv'
    BY <2>8 DEF Turn, pool, app, IInv, TypeOK, InPool, StdTaken, Marked, ExclMarked,
                OneIntruder, IsDevice, Excl
  <2> QED
    BY <2>1, <2>2, <2>3, <2>4, <2>5, <2>6, <2>7, <2>8 DEF PoolNext
<1> QED
  BY <1>1, <1>2, PTL DEF PoolSpec

\* Either caller is the pool's.
LEMMA EitherIsPool == Spec \/ CallSpec => PoolSpec
BY TableImplementsPool, CallsImplementPool

\* Every variable of the pool and of the application keeps its type.
THEOREM TypeCorrect == Spec \/ CallSpec => []TypeOK
<1>1. IInv => TypeOK
  BY DEF IInv
<1> QED
  BY <1>1, EitherIsPool, IInvCorrect, PTL

\* Beside a locked descriptor at most one other refers to its device, and it
\* is a higher one: what alt_fd_lock() guarantees in spite of its bound.
THEOREM AtMostOneIntruder == Spec \/ CallSpec => []OneIntruder
<1>1. IInv => OneIntruder
  BY DEF IInv
<1> QED
  BY <1>1, EitherIsPool, IInvCorrect, PTL

\* No device is ever locked through two descriptors.
THEOREM SingleOwner == Spec \/ CallSpec => []OneOwner
<1>1. IInv => OneOwner
  <2> SUFFICES ASSUME OneIntruder, NEW i \in Fds, NEW k \in Fds,
                      Excl(i), Excl(k), dev[i] = dev[k], i # k
               PROVE  FALSE
    BY DEF IInv, OneOwner
  <2>1. k > i
    BY DEF OneIntruder
  <2>2. i > k
    BY DEF OneIntruder
  <2> QED
    BY <2>1, <2>2
<1> QED
  BY <1>1, EitherIsPool, IInvCorrect, PTL

(***************************************************************************)
(* What the application holds.  A slot open() fills is neither held nor    *)
(* locked, since PoolIsHeld and LockIsGranted say so of every free slot.   *)
(***************************************************************************)
Ledger == PoolIsHeld /\ LockIsGranted

\* A slot open() may take is neither held nor locked.
LEMMA FreeUnlocked ==
  ASSUME IInv, Ledger, NEW i \in Fds, FirstFree(i)
  PROVE  i \notin Std /\ held[i] = NoDev /\ i \notin locks
<1>1. i > 2 /\ dev[i] = NoDev
  BY FreeAboveStd
<1>2. ~Excl(i)
  BY <1>1 DEF IInv, Marked, ExclMarked
<1> QED
  BY <1>1, <1>2 DEF Ledger, PoolIsHeld, LockIsGranted

\* open() and alt_open_fd() touch the new slot and a standard stream only.
LEMMA OpenLedger ==
  ASSUME IInv, Ledger, NEW i \in Fds,
         \/ \E d \in Devs, fl \in SUBSET Flags : Opened(d, fl, i) \/ OpenFailed(d, fl, i)
         \/ \E s \in Std, d \in Devs : Redirect(s, d, i)
  PROVE  Ledger'
<1>1. ASSUME NEW d \in Devs, NEW fl \in SUBSET Flags, Opened(d, fl, i) PROVE Ledger'
  <2>1. /\ dev' = [dev EXCEPT ![i] = d]
        /\ flags' = [flags EXCEPT ![i] = FreshFlags(d, fl)]
        /\ held' = [held EXCEPT ![i] = d]
        /\ locks' = locks
    BY <1>1, OpenedEffect DEF Opened
  <2>2. "ALT_FD_EXCL" \notin FreshFlags(d, fl)
    BY FreshFlagsType
  <2>3. i \notin Std /\ i \notin locks
    BY <1>1, FreeUnlocked DEF Opened, OpenSucceeds
  <2> QED
    BY <2>1, <2>2, <2>3 DEF Ledger, PoolIsHeld, LockIsGranted, Excl, IInv, TypeOK
<1>2. ASSUME FirstFree(i), dev' = dev, flags' = [flags EXCEPT ![i] = {}],
             UNCHANGED <<held, locks>>
      PROVE  Ledger'
  <2>1. i \notin Std /\ i \notin locks
    BY <1>2, FreeUnlocked
  <2> QED
    BY <1>2, <2>1 DEF Ledger, PoolIsHeld, LockIsGranted, Excl, IInv, TypeOK
<1>3. ASSUME NEW d \in Devs, NEW fl \in SUBSET Flags, OpenFailed(d, fl, i) PROVE Ledger'
  <2>1. FirstFree(i) /\ Become(Released(Allocated(d, fl, i), i)) /\ UNCHANGED <<held, locks>>
    BY <1>3 DEF OpenFailed, OpenFails, app
  <2> QED
    BY <1>2, <2>1, FailedEffect
<1>4. ASSUME NEW s \in Std, NEW d \in Devs, Redirect(s, d, i) PROVE Ledger'
  <2> DEFINE fl == StdMode(s)
  <2>1. d \in Devs /\ fl \in SUBSET Flags /\ UNCHANGED <<held, locks>>
    BY <1>4 DEF StdMode, Flags, AccessMode, Redirect, app
  <2>2. CASE OpenFails(d, i) /\ Become(Released(Allocated(d, fl, i), i))
    BY <1>2, <2>1, <2>2, FailedEffect DEF OpenFails
  <2>3. CASE OpenSucceeds(d, i) /\ Become(Released(Copied(Allocated(d, fl, i), i, s), i))
    <3>1. /\ dev' = [dev EXCEPT ![s] = d]
          /\ flags' = [flags EXCEPT ![s] = FreshFlags(d, fl), ![i] = {}]
      BY <2>1, <2>3, RedirectEffect DEF OpenSucceeds
    <3>2. i \notin Std /\ i \notin locks /\ s # i
      BY <2>3, FreeUnlocked DEF OpenSucceeds
    <3> HIDE DEF fl
    <3>3. \A k \in Fds \ Std : dev'[k] = dev[k] /\ (Excl(k)' <=> k # i /\ Excl(k))
      BY <3>1, <3>2 DEF Excl, IInv, TypeOK
    <3> QED
      BY <2>1, <3>2, <3>3 DEF Ledger, PoolIsHeld, LockIsGranted
  <2> QED
    BY <1>4, <2>2, <2>3 DEF Redirect
<1> QED
  BY <1>1, <1>3, <1>4

\* The calls on one descriptor.
LEMMA CallLedger ==
  ASSUME IInv, Ledger, NEW i \in Fds,
         \/ Close(i) \/ Lock(i) \/ Unlock(i)
         \/ \E arg \in SUBSET Flags : SetFl(i, arg)
  PROVE  Ledger'
<1>1. CASE Close(i)
  <2>1. CASE i > 2
    BY <1>1, <2>1 DEF Close, Become, Released, Table, Ledger, PoolIsHeld, LockIsGranted,
                      Excl, IInv, TypeOK
  <2>2. CASE ~(i > 2)
    <3>1. dev' = dev /\ flags' = flags /\ held' = [held EXCEPT ![i] = NoDev] /\ locks' = locks \ {i}
      BY <1>1, <2>2 DEF Close, Become, Released, Table
    <3> QED
      BY <2>2, <3>1 DEF Ledger, PoolIsHeld, LockIsGranted, Excl, IInv, TypeOK
  <2> QED
    BY <2>1, <2>2
<1>2. CASE Lock(i)
  BY <1>2 DEF Lock, Ledger, PoolIsHeld, LockIsGranted, Excl, IInv, TypeOK
<1>3. CASE Unlock(i)
  BY <1>3 DEF Unlock, Ledger, PoolIsHeld, LockIsGranted, Excl, IInv, TypeOK
<1>4. CASE \E arg \in SUBSET Flags : SetFl(i, arg)
  BY <1>4 DEF SetFl, Settable, app, Ledger, PoolIsHeld, LockIsGranted, Excl, IInv, TypeOK
<1> QED
  BY <1>1, <1>2, <1>3, <1>4

\* The pool agrees with what the application holds and has been granted.
THEOREM LedgerCorrect == PoolSpec => []Ledger
<1>1. Init => Ledger
  BY DEF Init, Ledger, PoolIsHeld, LockIsGranted, Excl
<1>2. IInv /\ Ledger /\ [PoolNext]_vars => Ledger'
  <2> SUFFICES ASSUME IInv, Ledger, [PoolNext]_vars PROVE Ledger'
    OBVIOUS
  <2>1. CASE UNCHANGED vars
    BY <2>1 DEF vars, Ledger, PoolIsHeld, LockIsGranted, Excl
  <2>2. CASE \E s \in Std : Turn(s) /\ UNCHANGED <<pool, app>>
    BY <2>2 DEF pool, app, Ledger, PoolIsHeld, LockIsGranted, Excl
  <2>3. CASE PoolNext /\ ~\E s \in Std : Turn(s) /\ UNCHANGED <<pool, app>>
    BY <2>3, OpenLedger, CallLedger DEF PoolNext
  <2> QED
    BY <2>1, <2>2, <2>3
<1> QED
  BY <1>1, <1>2, IInvCorrect, PTL DEF PoolSpec

\* Nothing leaks and nothing is taken back: above the standard streams the pool
\* holds exactly what the application holds, through every failed open() and close().
THEOREM NothingLeaks == Spec \/ CallSpec => []PoolIsHeld
<1>1. Ledger => PoolIsHeld
  BY DEF Ledger
<1> QED
  BY <1>1, EitherIsPool, LedgerCorrect, PTL

\* A descriptor above the standard streams is locked exactly when its last
\* ioctl() was a granted TIOCEXCL: no flags given to open() or fcntl() forge or
\* lift a lock.
THEOREM LocksAreGranted == Spec \/ CallSpec => []LockIsGranted
<1>1. Ledger => LockIsGranted
  BY DEF Ledger
<1> QED
  BY <1>1, EitherIsPool, LedgerCorrect, PTL

(***************************************************************************)
(* The standard streams.  Until its turn comes a stream is on the null     *)
(* device with no flags; after it, StreamOK holds of it for good.  Nothing *)
(* is locked before main(), so the open() of a redirection is refused by   *)
(* no lock, only by a file system.                                         *)
(***************************************************************************)
Treated(s) == redirected > (IF s = 1 THEN 0 ELSE IF s = 0 THEN 1 ELSE 2)

NoLockYet == redirected < 3 => \A i \in Fds : ~Excl(i)

Streams ==
  /\ NoLockYet
  /\ \A s \in Std : IF Treated(s) THEN StreamOK(s) ELSE dev[s] = Null /\ flags[s] = {}

\* What a name stands for changes only with the list.
LEMMA FoundSame == ASSUME fsList' = fsList, NEW path PROVE Found(path)' = Found(path)
BY DEF Found, FoundFile, FirstCover

\* A turn treats its stream and no other.
LEMMA TurnTreats ==
  ASSUME TypeOK, NEW s \in Std, Turn(s)
  PROVE  /\ ~Treated(s) /\ Treated(s)'
         /\ \A t \in Std \ {s} : Treated(t)' <=> Treated(t)
<1>1. redirected \in 0 .. 2 /\ redirected' = redirected + 1
  BY DEF TypeOK, Turn
<1>2. CASE redirected = 0
  BY <1>1, <1>2 DEF Turn, Treated
<1>3. CASE redirected = 1
  BY <1>1, <1>3 DEF Turn, Treated
<1>4. CASE redirected = 2
  BY <1>1, <1>4 DEF Turn, Treated
<1> QED
  BY <1>1, <1>2, <1>3, <1>4

\* The stream whose turn it is, once the step is known to treat it well.
LEMMA TurnStreams ==
  ASSUME IInv, Streams, NEW s \in Std, Turn(s), fsList' = fsList, StreamOK(s)',
         \A t \in Std \ {s} : dev'[t] = dev[t] /\ flags'[t] = flags[t],
         \A k \in Fds : ~Excl(k)'
  PROVE  Streams'
<1>1. /\ Treated(s)'
      /\ \A t \in Std \ {s} : Treated(t)' <=> Treated(t)
  BY TurnTreats DEF IInv
<1>2. ASSUME NEW t \in Std \ {s}, StreamOK(t) PROVE StreamOK(t)'
  <2>1. Found(StdPath[t])' = Found(StdPath[t])
    BY FoundSame
  <2> QED
    BY <1>2, <2>1 DEF StreamOK, Readable, Writable
<1>3. \A t \in Std : IF Treated(t)' THEN StreamOK(t)' ELSE dev'[t] = Null /\ flags'[t] = {}
  BY <1>1, <1>2 DEF Streams
<1> QED
  BY <1>3 DEF Streams, NoLockYet

\* alt_io_redirect() finds nothing: the stream stays as it was.
LEMMA UnknownStreams ==
  ASSUME IInv, Streams, NEW s \in Std, RedirectUnknown(s)
  PROVE  Streams'
<1>1. /\ Turn(s) /\ UNCHANGED <<dev, flags, fsList>>
      /\ Found(StdPath[s]) = NoDev
  BY DEF RedirectUnknown, pool
<1>2. dev[s] = Null /\ flags[s] = {}
  BY <1>1, TurnTreats DEF Streams, IInv
<1>3. Found(StdPath[s])' = Found(StdPath[s])
  BY <1>1, FoundSame
<1>4. StreamOK(s)'
  BY <1>1, <1>2, <1>3 DEF StreamOK, Readable, Writable
<1>5. \A k \in Fds : ~Excl(k)'
  BY <1>1 DEF Streams, NoLockYet, Turn, Excl
<1> QED
  BY <1>1, <1>4, <1>5, TurnStreams

\* alt_io_redirect() finds a device: it is put in place, or it is a file
\* system that refuses to open the file.
LEMMA FoundStreams ==
  ASSUME IInv, Streams, fsList \in Seq(FileSystems),
         NEW s \in Std, NEW i \in Fds, RedirectFound(s, i)
  PROVE  Streams'
<1> PICK d \in Devs : d = Found(StdPath[s])
  BY FoundType DEF RedirectFound
<1>1. Turn(s) /\ Redirect(s, d, i) /\ fsList' = fsList
  BY DEF RedirectFound, Redirect
<1>2. /\ dev[s] = Null /\ flags[s] = {}
      /\ \A k \in Fds : ~Excl(k)
  BY <1>1, TurnTreats DEF Streams, IInv, NoLockYet, Turn
<1>3. Found(StdPath[s])' = d
  BY <1>1, FoundSame
<1> DEFINE fl == StdMode(s)
           f == FreshFlags(d, fl)
<1>4. /\ fl \in SUBSET Flags /\ "ALT_FD_EXCL" \notin f
      /\ "O_WRONLY" \in f <=> s # 0
  BY DEF StdMode, FreshFlags, Flags, Guarded, AccessMode
<1>5. CASE OpenFails(d, i) /\ Become(Released(Allocated(d, fl, i), i))
  <2>1. dev' = dev /\ flags' = [flags EXCEPT ![i] = {}] /\ i > 2
    BY <1>4, <1>5, FailedEffect, FreeAboveStd DEF OpenFails
  <2>2. d \notin CharDevs
    BY <1>2, <1>5 DEF OpenFails, Admitted, Locked, Excl
  <2>3. \A t \in Std : flags'[t] = flags[t]
    BY <2>1 DEF IInv, TypeOK
  <2>4. StreamOK(s)'
    BY <1>2, <1>3, <2>1, <2>2, <2>3 DEF StreamOK, Readable, Writable
  <2>5. \A k \in Fds : ~Excl(k)'
    BY <1>2, <2>1 DEF Excl, IInv, TypeOK
  <2> QED
    BY <1>1, <2>1, <2>3, <2>4, <2>5, TurnStreams
<1>6. CASE OpenSucceeds(d, i) /\ Become(Released(Copied(Allocated(d, fl, i), i, s), i))
  <2>1. /\ dev' = [dev EXCEPT ![s] = d]
        /\ flags' = [flags EXCEPT ![s] = f, ![i] = {}]
        /\ i > 2
    BY <1>4, <1>6, RedirectEffect, FreeAboveStd DEF OpenSucceeds
  <2> HIDE DEF fl, f
  <2>2. /\ dev'[s] = d /\ flags'[s] = f
        /\ \A t \in Std \ {s} : dev'[t] = dev[t] /\ flags'[t] = flags[t]
    BY <2>1 DEF IInv, TypeOK
  <2>3. StreamOK(s)'
    BY <1>3, <1>4, <2>2 DEF StreamOK, Readable, Writable
  <2>4. \A k \in Fds : ~Excl(k)'
    BY <1>2, <1>4, <2>1 DEF Excl, IInv, TypeOK
  <2> QED
    BY <1>1, <2>2, <2>3, <2>4, TurnStreams
<1> QED
  BY <1>1, <1>5, <1>6 DEF Redirect

\* After main() has started no call changes what a standard descriptor is on
\* or how it was opened.
LEMMA CallKeepsStd ==
  ASSUME IInv, Running, NEW i \in Fds,
         \/ \E d \in Devs, fl \in SUBSET Flags : Opened(d, fl, i) \/ OpenFailed(d, fl, i)
         \/ Call(i)
  PROVE  /\ redirected' = redirected
         /\ \A s \in Std : /\ dev'[s] = dev[s]
                           /\ "O_WRONLY" \in flags'[s] <=> "O_WRONLY" \in flags[s]
<1>1. ASSUME NEW d \in Devs, NEW fl \in SUBSET Flags, Opened(d, fl, i)
      PROVE  /\ redirected' = redirected
             /\ \A s \in Std : dev'[s] = dev[s] /\ flags'[s] = flags[s]
  <2>1. /\ dev' = [dev EXCEPT ![i] = d]
        /\ flags' = [flags EXCEPT ![i] = FreshFlags(d, fl)]
        /\ i > 2 /\ redirected' = redirected
    BY <1>1, OpenedEffect, FreeAboveStd DEF Opened, OpenSucceeds
  <2> QED
    BY <2>1 DEF IInv, TypeOK
<1>2. ASSUME NEW d \in Devs, NEW fl \in SUBSET Flags, OpenFailed(d, fl, i)
      PROVE  /\ redirected' = redirected
             /\ \A s \in Std : dev'[s] = dev[s] /\ flags'[s] = flags[s]
  <2>1. /\ dev' = dev /\ flags' = [flags EXCEPT ![i] = {}]
        /\ i > 2 /\ redirected' = redirected
    BY <1>2, FailedEffect, FreeAboveStd DEF OpenFailed, OpenFails
  <2> QED
    BY <2>1 DEF IInv, TypeOK
<1>3. CASE Close(i)
  <2>1. CASE i > 2
    BY <1>3, <2>1 DEF Close, Become, Released, Table, IInv, TypeOK
  <2>2. CASE ~(i > 2)
    BY <1>3, <2>2 DEF Close, Become, Released, Table
  <2> QED
    BY <2>1, <2>2
<1>4. CASE Lock(i)
  BY <1>4 DEF Lock, IInv, TypeOK
<1>5. CASE Unlock(i)
  BY <1>5 DEF Unlock, IInv, TypeOK
<1>6. CASE \E arg \in SUBSET Flags : SetFl(i, arg)
  BY <1>6 DEF SetFl, Settable, IInv, TypeOK
<1> QED
  BY <1>1, <1>2, <1>3, <1>4, <1>5, <1>6 DEF Call

LEMMA CallStreams ==
  ASSUME IInv, Streams, Running, fsList' = fsList, NEW i \in Fds,
         \/ \E d \in Devs, fl \in SUBSET Flags : Opened(d, fl, i) \/ OpenFailed(d, fl, i)
         \/ Call(i)
  PROVE  Streams'
<1>1. /\ redirected' = redirected
      /\ \A s \in Std : /\ dev'[s] = dev[s]
                        /\ "O_WRONLY" \in flags'[s] <=> "O_WRONLY" \in flags[s]
  BY CallKeepsStd
<1>2. \A s \in Std : Treated(s) /\ Treated(s)'
  BY <1>1 DEF Running, Treated
<1>3. ASSUME NEW s \in Std, StreamOK(s) PROVE StreamOK(s)'
  <2>1. Found(StdPath[s])' = Found(StdPath[s])
    BY FoundSame
  <2> QED
    BY <1>1, <1>3, <2>1 DEF StreamOK, Readable, Writable
<1>4. NoLockYet'
  BY <1>1 DEF NoLockYet, Running
<1> QED
  BY <1>2, <1>3, <1>4 DEF Streams

\* read() and write() on the standard streams reach the devices named for them,
\* whatever is opened, closed, locked or set; a stream whose file could not be
\* opened, or whose name is unknown, refuses both.
THEOREM StreamsReachDevices == CallSpec => []StreamsWork
<1>1. CallInit => Streams
  BY DEF CallInit, Init, Streams, NoLockYet, Treated, Excl
<1>2. /\ IInv /\ IInv' /\ Streams /\ fsList \in Seq(FileSystems)
      /\ [CallNext]_callVars
      => Streams'
  <2> SUFFICES ASSUME IInv, Streams, fsList \in Seq(FileSystems), [CallNext]_callVars
               PROVE  Streams'
    OBVIOUS
  <2>1. CASE UNCHANGED callVars
    <3>1. \A s \in Std : Found(StdPath[s])' = Found(StdPath[s])
      BY <2>1, FoundSame DEF callVars
    <3> QED
      BY <2>1, <3>1 DEF callVars, vars, Streams, NoLockYet, Treated, StreamOK, Excl,
                        Readable, Writable
  <2>2. CASE \E f \in FileSystems : Register(f)
    BY <2>2 DEF Register, vars, Streams, NoLockYet, Treated, Excl
  <2>3. CASE \E s \in Std : RedirectUnknown(s)
    BY <2>3, UnknownStreams
  <2>4. CASE \E s \in Std, i \in Fds : RedirectFound(s, i)
    BY <2>4, FoundStreams
  <2>5. ASSUME Running, NEW d \in Known, NEW fl \in SUBSET Flags, NEW i \in Free, Open(d, fl, i)
        PROVE  Streams'
    <3>1. d \in Devs /\ i \in Fds
      BY FoundType DEF Known, Free
    <3> QED
      BY <2>5, <3>1, CallStreams DEF Open
  <2>6. ASSUME NEW i \in Fds, Call(i), UNCHANGED fsList PROVE Streams'
    <3>1. Running
      BY <2>6 DEF Call, Close, Lock, Unlock, SetFl, Usable
    <3> QED
      BY <2>6, <3>1, CallStreams
  <2> QED
    BY <2>1, <2>2, <2>3, <2>4, <2>5, <2>6 DEF CallNext
<1>3. Streams => StreamsWork
  BY DEF Streams, StreamsWork, Treated, StreamOK, Running
<1> QED
  BY <1>1, <1>2, <1>3, CallsImplementPool, IInvCorrect, PTL DEF CallSpec

(***************************************************************************)
(* The names.  A name is laid out in its string component by component,    *)
(* each after a slash (Layout); so two strings agree up to a slash or a    *)
(* Nul exactly when the components do.  LeastNat takes the place of        *)
(* induction: of a statement that failed somewhere, the first failure.     *)
(***************************************************************************)
\* A set of numbers has a least one: induction, told of the first failure.
LEMMA LeastNat ==
  ASSUME NEW S \in SUBSET Nat, S # {}
  PROVE  \E m \in S : \A k \in S : m <= k
<1> DEFINE F == FiniteSubsetsOf(Nat)
           R == StrictSubsetOrdering(Nat)
           T == {1 .. d : d \in S}
<1>1. \A d \in Nat : 1 .. d \in F
  <2> SUFFICES ASSUME NEW d \in Nat PROVE 1 .. d \in F
    OBVIOUS
  <2>1. 1 .. d \subseteq Nat /\ IsFiniteSet(1 .. d)
    BY FS_Interval
  <2> QED
    BY <2>1 DEF FiniteSubsetsOf
<1>2. T \subseteq F /\ T # {}
  BY <1>1
<1>3. IsWellFoundedOn(R, F)
  BY FS_StrictSubsetOrderingWellFounded
<1> HIDE DEF F, R, T
<1>4. PICK x \in T : \A y \in T : ~(<<y, x>> \in R)
  BY <1>2, <1>3, WFMin
<1>5. PICK m \in S : x = 1 .. m
  BY <1>4 DEF T
<1>6. ASSUME NEW k \in S, k < m PROVE FALSE
  <2>1. 1 .. k \in T /\ 1 .. k \in SUBSET Nat /\ 1 .. m \in SUBSET Nat
    BY <1>6 DEF T
  <2>2. 1 .. k \subseteq 1 .. m /\ m \in 1 .. m /\ m \notin 1 .. k
    BY <1>6
  <2>3. <<1 .. k, 1 .. m>> \in R
    BY <2>1, <2>2 DEF R, StrictSubsetOrdering
  <2> QED
    BY <1>4, <1>5, <2>1, <2>3
<1>7. \A k \in S : m <= k
  BY <1>6
<1> QED
  BY <1>7

\* f joins the first parts of seqs, up to each of the first n.
Joins(f, seqs, n) ==
  f = [i \in 1 .. n |-> IF i = 1 THEN seqs[i] ELSE f[i - 1] \o seqs[i]]

LEMMA JoinsExists == ASSUME NEW seqs, NEW n \in Nat PROVE \E f : Joins(f, seqs, n)
<1> DEFINE S == {m \in Nat : ~\E f : Joins(f, seqs, m)}
<1> SUFFICES ASSUME S # {} PROVE FALSE
  OBVIOUS
<1>1. PICK m \in S : \A k \in S : m <= k
  BY LeastNat
<1>2. m # 0
  <2> SUFFICES ASSUME m = 0 PROVE FALSE
    OBVIOUS
  <2> DEFINE f == [i \in 1 .. 0 |-> seqs[i]]
  <2>1. 1 .. 0 = {}
    OBVIOUS
  <2>2. Joins(f, seqs, 0)
    BY <2>1 DEF Joins
  <2> QED
    BY <1>1, <2>2
<1>3. m - 1 \in Nat /\ m - 1 \notin S
  BY <1>1, <1>2
<1>4. PICK f : Joins(f, seqs, m - 1)
  BY <1>3
<1> DEFINE g == [i \in 1 .. m |-> IF i = m THEN (IF i = 1 THEN seqs[i] ELSE f[i - 1] \o seqs[i])
                                 ELSE f[i]]
<1>5. \A i \in 1 .. m : g[i] = IF i = 1 THEN seqs[i] ELSE g[i - 1] \o seqs[i]
  <2> SUFFICES ASSUME NEW i \in 1 .. m
               PROVE  g[i] = IF i = 1 THEN seqs[i] ELSE g[i - 1] \o seqs[i]
    OBVIOUS
  <2>1. CASE i = m
    <3>1. CASE i = 1
      BY <2>1, <3>1
    <3>2. CASE i # 1
      <4>1. i - 1 \in 1 .. m /\ i - 1 # m
        BY <2>1, <3>2
      <4> QED
        BY <2>1, <3>2, <4>1
    <3> QED
      BY <3>1, <3>2
  <2>2. CASE i # m
    <3>1. i \in 1 .. m - 1
      BY <2>2
    <3>2. f[i] = IF i = 1 THEN seqs[i] ELSE f[i - 1] \o seqs[i]
      BY <1>4, <3>1 DEF Joins
    <3>3. i # 1 => i - 1 \in 1 .. m /\ i - 1 # m
      BY <3>1
    <3> QED
      BY <2>2, <3>2, <3>3
  <2> QED
    BY <2>1, <2>2
<1>6. Joins(g, seqs, m)
  <2>1. g = [i \in 1 .. m |-> g[i]]
    OBVIOUS
  <2> HIDE DEF g
  <2> QED
    BY <1>5, <2>1, Zenon DEF Joins
<1> QED
  BY <1>1, <1>6

Chars == Letters \cup {Slash}

\* The first n components of path p are laid out in t, the i-th up to at[i].
Layout(p, t, at, n) ==
  /\ t \in Seq(Chars)
  /\ at \in [0 .. n -> Nat] /\ at[0] = 0 /\ at[n] = Len(t)
  /\ \A i \in 1 .. n :
       /\ at[i] = at[i - 1] + 1 + Len(p[i])
       /\ at[i] <= Len(t)
       /\ t[at[i - 1] + 1] = Slash
       /\ \A j \in 1 .. Len(p[i]) : t[at[i - 1] + 1 + j] = p[i][j]
  /\ \A k \in 1 .. Len(t) : \E i \in 1 .. n : at[i - 1] < k /\ k <= at[i]

LEMMA LayoutNone == ASSUME NEW p PROVE Layout(p, <<>>, [i \in 0 .. 0 |-> 0], 0)
<1> DEFINE at == [i \in 0 .. 0 |-> 0]
<1>1. at \in [0 .. 0 -> Nat] /\ at[0] = 0
  OBVIOUS
<1>2. 1 .. 0 = {} /\ Len(<<>>) = 0 /\ <<>> \in Seq(Chars)
  OBVIOUS
<1> HIDE DEF at
<1> QED
  BY <1>1, <1>2 DEF Layout

\* A component put behind a string.
LEMMA SlashJoined ==
  ASSUME NEW t \in Seq(Chars), NEW c \in Seq(Letters)
  PROVE  /\ <<Slash>> \o c \in Seq(Chars)
         /\ t \o (<<Slash>> \o c) \in Seq(Chars)
         /\ Len(t \o (<<Slash>> \o c)) = Len(t) + 1 + Len(c)
         /\ \A k \in 1 .. Len(t) : (t \o (<<Slash>> \o c))[k] = t[k]
         /\ (t \o (<<Slash>> \o c))[Len(t) + 1] = Slash
         /\ \A j \in 1 .. Len(c) : (t \o (<<Slash>> \o c))[Len(t) + 1 + j] = c[j]
<1> DEFINE w == <<Slash>> \o c
<1>1. /\ w \in Seq(Chars) /\ Len(w) = 1 + Len(c) /\ w[1] = Slash
      /\ \A j \in 1 .. Len(c) : w[1 + j] = c[j]
  <2>1. c \in Seq(Chars) /\ <<Slash>> \in Seq(Chars)
    BY DEF Chars
  <2> QED
    BY <2>1
<1> HIDE DEF w
<1> DEFINE u == t \o w
<1>2. /\ u \in Seq(Chars) /\ Len(u) = Len(t) + Len(w)
      /\ \A k \in 1 .. Len(t) : u[k] = t[k]
      /\ \A k \in 1 .. Len(w) : u[Len(t) + k] = w[k]
  BY <1>1
<1>3. Len(t) \in Nat /\ Len(c) \in Nat
  OBVIOUS
<1> HIDE DEF u
<1>4. ASSUME NEW j \in 1 .. Len(c) PROVE u[Len(t) + 1 + j] = c[j]
  <2>1. 1 + j \in 1 .. Len(w) /\ Len(t) + (1 + j) = Len(t) + 1 + j
    BY <1>1, <1>3
  <2>2. u[Len(t) + (1 + j)] = w[1 + j]
    BY <1>2, <2>1
  <2> QED
    BY <1>1, <2>1, <2>2
<1>5. u[Len(t) + 1] = Slash
  BY <1>1, <1>2, <1>3
<1> QED
  BY <1>1, <1>2, <1>3, <1>4, <1>5 DEF u, w

LEMMA LayoutStep ==
  ASSUME NEW p \in Names, NEW n \in Nat, n + 1 <= Len(p), NEW t, NEW at, Layout(p, t, at, n)
  PROVE  \E bt : Layout(p, t \o (<<Slash>> \o p[n + 1]), bt, n + 1)
<1>1. PICK c \in Seq(Letters) : c = p[n + 1]
  <2>1. n + 1 \in 1 .. Len(p) /\ p \in Seq(Seq(Letters))
    BY DEF Names
  <2> QED
    BY <2>1
<1>2. PICK l \in Nat : l = Len(c)
  OBVIOUS
<1>3. /\ t \in Seq(Chars)
      /\ at \in [0 .. n -> Nat] /\ at[0] = 0 /\ at[n] = Len(t)
  BY DEF Layout
<1>a. PICK a \in Nat : a = at[n]
  BY <1>3
<1>u. PICK u : u = t \o (<<Slash>> \o c)
  OBVIOUS
<1>4. /\ u \in Seq(Chars) /\ Len(u) = a + 1 + l
      /\ \A k \in 1 .. a : u[k] = t[k]
      /\ u[a + 1] = Slash
      /\ \A j \in 1 .. l : u[a + 1 + j] = c[j]
  BY <1>2, <1>3, <1>a, <1>u, SlashJoined
<1> DEFINE bt == [i \in 0 .. n + 1 |-> IF i = n + 1 THEN a + 1 + l ELSE at[i]]
<1>5. /\ bt \in [0 .. n + 1 -> Nat] /\ bt[0] = 0 /\ bt[n + 1] = a + 1 + l
      /\ \A i \in 0 .. n : bt[i] = at[i]
  BY <1>3
<1> HIDE DEF bt
<1>6. ASSUME NEW i \in 1 .. n + 1
      PROVE  /\ bt[i] = bt[i - 1] + 1 + Len(p[i])
             /\ bt[i] <= Len(u)
             /\ u[bt[i - 1] + 1] = Slash
             /\ \A j \in 1 .. Len(p[i]) : u[bt[i - 1] + 1 + j] = p[i][j]
  <2>1. CASE i = n + 1
    <3>1. bt[i - 1] = a /\ bt[i] = a + 1 + l /\ p[i] = c
      BY <1>1, <1>3, <1>a, <1>5, <2>1
    <3>2. Len(p[i]) = l
      BY <1>2, <3>1
    <3>3. bt[i] = bt[i - 1] + 1 + Len(p[i])
      BY <3>1, <3>2
    <3>4. bt[i] <= Len(u)
      BY <1>4, <3>1
    <3>5. u[bt[i - 1] + 1] = Slash
      BY <1>4, <3>1
    <3>6. \A j \in 1 .. Len(p[i]) : u[bt[i - 1] + 1 + j] = p[i][j]
      BY <1>4, <3>1, <3>2
    <3> QED
      BY <3>3, <3>4, <3>5, <3>6
  <2>2. CASE i # n + 1
    <3>1. i \in 1 .. n /\ i - 1 \in 0 .. n
      BY <2>2
    <3>2. /\ at[i] = at[i - 1] + 1 + Len(p[i]) /\ at[i] <= a
          /\ t[at[i - 1] + 1] = Slash
          /\ \A j \in 1 .. Len(p[i]) : t[at[i - 1] + 1 + j] = p[i][j]
      BY <1>3, <1>a, <3>1 DEF Layout
    <3>3. bt[i] = at[i] /\ bt[i - 1] = at[i - 1]
      BY <1>5, <3>1
    <3>4. PICK b \in Nat : b = at[i - 1]
      BY <1>3, <3>1
    <3>5. PICK h \in Nat : h = Len(p[i])
      <4>1. p[i] \in Seq(Letters)
        BY <3>1 DEF Names
      <4> QED
        BY <4>1
    <3>6. b + 1 + h <= a /\ at[i] = b + 1 + h
      BY <3>2, <3>4, <3>5
    <3>7. \A j \in 1 .. h : b + 1 + j \in 1 .. a
      BY <3>6
    <3>8. b + 1 \in 1 .. a
      BY <3>6
    <3>9. \A j \in 1 .. h : u[b + 1 + j] = p[i][j]
      BY <1>4, <3>2, <3>4, <3>5, <3>7
    <3>10. u[b + 1] = Slash
      BY <1>4, <3>2, <3>4, <3>8
    <3>11. at[i] <= Len(u)
      BY <1>4, <3>6
    <3> QED
      BY <3>2, <3>3, <3>4, <3>5, <3>9, <3>10, <3>11
  <2> QED
    BY <2>1, <2>2
<1>7. ASSUME NEW k \in 1 .. Len(u)
      PROVE  \E i \in 1 .. n + 1 : bt[i - 1] < k /\ k <= bt[i]
  <2>1. CASE k <= a
    <3>1. k \in 1 .. Len(t)
      BY <1>3, <1>a, <2>1
    <3>2. PICK i \in 1 .. n : at[i - 1] < k /\ k <= at[i]
      BY <3>1 DEF Layout
    <3>3. bt[i] = at[i] /\ bt[i - 1] = at[i - 1] /\ i \in 1 .. n + 1
      BY <1>5
    <3> QED
      BY <3>2, <3>3
  <2>2. CASE k > a
    <3>1. bt[(n + 1) - 1] = a /\ n + 1 \in 1 .. n + 1
      BY <1>3, <1>a, <1>5
    <3>2. k <= bt[n + 1]
      BY <1>4, <1>5, <3>1
    <3> QED
      BY <2>2, <3>1, <3>2
  <2> QED
    BY <2>1, <2>2
<1>8. Layout(p, u, bt, n + 1)
  BY <1>4, <1>5, <1>6, <1>7 DEF Layout
<1> QED
  BY <1>1, <1>8, <1>u

\* FlattenSeq joins all the parts.
LEMMA FlattenJoins ==
  ASSUME NEW seqs, Len(seqs) # 0, \E g : Joins(g, seqs, Len(seqs))
  PROVE  \E f : Joins(f, seqs, Len(seqs)) /\ Seqs!FlattenSeq(seqs) = f[Len(seqs)]
<1>1. PICK g : g = [i \in 1 .. Len(seqs) |-> IF i = 1 THEN seqs[i] ELSE g[i - 1] \o seqs[i]]
  BY DEF Joins
<1>2. \E f : /\ f = [i \in 1 .. Len(seqs) |-> IF i = 1 THEN seqs[i] ELSE f[i - 1] \o seqs[i]]
             /\ Seqs!FlattenSeq(seqs) = f[Len(seqs)]
  BY <1>1, Zenon DEF Seqs!FlattenSeq
<1> QED
  BY <1>2 DEF Joins

\* The spelling of a path is its layout.
LEMMA SpelledLayout == ASSUME NEW p \in Names PROVE \E at : Layout(p, Spelled(p), at, Len(p))
<1> PICK m \in Nat : m = Len(p)
  BY DEF Names
<1>s. PICK seqs : seqs = [k \in 1 .. Len(p) |-> <<Slash>> \o p[k]]
  OBVIOUS
<1>1. Spelled(p) = Seqs!FlattenSeq(seqs)
  BY <1>s DEF Spelled
<1>2. Len(seqs) = m
  BY <1>s
<1>3. CASE m = 0
  <2>1. seqs = <<>>
    BY <1>s, <1>3
  <2>2. Seqs!FlattenSeq(seqs) = seqs
    BY <1>2, <1>3 DEF Seqs!FlattenSeq
  <2> QED
    BY <1>1, <1>3, <2>1, <2>2, LayoutNone
<1>4. CASE m # 0
  <2>1. PICK f : Joins(f, seqs, m) /\ Seqs!FlattenSeq(seqs) = f[m]
    BY <1>2, <1>4, JoinsExists, FlattenJoins
  <2>2. \A n \in 1 .. m : /\ seqs[n] = <<Slash>> \o p[n]
                          /\ f[n] = IF n = 1 THEN seqs[n] ELSE f[n - 1] \o seqs[n]
    BY <1>s, <2>1 DEF Joins
  <2> DEFINE S == {n \in 1 .. m : ~\E at : Layout(p, f[n], at, n)}
  <2>3. S = {}
    <3> SUFFICES ASSUME S # {} PROVE FALSE
      OBVIOUS
    <3>1. PICK n \in S : \A k \in S : n <= k
      <4>1. S \in SUBSET Nat
        OBVIOUS
      <4> HIDE DEF S
      <4> QED
        BY <4>1, LeastNat
    <3>2. n \in 1 .. m /\ ~\E at : Layout(p, f[n], at, n)
      OBVIOUS
    <3>3. \A k \in 1 .. m : k < n => \E at : Layout(p, f[k], at, k)
      BY <3>1, <3>2
    <3> HIDE DEF S
    <3>4. CASE n = 1
      <4>1. f[n] = <<Slash>> \o p[n]
        BY <2>2, <3>2, <3>4
      <4>2. 0 \in Nat /\ 0 + 1 <= Len(p) /\ 0 + 1 = n
        BY <3>2, <3>4
      <4>3. \E at : Layout(p, <<>> \o (<<Slash>> \o p[n]), at, n)
        BY <4>2, LayoutNone, LayoutStep
      <4>4. <<Slash>> \o p[n] \in Seq(Chars)
        <5>1. p[n] \in Seq(Letters) /\ <<>> \in Seq(Chars)
          BY <3>2 DEF Names
        <5> QED
          BY <5>1, SlashJoined
      <4>5. <<>> \o (<<Slash>> \o p[n]) = <<Slash>> \o p[n]
        BY <4>4, ConcatEmptySeq
      <4> QED
        BY <3>2, <4>1, <4>3, <4>5
    <3>5. CASE n # 1
      <4>1. PICK k \in Nat : k = n - 1 /\ k \in 1 .. m /\ k < n /\ k + 1 = n /\ k + 1 <= Len(p)
        BY <3>2, <3>5
      <4>2. PICK at : Layout(p, f[k], at, k)
        BY <3>3, <4>1
      <4>3. \E bt : Layout(p, f[k] \o (<<Slash>> \o p[k + 1]), bt, k + 1)
        BY <4>1, <4>2, LayoutStep
      <4>4. f[n] = f[k] \o (<<Slash>> \o p[n])
        BY <2>2, <3>2, <3>5, <4>1
      <4> QED
        BY <3>2, <4>1, <4>3, <4>4
    <3> QED
      BY <3>4, <3>5
  <2>4. m \in 1 .. m
    BY <1>4
  <2> QED
    BY <1>1, <2>1, <2>3, <2>4
<1> QED
  BY <1>3, <1>4

\* One component of a spelling, and what comes after it.
LEMMA Component ==
  ASSUME NEW p \in Names, NEW t, NEW at, Layout(p, t, at, Len(p)), NEW n \in 1 .. Len(p)
  PROVE  /\ p[n] \in Seq(Letters) /\ at[n - 1] \in Nat /\ at[n] \in Nat
         /\ at[n] = at[n - 1] + 1 + Len(p[n]) /\ at[n] <= Len(t)
         /\ Char(t, at[n - 1] + 1) = Slash
         /\ \A j \in 1 .. Len(p[n]) : Char(t, at[n - 1] + 1 + j) = p[n][j]
         /\ Char(t, at[n] + 1) \in {Slash, Nul}
<1>0. p \in Seq(Seq(Letters)) /\ Len(p) \in Nat /\ n \in Nat
  BY DEF Names
<1>1. p[n] \in Seq(Letters)
  BY <1>0
<1>2. /\ at \in [0 .. Len(p) -> Nat] /\ Len(t) \in Nat /\ at[Len(p)] = Len(t)
      /\ \A i \in 1 .. Len(p) :
           /\ at[i] = at[i - 1] + 1 + Len(p[i]) /\ at[i] <= Len(t)
           /\ t[at[i - 1] + 1] = Slash
           /\ \A j \in 1 .. Len(p[i]) : t[at[i - 1] + 1 + j] = p[i][j]
  BY DEF Layout
<1>3. PICK a \in Nat : a = at[n - 1]
  <2>1. n - 1 \in 0 .. Len(p)
    BY <1>0
  <2> QED
    BY <1>2, <2>1
<1>4. PICK h \in Nat : h = Len(p[n])
  BY <1>1
<1>5. at[n] = a + 1 + h /\ a + 1 + h <= Len(t)
  BY <1>2, <1>3, <1>4
<1>6. Char(t, a + 1) = Slash
  BY <1>2, <1>3, <1>5 DEF Char
<1>7. ASSUME NEW j \in 1 .. h PROVE Char(t, a + 1 + j) = p[n][j]
  <2>1. a + 1 + j <= Len(t)
    BY <1>2, <1>5
  <2>2. t[a + 1 + j] = p[n][j]
    BY <1>2, <1>3, <1>4
  <2> QED
    BY <2>1, <2>2 DEF Char
<1>8. Char(t, at[n] + 1) \in {Slash, Nul}
  <2>1. CASE n = Len(p)
    <3>1. ~(at[n] + 1 <= Len(t))
      BY <1>2, <2>1
    <3> QED
      BY <3>1 DEF Char
  <2>2. CASE n # Len(p)
    <3>1. PICK m \in 1 .. Len(p) : m = n + 1 /\ m - 1 = n
      BY <1>0, <2>2
    <3>2. at[m] = at[n] + 1 + Len(p[m]) /\ at[m] <= Len(t) /\ t[at[n] + 1] = Slash
      BY <1>2, <3>1
    <3>3. p[m] \in Seq(Letters)
      BY <1>0
    <3>4. Len(p[m]) \in Nat /\ at[n] \in Nat
      BY <1>2, <1>0, <3>3
    <3>5. at[n] + 1 <= Len(t)
      BY <1>2, <3>2, <3>4
    <3> QED
      BY <3>2, <3>5 DEF Char
  <2> QED
    BY <2>1, <2>2
<1> QED
  BY <1>1, <1>3, <1>4, <1>5, <1>6, <1>7, <1>8

\* What alt_find_file() compares: t agrees with s up to the end of s, and goes
\* on with a slash or ends there.
Same(s, t) ==
  /\ \A k \in 1 .. Len(s) : Char(s, k) = Char(t, k)
  /\ Char(t, Len(s) + 1) \in {Slash, Nul}

Prefix(p, q) == Len(p) <= Len(q) /\ \A k \in 1 .. Len(p) : p[k] = q[k]

\* Where two spellings agree and so far have the same components, they have
\* the next one in common as well.
LEMMA NextComponent ==
  ASSUME NEW p \in Names, NEW s, NEW at, Layout(p, s, at, Len(p)),
         NEW q \in Names, NEW t, NEW bt, Layout(q, t, bt, Len(q)),
         Same(s, t),
         NEW n \in 1 .. Len(p), n - 1 <= Len(q), at[n - 1] = bt[n - 1]
  PROVE  n <= Len(q) /\ at[n] = bt[n] /\ p[n] = q[n]
<1>0. Len(p) \in Nat /\ Len(q) \in Nat /\ n \in Nat
  BY DEF Names
<1>1. /\ p[n] \in Seq(Letters) /\ at[n - 1] \in Nat /\ at[n] \in Nat
      /\ at[n] = at[n - 1] + 1 + Len(p[n]) /\ at[n] <= Len(s)
      /\ Char(s, at[n - 1] + 1) = Slash
      /\ \A j \in 1 .. Len(p[n]) : Char(s, at[n - 1] + 1 + j) = p[n][j]
      /\ Char(s, at[n] + 1) \in {Slash, Nul}
  BY Component
<1>2. PICK a \in Nat : a = at[n - 1] /\ a = bt[n - 1]
  BY <1>1
<1>3. PICK x \in Nat : x = Len(p[n])
  BY <1>1
<1>4. Len(s) \in Nat /\ Len(t) \in Nat /\ at[Len(p)] = Len(s) /\ bt[Len(q)] = Len(t)
  BY DEF Layout
<1>5. a + 1 + x <= Len(s) /\ at[n] = a + 1 + x
  BY <1>1, <1>2, <1>3
<1>6. Slash # Nul /\ Slash \notin Letters /\ Nul \notin Letters
  BY NamesAssumption DEF Slash, Nul
<1>7. Char(t, a + 1) = Slash
  <2>1. a + 1 \in 1 .. Len(s)
    BY <1>4, <1>5
  <2> QED
    BY <1>1, <1>2, <2>1 DEF Same
<1>8. n <= Len(q)
  <2> SUFFICES ASSUME n - 1 = Len(q) PROVE FALSE
    BY <1>0
  <2>1. a = Len(t)
    BY <1>2, <1>4
  <2>2. Char(t, a + 1) = Nul
    BY <2>1, <1>4 DEF Char
  <2> QED
    BY <1>6, <1>7, <2>2
<1>9. /\ q[n] \in Seq(Letters)
      /\ bt[n] = bt[n - 1] + 1 + Len(q[n]) /\ bt[n] <= Len(t)
      /\ \A j \in 1 .. Len(q[n]) : Char(t, bt[n - 1] + 1 + j) = q[n][j]
      /\ Char(t, bt[n] + 1) \in {Slash, Nul}
  <2>1. n \in 1 .. Len(q)
    BY <1>0, <1>8
  <2> QED
    BY <2>1, Component
<1>10. PICK y \in Nat : y = Len(q[n])
  BY <1>9
<1>11. bt[n] = a + 1 + y
  BY <1>2, <1>9, <1>10
<1>12. \A j \in 1 .. x : Char(s, a + 1 + j) = p[n][j] /\ p[n][j] \in Letters
  BY <1>1, <1>2, <1>3
<1>13. \A j \in 1 .. y : Char(t, a + 1 + j) = q[n][j] /\ q[n][j] \in Letters
  BY <1>2, <1>9, <1>10
<1>14. \A j \in 1 .. x : Char(s, a + 1 + j) = Char(t, a + 1 + j)
  <2>1. \A j \in 1 .. x : a + 1 + j \in 1 .. Len(s)
    BY <1>4, <1>5
  <2> QED
    BY <2>1 DEF Same
<1>15. ~(x < y)
  <2> SUFFICES ASSUME x < y PROVE FALSE
    OBVIOUS
  <2>1. x + 1 \in 1 .. y /\ a + 1 + (x + 1) = at[n] + 1
    BY <1>5
  <2>2. Char(t, at[n] + 1) \in Letters
    BY <1>13, <2>1
  <2>3. CASE at[n] = Len(s)
    BY <1>6, <2>2, <2>3 DEF Same
  <2>4. CASE at[n] # Len(s)
    <3>1. at[n] + 1 \in 1 .. Len(s)
      BY <1>1, <1>4, <2>4
    <3>2. Char(s, at[n] + 1) \in Letters
      BY <2>2, <3>1 DEF Same
    <3> QED
      BY <1>1, <1>6, <3>2
  <2> QED
    BY <2>3, <2>4
<1>16. ~(y < x)
  <2> SUFFICES ASSUME y < x PROVE FALSE
    OBVIOUS
  <2>1. y + 1 \in 1 .. x /\ a + 1 + (y + 1) = bt[n] + 1
    BY <1>11
  <2>2. Char(t, bt[n] + 1) \in Letters
    BY <1>12, <1>14, <2>1
  <2> QED
    BY <1>6, <1>9, <2>2
<1>17. x = y
  BY <1>15, <1>16
<1>18. \A j \in 1 .. x : p[n][j] = q[n][j]
  BY <1>12, <1>13, <1>14, <1>17
<1>19. p[n] = q[n]
  BY <1>1, <1>3, <1>9, <1>10, <1>17, <1>18, SeqEqual
<1> QED
  BY <1>5, <1>8, <1>11, <1>17, <1>19

\* Equal characters come from equal components.
LEMMA SameIsPrefix ==
  ASSUME NEW p \in Names, NEW s, NEW at, Layout(p, s, at, Len(p)),
         NEW q \in Names, NEW t, NEW bt, Layout(q, t, bt, Len(q)),
         Same(s, t)
  PROVE  Prefix(p, q)
<1> DEFINE P(n) == n <= Len(q) /\ at[n] = bt[n] /\ \A k \in 1 .. n : p[k] = q[k]
           S == {n \in 0 .. Len(p) : ~P(n)}
<1>0. Len(p) \in Nat /\ Len(q) \in Nat
  BY DEF Names
<1>1. S = {}
  <2> SUFFICES ASSUME S # {} PROVE FALSE
    OBVIOUS
  <2>1. PICK n \in S : \A k \in S : n <= k
    <3>1. S \in SUBSET Nat
      BY <1>0
    <3> HIDE DEF S
    <3> QED
      BY <3>1, LeastNat
  <2>2. n \in 0 .. Len(p) /\ ~P(n)
    OBVIOUS
  <2>3. \A k \in 0 .. Len(p) : k < n => P(k)
    BY <1>0, <2>1, <2>2
  <2> HIDE DEF S
  <2>4. P(0)
    BY <1>0 DEF Layout
  <2>5. n \in 1 .. Len(p)
    BY <1>0, <2>2, <2>4
  <2>6. P(n - 1)
    BY <1>0, <2>3, <2>5
  <2>7. n <= Len(q) /\ at[n] = bt[n] /\ p[n] = q[n]
    BY <2>5, <2>6, NextComponent
  <2>8. \A k \in 1 .. n : k \in 1 .. n - 1 \/ k = n
    BY <1>0, <2>5
  <2> QED
    BY <2>2, <2>6, <2>7, <2>8
<1>2. P(Len(p))
  BY <1>0, <1>1
<1> QED
  BY <1>2 DEF Prefix

\* Equal components are laid out alike.
LEMMA PrefixIsSame ==
  ASSUME NEW p \in Names, NEW s, NEW at, Layout(p, s, at, Len(p)),
         NEW q \in Names, NEW t, NEW bt, Layout(q, t, bt, Len(q)),
         Prefix(p, q)
  PROVE  Same(s, t)
<1> DEFINE S == {n \in 0 .. Len(p) : at[n] # bt[n]}
<1>0. Len(p) \in Nat /\ Len(q) \in Nat /\ Len(p) <= Len(q)
  BY DEF Names, Prefix
<1>1. S = {}
  <2> SUFFICES ASSUME S # {} PROVE FALSE
    OBVIOUS
  <2>1. PICK n \in S : \A k \in S : n <= k
    <3>1. S \in SUBSET Nat
      BY <1>0
    <3> HIDE DEF S
    <3> QED
      BY <3>1, LeastNat
  <2>2. n \in 0 .. Len(p) /\ at[n] # bt[n]
    OBVIOUS
  <2>3. \A k \in 0 .. Len(p) : k < n => at[k] = bt[k]
    BY <1>0, <2>1, <2>2
  <2> HIDE DEF S
  <2>4. n \in 1 .. Len(p) /\ n \in 1 .. Len(q)
    BY <1>0, <2>2 DEF Layout
  <2>5. at[n - 1] = bt[n - 1]
    BY <1>0, <2>3, <2>4
  <2>6. at[n] = at[n - 1] + 1 + Len(p[n]) /\ bt[n] = bt[n - 1] + 1 + Len(q[n])
    BY <2>4 DEF Layout
  <2>7. p[n] = q[n]
    BY <2>4 DEF Prefix
  <2> QED
    BY <2>2, <2>5, <2>6, <2>7
<1>2. \A n \in 0 .. Len(p) : at[n] = bt[n]
  BY <1>1
<1>3. Len(s) \in Nat /\ Len(t) \in Nat /\ at[Len(p)] = Len(s) /\ bt[Len(q)] = Len(t)
  BY DEF Layout
<1>4. ASSUME NEW k \in 1 .. Len(s) PROVE Char(s, k) = Char(t, k)
  <2>1. PICK n \in 1 .. Len(p) : at[n - 1] < k /\ k <= at[n]
    BY DEF Layout
  <2>2. n \in 1 .. Len(q) /\ n - 1 \in 0 .. Len(p) /\ p[n] = q[n]
    BY <1>0 DEF Prefix
  <2>3. /\ p[n] \in Seq(Letters) /\ at[n - 1] \in Nat
        /\ at[n] = at[n - 1] + 1 + Len(p[n])
        /\ Char(s, at[n - 1] + 1) = Slash
        /\ \A j \in 1 .. Len(p[n]) : Char(s, at[n - 1] + 1 + j) = p[n][j]
    BY Component
  <2>4. /\ Char(t, at[n - 1] + 1) = Slash
        /\ \A j \in 1 .. Len(p[n]) : Char(t, at[n - 1] + 1 + j) = p[n][j]
    <3>1. /\ Char(t, bt[n - 1] + 1) = Slash
          /\ \A j \in 1 .. Len(q[n]) : Char(t, bt[n - 1] + 1 + j) = q[n][j]
      BY <2>2, Component
    <3>2. bt[n - 1] = at[n - 1]
      BY <1>2, <2>2
    <3> QED
      BY <2>2, <3>1, <3>2
  <2>5. PICK a \in Nat : a = at[n - 1]
    BY <2>3
  <2>6. PICK h \in Nat : h = Len(p[n])
    BY <2>3
  <2>7. a < k /\ k <= a + 1 + h
    BY <2>1, <2>3, <2>5, <2>6
  <2>8. CASE k = a + 1
    BY <2>3, <2>4, <2>5, <2>8
  <2>9. CASE k # a + 1
    <3>1. PICK j \in 1 .. h : k = a + 1 + j
      <4>1. k - (a + 1) \in 1 .. h /\ k = a + 1 + (k - (a + 1))
        BY <1>3, <2>7, <2>9
      <4> QED
        BY <4>1
    <3> QED
      BY <2>3, <2>4, <2>5, <2>6, <3>1
  <2> QED
    BY <2>8, <2>9
<1>5. Char(t, Len(s) + 1) \in {Slash, Nul}
  <2>1. bt[Len(p)] = Len(s)
    BY <1>0, <1>2, <1>3
  <2>2. CASE Len(p) = 0
    <3>1. Len(s) = 0
      BY <1>3, <2>2 DEF Layout
    <3>2. CASE Len(q) = 0
      <4>1. Len(t) = 0
        BY <1>3, <3>2 DEF Layout
      <4> QED
        BY <3>1, <4>1 DEF Char
    <3>3. CASE Len(q) # 0
      <4>1. 1 \in 1 .. Len(q)
        BY <1>0, <3>3
      <4>2. Char(t, bt[1 - 1] + 1) = Slash
        BY <4>1, Component
      <4>3. bt[1 - 1] = 0
        BY DEF Layout
      <4> QED
        BY <3>1, <4>2, <4>3
    <3> QED
      BY <3>2, <3>3
  <2>3. CASE Len(p) # 0
    <3>1. Len(p) \in 1 .. Len(q)
      BY <1>0, <2>3
    <3>2. Char(t, bt[Len(p)] + 1) \in {Slash, Nul}
      BY <3>1, Component
    <3> QED
      BY <2>1, <3>2
  <2> QED
    BY <2>2, <2>3
<1> QED
  BY <1>4, <1>5 DEF Same

\* alt_find_dev() compares whole names, which are equal as their paths are.
LEMMA DevByPath ==
  ASSUME NEW d \in CharDevs, NEW path \in Names
  PROVE  IsDev(d, Spelled(path)) <=> DevPath[d] = path
<1> PICK p \in Names : p = DevPath[d]
  BY NamesAssumption
<1>1. ASSUME Spelled(p) = Spelled(path) PROVE p = path
  <2>1. PICK at : Layout(p, Spelled(p), at, Len(p))
    BY SpelledLayout
  <2>2. PICK bt : Layout(path, Spelled(path), bt, Len(path))
    BY SpelledLayout
  <2>3. Len(Spelled(p)) \in Nat
    BY <2>1 DEF Layout
  <2>4. Char(Spelled(p), Len(Spelled(p)) + 1) = Nul
    BY <2>3 DEF Char
  <2>5. Same(Spelled(p), Spelled(path)) /\ Same(Spelled(path), Spelled(p))
    BY <1>1, <2>4 DEF Same
  <2>6. Prefix(p, path) /\ Prefix(path, p)
    BY <2>1, <2>2, <2>5, SameIsPrefix
  <2> QED
    BY <2>6, SeqEqual DEF Prefix, Names
<1> QED
  BY <1>1 DEF IsDev

\* The comparison with a mount point stops where its components end, at the
\* final slash or at the Nul.
LEMMA StopAtEnd ==
  ASSUME NEW f \in FileSystems
  PROVE  LET s == Spelled(MountPath[f]) IN
         /\ Len(s) \in Nat
         /\ Stop(MountName(f)) = Len(s) + 1
         /\ \A k \in 1 .. Len(s) : Char(MountName(f), k) = Char(s, k)
<1> PICK p \in Names : p = MountPath[f]
  BY NamesAssumption
<1> PICK s : s = Spelled(p)
  OBVIOUS
<1> PICK m : m = MountName(f)
  OBVIOUS
<1>1. PICK at : Layout(p, s, at, Len(p))
  BY SpelledLayout
<1>2. s \in Seq(Chars) /\ Len(s) \in Nat /\ Len(p) \in Nat
  BY <1>1 DEF Layout, Names
<1>3. Slash # Nul /\ Slash \notin Letters /\ Nul \notin Letters
  BY NamesAssumption DEF Slash, Nul
<1>4. /\ m = s /\ f \notin Slashed /\ p # <<>>
      \/ /\ m \in Seq(Chars) /\ Len(m) = Len(s) + 1 /\ m[Len(s) + 1] = Slash
         /\ \A k \in 1 .. Len(s) : m[k] = s[k]
  <2>1. CASE f \in Slashed
    <3>1. m = s \o <<Slash>>
      BY <2>1 DEF MountName
    <3>2. <<Slash>> \in Seq(Chars)
      BY DEF Chars
    <3> QED
      BY <1>2, <3>1, <3>2
  <2>2. CASE f \notin Slashed
    <3>1. m = s \o <<>>
      BY <2>2 DEF MountName
    <3>2. m = s
      BY <1>2, <3>1, ConcatEmptySeq
    <3> QED
      BY <2>2, <3>2, NamesAssumption
  <2> QED
    BY <2>1, <2>2
<1>5. \A k \in 1 .. Len(s) : Char(m, k) = s[k] /\ Char(s, k) = s[k] /\ s[k] # Nul
  <2>1. \A k \in 1 .. Len(s) : s[k] \in Chars
    BY <1>2
  <2> QED
    BY <1>2, <1>3, <1>4, <2>1 DEF Char, Chars
<1>6. s # <<>> => s[Len(s)] \in Letters
  <2> SUFFICES ASSUME s # <<>> PROVE s[Len(s)] \in Letters
    OBVIOUS
  <2>1. Len(s) # 0
    BY <1>2
  <2>2. Len(p) # 0
    BY <1>1, <1>2, <2>1 DEF Layout
  <2>3. PICK n \in 1 .. Len(p) : n = Len(p)
    BY <1>2, <2>2
  <2>4. /\ p[n] \in Seq(Letters) /\ p[n] # <<>>
        /\ at[n] = at[n - 1] + 1 + Len(p[n]) /\ at[n - 1] \in Nat
        /\ \A j \in 1 .. Len(p[n]) : Char(s, at[n - 1] + 1 + j) = p[n][j]
    BY <1>1, Component, NamesAssumption
  <2>5. PICK h \in Nat : h = Len(p[n]) /\ h # 0
    BY <2>4
  <2>6. Char(s, at[n - 1] + 1 + h) = p[n][h] /\ p[n][h] \in Letters
    <3>1. h \in 1 .. Len(p[n])
      BY <2>5
    <3> QED
      BY <2>4, <3>1
  <2>7. at[n - 1] + 1 + h = Len(s)
    BY <1>1, <2>3, <2>4, <2>5 DEF Layout
  <2> QED
    BY <1>2, <2>1, <2>6, <2>7 DEF Char
<1>7. \A k \in 1 .. Len(s) : ~Ends(m, k)
  <2> SUFFICES ASSUME NEW k \in 1 .. Len(s), Ends(m, k) PROVE FALSE
    OBVIOUS
  <2>1. s[k] = Slash /\ Char(m, k + 1) = Nul
    BY <1>5 DEF Ends
  <2>2. CASE k = Len(s)
    <3>1. s # <<>>
      BY <1>2
    <3> QED
      BY <1>3, <1>6, <2>1, <2>2, <3>1
  <2>3. CASE k # Len(s)
    <3>1. k + 1 \in 1 .. Len(s)
      BY <1>2, <2>3
    <3> QED
      BY <1>5, <2>1, <3>1
  <2> QED
    BY <2>2, <2>3
<1>8. Ends(m, Len(s) + 1) /\ Len(s) + 1 \in 1 .. Len(m) + 1
  <2>1. CASE m = s
    BY <1>2, <2>1 DEF Ends, Char
  <2>2. CASE m \in Seq(Chars) /\ Len(m) = Len(s) + 1 /\ m[Len(s) + 1] = Slash
    BY <1>2, <2>2 DEF Ends, Char
  <2> QED
    BY <1>4, <2>1, <2>2
<1>9. Stop(m) = Len(s) + 1
  <2> DEFINE Q(k) == k \in 1 .. Len(m) + 1 /\ Ends(m, k) /\ \A l \in 1 .. k - 1 : ~Ends(m, l)
  <2>1. Q(Len(s) + 1)
    BY <1>2, <1>7, <1>8
  <2>2. ASSUME NEW k, Q(k) PROVE k = Len(s) + 1
    <3>1. k \in Int /\ k >= 1
      <4>1. Len(m) + 1 \in Int
        BY <1>2, <1>4
      <4> QED
        BY <2>2, <4>1
    <3>2. ~(k <= Len(s))
      BY <1>2, <1>7, <2>2, <3>1
    <3>3. ~(Len(s) + 1 < k)
      BY <1>2, <1>8, <2>2, <3>1
    <3> QED
      BY <1>2, <3>1, <3>2, <3>3
  <2>3. Stop(m) = CHOOSE k \in 1 .. Len(m) + 1 : Ends(m, k) /\ \A l \in 1 .. k - 1 : ~Ends(m, l)
    BY DEF Stop
  <2>4. Q(Stop(m))
    BY <2>1, <2>3
  <2> QED
    BY <2>2, <2>4
<1> QED
  BY <1>2, <1>5, <1>9

\* alt_find_file() takes a file system whose mount point contains the name.
LEMMA CoversIsMounted ==
  ASSUME NEW f \in FileSystems, NEW path \in Names
  PROVE  Covers(MountName(f), Spelled(path)) <=> Mounted(f, path)
<1> PICK p \in Names : p = MountPath[f]
  BY NamesAssumption
<1> PICK s : s = Spelled(p)
  OBVIOUS
<1> PICK t : t = Spelled(path)
  OBVIOUS
<1>1. PICK at : Layout(p, s, at, Len(p))
  BY SpelledLayout
<1>2. PICK bt : Layout(path, t, bt, Len(path))
  BY SpelledLayout
<1>3. Covers(MountName(f), t) <=> Same(s, t)
  <2>1. /\ Len(s) \in Nat /\ Stop(MountName(f)) = Len(s) + 1
        /\ \A k \in 1 .. Len(s) : Char(MountName(f), k) = Char(s, k)
    BY StopAtEnd
  <2>2. Stop(MountName(f)) - 1 = Len(s)
    BY <2>1
  <2> QED
    BY <2>1, <2>2 DEF Covers, Same
<1>4. Same(s, t) <=> Prefix(p, path)
  BY <1>1, <1>2, SameIsPrefix, PrefixIsSame
<1>5. Prefix(p, path) <=> Mounted(f, path)
  <2>0. /\ p \in Seq(Seq(Letters)) /\ path \in Seq(Seq(Letters))
        /\ Len(p) \in Nat /\ Len(path) \in Nat
    BY DEF Names
  <2>1. Mounted(f, path) <=>
          Len(p) <= Len(path) /\ SubSeq(p, 1, Len(p)) = SubSeq(path, 1, Len(p))
    BY DEF Mounted, Seqs!IsPrefix
  <2>2. SubSeq(p, 1, Len(p)) = p
    BY <2>0, SubSeqFull
  <2>3. Len(p) <= Len(path) =>
          /\ SubSeq(path, 1, Len(p)) \in Seq(Seq(Letters))
          /\ Len(SubSeq(path, 1, Len(p))) = Len(p)
          /\ \A k \in 1 .. Len(p) : SubSeq(path, 1, Len(p))[k] = path[k]
    BY <2>0
  <2>4. CASE Len(p) <= Len(path)
    <3>1. SubSeq(path, 1, Len(p)) = p <=> \A k \in 1 .. Len(p) : SubSeq(path, 1, Len(p))[k] = p[k]
      BY <2>0, <2>3, <2>4, SeqEqual
    <3> QED
      BY <2>1, <2>2, <2>3, <2>4, <3>1 DEF Prefix
  <2>5. CASE ~(Len(p) <= Len(path))
    BY <2>1, <2>5 DEF Prefix
  <2> QED
    BY <2>4, <2>5
<1> QED
  BY <1>3, <1>4, <1>5

\* The search of alt_fs_list ends at the first such file system, or at none.
LEMMA FileFound ==
  ASSUME fsList \in Seq(FileSystems), NEW path \in Names
  PROVE  \/ /\ FoundFile(Spelled(path)) = NoDev
            /\ \A f \in Seqs!Range(fsList) : ~Mounted(f, path)
         \/ \E k \in DOMAIN fsList :
              /\ FoundFile(Spelled(path)) = fsList[k] /\ Mounted(fsList[k], path)
              /\ \A l \in 1 .. k - 1 : ~Mounted(fsList[l], path)
<1> PICK name : name = Spelled(path)
  OBVIOUS
<1>0. DOMAIN fsList = 1 .. Len(fsList) /\ Len(fsList) \in Nat
  OBVIOUS
<1>1. \A k \in DOMAIN fsList : Covers(MountName(fsList[k]), name) <=> Mounted(fsList[k], path)
  <2>1. \A k \in DOMAIN fsList : fsList[k] \in FileSystems
    OBVIOUS
  <2> QED
    BY <2>1, CoversIsMounted
<1>2. \A k \in DOMAIN fsList : FirstCover(k, name) <=>
        Mounted(fsList[k], path) /\ \A l \in 1 .. k - 1 : ~Mounted(fsList[l], path)
  <2> SUFFICES ASSUME NEW k \in DOMAIN fsList
               PROVE  FirstCover(k, name) <=>
                        Mounted(fsList[k], path) /\ \A l \in 1 .. k - 1 : ~Mounted(fsList[l], path)
    OBVIOUS
  <2>1. \A l \in 1 .. k - 1 : l \in DOMAIN fsList
    BY <1>0
  <2> QED
    BY <1>1, <2>1 DEF FirstCover
<1>3. CASE \E k \in DOMAIN fsList : FirstCover(k, name)
  <2> DEFINE c == CHOOSE k \in DOMAIN fsList : FirstCover(k, name)
  <2>1. c \in DOMAIN fsList /\ FirstCover(c, name)
    BY <1>3
  <2>2. FoundFile(name) = fsList[c]
    BY <1>3 DEF FoundFile
  <2> HIDE DEF c
  <2> QED
    BY <1>2, <2>1, <2>2
<1>4. CASE ~\E k \in DOMAIN fsList : FirstCover(k, name)
  <2>1. FoundFile(name) = NoDev
    BY <1>4 DEF FoundFile
  <2> DEFINE S == {k \in DOMAIN fsList : Mounted(fsList[k], path)}
  <2>2. S = {}
    <3> SUFFICES ASSUME S # {} PROVE FALSE
      OBVIOUS
    <3>1. PICK m \in S : \A k \in S : m <= k
      <4>1. S \in SUBSET Nat
        BY <1>0
      <4> HIDE DEF S
      <4> QED
        BY <4>1, LeastNat
    <3>2. m \in DOMAIN fsList /\ Mounted(fsList[m], path)
      OBVIOUS
    <3>3. \A l \in 1 .. m - 1 : l \in DOMAIN fsList /\ ~(m <= l)
      BY <1>0, <3>2
    <3>4. \A l \in 1 .. m - 1 : ~Mounted(fsList[l], path)
      BY <3>1, <3>3
    <3> QED
      BY <1>2, <1>4, <3>2, <3>4
  <2>3. \A f \in Seqs!Range(fsList) : ~Mounted(f, path)
    BY <2>2 DEF Seqs!Range
  <2> QED
    BY <2>1, <2>3
<1> QED
  BY <1>3, <1>4

\* alt_find_dev() and alt_find_file() find the owner of every name: the device
\* so named, else the last registered of the file systems whose mount point
\* contains it component by component.
THEOREM NamesFindOwner == CallSpec => []NamesReachOwner
<1>1. fsList \in Seq(FileSystems) => NamesReachOwner
  <2> SUFFICES ASSUME fsList \in Seq(FileSystems), NEW path \in Paths
               PROVE  IF \E d \in CharDevs : DevPath[d] = path
                        THEN DevPath[Found(path)] = path
                        ELSE \/ /\ Found(path) = NoDev
                                /\ \A f \in Seqs!Range(fsList) : ~Mounted(f, path)
                             \/ \E k \in DOMAIN fsList :
                                  /\ Found(path) = fsList[k] /\ Mounted(fsList[k], path)
                                  /\ \A l \in 1 .. k - 1 : ~Mounted(fsList[l], path)
    BY DEF NamesReachOwner
  <2>1. path \in Names
    BY NamesAssumption
  <2>2. \A d \in CharDevs : IsDev(d, Spelled(path)) <=> DevPath[d] = path
    BY <2>1, DevByPath
  <2>3. CASE \E d \in CharDevs : IsDev(d, Spelled(path))
    <3> DEFINE c == CHOOSE d \in CharDevs : IsDev(d, Spelled(path))
    <3>1. c \in CharDevs /\ IsDev(c, Spelled(path))
      BY <2>3
    <3>2. Found(path) = c
      BY <2>3 DEF Found
    <3> HIDE DEF c
    <3> QED
      BY <2>2, <3>1, <3>2
  <2>4. CASE ~\E d \in CharDevs : IsDev(d, Spelled(path))
    <3>1. Found(path) = FoundFile(Spelled(path))
      BY <2>4 DEF Found
    <3> QED
      BY <2>1, <2>2, <2>4, <3>1, FileFound
  <2> QED
    BY <2>3, <2>4
<1> QED
  BY <1>1, CallsImplementPool, PTL
=============================================================================
