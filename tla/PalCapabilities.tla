-------------------------- MODULE PalCapabilities --------------------------
(***************************************************************************)
(* What the PAL handle table promises its callers, with no table in it.    *)
(* A capability is the right of one thread to operate on one host          *)
(* resource.  It is granted once, served only to its owner and only while  *)
(* live, and once revoked it never comes back.  PalHandles implements it.  *)
(***************************************************************************)
EXTENDS Integers

CONSTANTS
  Threads,    \* pthreads that call the PAL
  Resources   \* host resources (descriptors, processes, keys)

VARIABLES
  owner,      \* owner[r]: the thread a live capability on r belongs to, or NoThread
  granted,    \* resources on which a capability was ever granted
  serving     \* serving[t]: resource a backend call made by t works on, or NoResource

NoThread   == "none"
NoResource == 0

avars == <<owner, granted, serving>>

AInit ==
  /\ owner   = [r \in Resources |-> NoThread]
  /\ granted = {}
  /\ serving = [t \in Threads |-> NoResource]

\* A thread obtains the capability on a resource nobody ever had one for.
Grant(t, r) ==
  /\ r \notin granted
  /\ serving[t] = NoResource
  /\ granted' = granted \union {r}
  /\ owner'   = [owner EXCEPT ![r] = t]
  /\ UNCHANGED serving

\* A backend call starts: the caller owns the live capability it names.
Begin(t, r) ==
  /\ serving[t] = NoResource
  /\ owner[r] = t
  /\ serving' = [serving EXCEPT ![t] = r]
  /\ UNCHANGED <<owner, granted>>

\* The backend call returns and the capability stays.
End(t) ==
  /\ serving[t] # NoResource
  /\ serving' = [serving EXCEPT ![t] = NoResource]
  /\ UNCHANGED <<owner, granted>>

\* The backend call was the closing one: the capability is gone for good.
Revoke(t) ==
  /\ serving[t] # NoResource
  /\ owner[serving[t]] = t
  /\ owner'   = [owner EXCEPT ![serving[t]] = NoThread]
  /\ serving' = [serving EXCEPT ![t] = NoResource]
  /\ UNCHANGED granted

ANext ==
  \E t \in Threads :
    \/ \E r \in Resources : Grant(t, r) \/ Begin(t, r)
    \/ End(t)
    \/ Revoke(t)

ASpec == AInit /\ [][ANext]_avars
=============================================================================
