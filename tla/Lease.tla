------------------------------- MODULE Lease --------------------------------
(* The lease of one schedule (s17code/events/lease.py): a file that a tick   *)
(* acquires, steals once it expired, and gives back by its token.  A call    *)
(* reads the file and then writes it, under the lock of its own process.     *)
EXTENDS Naturals, FiniteSets

CONSTANTS
    Ticks,          \* holders that ever ask
    ProcessOf,      \* tick -> the process it runs in
    Ttl,            \* how long a lease lasts
    MaxTime,        \* bound: the clock
    NoLease

ASSUME LeaseConstants == Ttl \in Nat \ {0} /\ MaxTime \in Nat /\ NoLease \notin Ticks

VARIABLES
    clock,
    lease,          \* the file: [token, expires]; a token is named by its tick
    asking,         \* tick -> what its call read, with the moment it began
    tick            \* tick -> "new", "asking", "granted", "refused", "over" or "dead"

leaseVars == <<clock, lease, asking, tick>>

Free == [token |-> NoLease, expires |-> 0]

LeaseInit == /\ clock = 0
             /\ lease = Free
             /\ asking = [t \in Ticks |-> [read |-> Free, moment |-> 0]]
             /\ tick = [t \in Ticks |-> "new"]

Locked(t) == \E other \in Ticks : ProcessOf[other] = ProcessOf[t] /\ tick[other] = "asking"

(* acquire takes the time, waits for the lock and reads the file.            *)
Ask(t, moment) == /\ tick[t] = "new" /\ ~Locked(t)
                  /\ asking' = [asking EXCEPT ![t] = [read |-> lease, moment |-> moment]]
                  /\ tick' = [tick EXCEPT ![t] = "asking"]
                  /\ UNCHANGED <<clock, lease>>

Held(read, moment) == read.token # NoLease /\ read.expires > moment

Refuse(t) == /\ tick[t] = "asking" /\ Held(asking[t].read, asking[t].moment)
             /\ tick' = [tick EXCEPT ![t] = "refused"]
             /\ UNCHANGED <<clock, lease, asking>>

(* The file is written: a lease that was free, or is taken over expired.     *)
Grant(t) == /\ tick[t] = "asking" /\ ~Held(asking[t].read, asking[t].moment)
            /\ lease' = [token |-> t, expires |-> asking[t].moment + Ttl]
            /\ tick' = [tick EXCEPT ![t] = "granted"]
            /\ UNCHANGED <<clock, asking>>

(* Mutant of Owns: whoever finished frees the schedule.                      *)
OwnsAnything(t) == lease.token # NoLease
Owns(t) == lease.token = t

(* release: only the token in the file frees it.                             *)
Release(t) == /\ tick[t] = "granted" /\ ~Locked(t)
              /\ lease' = IF Owns(t) THEN Free ELSE lease
              /\ tick' = [tick EXCEPT ![t] = "over"]
              /\ UNCHANGED <<clock, asking>>

(* The holder's process dies, or never gives the lease back.                 *)
Perish(t) == /\ tick[t] \in {"asking", "granted"}
             /\ tick' = [tick EXCEPT ![t] = "dead"]
             /\ UNCHANGED <<clock, lease, asking>>

Pass == /\ clock < MaxTime /\ clock' = clock + 1
        /\ UNCHANGED <<lease, asking, tick>>

LeaseNext == \/ \E t \in Ticks : \/ \E moment \in 0..clock : Ask(t, moment)
                                  \/ Refuse(t) \/ Grant(t) \/ Release(t) \/ Perish(t)
             \/ Pass

LeaseSpec == LeaseInit /\ [][LeaseNext]_leaseVars
-----------------------------------------------------------------------------
(* lease.py: a periodic trigger does not overlap itself.  A tick that was    *)
(* granted the lease keeps it, against the ticks that come later and against *)
(* an earlier holder that ends late, until it gives it back or it expires.   *)
NoOverlap ==
    \A t \in Ticks :
        /\ tick[t] = "granted" /\ clock < asking[t].moment + Ttl => lease.token = t
        /\ \A other \in Ticks \ {t} :
              tick[t] = "granted" /\ tick[other] = "granted" =>
                 \/ clock >= asking[t].moment + Ttl
                 \/ clock >= asking[other].moment + Ttl
=============================================================================
