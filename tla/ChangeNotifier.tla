--------------------------- MODULE ChangeNotifier ---------------------------
(***************************************************************************)
(* waldoctl/notify.py: one channel of ChangeNotifierMixin, and the objects *)
(* that use it the way ProgramLog does: change first, notify_changed after.*)
(*                                                                         *)
(* notify_changed calls the callbacks one after the other on the caller's  *)
(* thread; a callback may itself register, remove, change and notify, so   *)
(* the calls of notify_changed that are open form a stack.                 *)
(***************************************************************************)
EXTENDS Naturals, FiniteSets, SequencesExt

CONSTANTS
    Callbacks,   \* the callbacks that may be registered
    MaxVersion,  \* bound: changes of the observed object
    MaxNested,   \* bound: notify_changed calls open at once
    Raising      \* the callbacks that may raise

ASSUME NotifierAssumption ==
    /\ MaxVersion \in Nat
    /\ MaxNested \in Nat
    /\ Raising \subseteq Callbacks

VARIABLES
    listeners,  \* _change_listeners
    version,    \* the observed object, by the number of its changes
    rounds,     \* the open notify_changed calls: their list, the next call,
                \* and whether a callback is running
    unwinding,  \* an exception is leaving the innermost of them
    raised,     \* history: an exception ended a loop since the outermost one
                \* of the open (or the last) notify_changed calls began
    seen        \* the version each callback read last

notifierVars == <<listeners, version, rounds, unwinding, raised, seen>>

Open == rounds # <<>>
Now == Last(rounds)
Depth == Len(rounds)

(* Code runs outside the notifier: between calls, or in a callback.        *)
CallerRuns == ~unwinding /\ (Open => Now.running)

(* Fault: a callback registered again is called twice from then on. *)
AddListenerAgain(cb) ==
    /\ CallerRuns
    /\ Len(listeners) < 4
    /\ listeners' = Append(listeners, cb)
    /\ seen' = [seen EXCEPT ![cb] = version]
    /\ UNCHANGED <<version, rounds, unwinding, raised>>

(* add_change_listener, by a consumer that reads the object as well. *)
AddListener(cb) ==
    /\ CallerRuns
    /\ listeners' = IF Contains(listeners, cb) THEN listeners
                    ELSE Append(listeners, cb)
    /\ seen' = [seen EXCEPT ![cb] = version]
    /\ UNCHANGED <<version, rounds, unwinding, raised>>

(* The members of a set of numbers in their order: there is just one way.  *)
Orders(S) ==
    {order \in [1..Cardinality(S) -> S] :
        \A i, j \in DOMAIN order : i < j => order[i] < order[j]}

(* remove_change_listener: a new list, of all that do not equal the        *)
(* callback; open rounds keep theirs.                                      *)
RemoveListener(cb) ==
    /\ CallerRuns
    /\ \E order \in Orders({k \in DOMAIN listeners : listeners[k] # cb}) :
        listeners' = [k \in DOMAIN order |-> listeners[order[k]]]
    /\ UNCHANGED <<version, rounds, unwinding, raised, seen>>

(* The object changes and notify_changed starts on the list of now. *)
Change ==
    /\ CallerRuns
    /\ version < MaxVersion
    /\ Depth < MaxNested
    /\ version' = version + 1
    /\ rounds' = Append(rounds, [cbs |-> listeners, next |-> 1, running |-> FALSE])
    /\ raised' = (Open /\ raised)
    /\ UNCHANGED <<listeners, unwinding, seen>>

SetNow(round) == rounds' = [rounds EXCEPT ![Depth] = round]

(* Fault: the loop runs over the list of now. *)
CallLive ==
    /\ Open /\ ~unwinding /\ ~Now.running
    /\ Now.next \in DOMAIN listeners
    /\ SetNow([Now EXCEPT !.running = TRUE, !.cbs = listeners])
    /\ seen' = [seen EXCEPT ![listeners[Now.next]] = version]
    /\ UNCHANGED <<listeners, version, unwinding, raised>>

(* The loop calls its next callback, which reads the object. *)
Call ==
    /\ Open /\ ~unwinding /\ ~Now.running
    /\ Now.next \in DOMAIN Now.cbs
    /\ SetNow([Now EXCEPT !.running = TRUE])
    /\ seen' = [seen EXCEPT ![Now.cbs[Now.next]] = version]
    /\ UNCHANGED <<listeners, version, unwinding, raised>>

(* The callback returns. *)
Returned ==
    /\ Open /\ CallerRuns
    /\ SetNow([Now EXCEPT !.running = FALSE, !.next = @ + 1])
    /\ UNCHANGED <<listeners, version, unwinding, raised, seen>>

(* The callback raises, on its own or because a notify_changed it called   *)
(* did: the loop ends, and the exception goes on to the caller.            *)
Raise ==
    /\ Open /\ Now.running
    /\ unwinding \/ Now.cbs[Now.next] \in Raising
    /\ rounds' = Front(rounds)
    /\ unwinding' = (Depth > 1)
    /\ raised' = TRUE
    /\ UNCHANGED <<listeners, version, seen>>

(* A callback handles the exception of the notify_changed it called. *)
Handle ==
    /\ Open /\ unwinding
    /\ unwinding' = FALSE
    /\ UNCHANGED <<listeners, version, rounds, raised, seen>>

(* The loop is done. *)
Finish ==
    /\ Open /\ ~unwinding /\ ~Now.running
    /\ Now.next \notin DOMAIN Now.cbs
    /\ rounds' = Front(rounds)
    /\ UNCHANGED <<listeners, version, unwinding, raised, seen>>

NotifierInit ==
    /\ listeners = <<>>
    /\ version = 0
    /\ rounds = <<>>
    /\ unwinding = FALSE
    /\ raised = FALSE
    /\ seen = [cb \in Callbacks |-> 0]

NotifierNext ==
    \/ \E cb \in Callbacks : AddListener(cb) \/ RemoveListener(cb)
    \/ Change \/ Call \/ Returned \/ Raise \/ Handle \/ Finish

NotifierSpec == NotifierInit /\ [][NotifierNext]_notifierVars

-----------------------------------------------------------------------------
(* Once the outermost notification is over every registered callback has   *)
(* read the latest change, whatever callbacks registered, removed or       *)
(* changed meanwhile -- unless one raised, which ends a loop early; the    *)
(* next notification then brings everybody up to date again.               *)
EveryListenerCurrent ==
    ~Open /\ ~raised => \A k \in DOMAIN listeners : seen[listeners[k]] = version

(* No loop calls a callback twice, however often it was registered.        *)
CalledOncePerRound ==
    \A d \in DOMAIN rounds :
        \A i, j \in DOMAIN rounds[d].cbs : rounds[d].cbs[i] = rounds[d].cbs[j] => i = j
=============================================================================
