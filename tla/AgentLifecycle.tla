--------------------------- MODULE AgentLifecycle ---------------------------
(***************************************************************************)
(* How agents come and go: create, createAgent and resumeWith of           *)
(* packages/core/agent-loop/src/index.ts, the preparation of an agent with *)
(* its one memoized teardown, and FactoryOwnership, whose disposal waits   *)
(* for all of them.                                                        *)
(*                                                                         *)
(* Each transaction makes one agent.  It awaits storage, setup and its own *)
(* rollback; meanwhile its caller may abort, the fiber that owns it and    *)
(* the factory may unload, and the holder of the result may dispose it.    *)
(* An action is the code between two awaits.                               *)
(***************************************************************************)
EXTENDS Naturals, FiniteSets

CONSTANTS
    Fresh, Stored,      \* the creations, of fresh agents and from stored sessions
    MaxTroubles         \* bound on aborts, unloads of owners and failures of teardowns

ASSUME BoundAssumption == MaxTroubles \in Nat
ASSUME TxnAssumption == Fresh \cap Stored = {} /\ IsFiniteSet(Fresh \cup Stored)

Txns == Fresh \cup Stored

VARIABLES
    kind,               \* "create", "createAgent" or "resume"
    creation,           \* where the creation is
    caller,             \* its abort signal has fired
    owner,              \* the fiber that owns it: "up", "unloading", "down"
    store,              \* its write handle
    machine,            \* its driver: "none", "idle", "running"
    scope,              \* the registrations made through the agent: "none", "up", "down"
    session, agent,     \* its registry entries: "out", "entered", "announced", "gone"
    tear,               \* where dispose() is, "no" before it is called
    byOwner,            \* the teardown was started by the owner's unload
    faults,             \* what went wrong in it: "close", "cancel"
    factory,            \* "up", "waiting", "down"
    awaits              \* the transactions that the factory's disposal waits for

makingVars == <<kind, creation, caller, owner>>
thingVars == <<store, machine, scope, session, agent>>
tearVars == <<tear, byOwner, faults>>
lifeVars == <<makingVars, thingVars, tearVars, factory, awaits>>

LifeInit ==
    /\ kind \in [Txns -> {"create", "createAgent", "resume"}]
    /\ \A t \in Txns : t \in Stored <=> kind[t] = "resume"
    /\ creation = [t \in Txns |-> "idle"]
    /\ caller = [t \in Txns |-> FALSE]
    /\ owner = [t \in Txns |-> "up"]
    /\ store = [t \in Txns |-> "none"]
    /\ machine = [t \in Txns |-> "none"]
    /\ scope = [t \in Txns |-> "none"]
    /\ session = [t \in Txns |-> "out"] /\ agent = [t \in Txns |-> "out"]
    /\ tear = [t \in Txns |-> "no"]
    /\ byOwner = [t \in Txns |-> FALSE]
    /\ faults = [t \in Txns |-> {}]
    /\ factory = "up" /\ awaits = {}

Set(f, t, v) == f' = [f EXCEPT ![t] = v]

\* A prepared agent is in liveAgents, and its teardown is an effect of the
\* owner's fiber, until the teardown ends.
Lives(t) == machine[t] # "none" /\ tear[t] # "done"

Tracked(t) == machine[t] # "none" /\ tear[t] \notin {"unfollowing", "done"}

Settled(t) == creation[t] \in {"idle", "live", "rejected"}

\* The factory and the owner of a prepared agent abort it by disposing it.
Aborted(t) == tear[t] # "no" \/ caller[t]

Untroubled == \* bound
    Cardinality({t \in Txns : caller[t]}) + Cardinality({t \in Txns : owner[t] # "up"})
        + Cardinality({t \in Txns : faults[t] # {}}) < MaxTroubles

----------------------------------------------------------------------------
(* Acquiring the session.                                                  *)

\* A service method runs in an active fiber; the persistence service may be
\* absent, except for a resume.
Begin(t) ==
    /\ creation[t] = "idle" /\ factory = "up" /\ owner[t] = "up"
    /\ Set(creation, t, "acquiring")
    /\ \/ Set(store, t, "opening")
       \/ kind[t] # "resume" /\ UNCHANGED store
    /\ UNCHANGED <<kind, caller, owner, machine, scope, session, agent, tearVars, factory, awaits>>

\* persistence.create or open settles; an abandoned handle is closed.
StoreOpens(t) ==
    /\ \/ store[t] = "opening" /\ Set(store, t, "open")
       \/ store[t] = "abandoned" /\ Set(store, t, "discarding")
    /\ UNCHANGED <<makingVars, machine, scope, session, agent, tearVars, factory, awaits>>

StoreRefuses(t) ==
    /\ store[t] \in {"opening", "abandoned"}
    /\ Set(store, t, "none")
    /\ IF store[t] = "opening" THEN Set(creation, t, "rejected") ELSE UNCHANGED creation
    /\ UNCHANGED <<kind, caller, owner, machine, scope, session, agent, tearVars, factory, awaits>>

Discarded(t) ==
    /\ store[t] = "discarding"
    /\ Set(store, t, "closed")
    /\ UNCHANGED <<makingVars, machine, scope, session, agent, tearVars, factory, awaits>>

\* What the waiting for the handle races against.
Raced(t) ==
    \/ kind[t] = "createAgent" /\ caller[t]
    \/ kind[t] = "resume" /\ (caller[t] \/ owner[t] # "up" \/ factory # "up")

\* raceAbortCall stops waiting; the handle that arrives later is abandoned.
AcquireAborts(t) ==
    /\ creation[t] = "acquiring" /\ store[t] = "opening" /\ Raced(t)
    /\ Set(creation, t, "rejected")
    /\ Set(store, t, "abandoned")
    /\ UNCHANGED <<kind, caller, owner, machine, scope, session, agent, tearVars, factory, awaits>>

\* An unprepared creation closes its handle before it rejects.
GivesUp(t) ==
    IF store[t] = "open" THEN Set(creation, t, "closing") /\ Set(store, t, "closing")
                         ELSE Set(creation, t, "rejected") /\ UNCHANGED store

\* The session has been created, or read and repaired; reading may fail.
LoadFails(t) ==
    /\ creation[t] = "acquiring" /\ kind[t] = "resume" /\ store[t] = "open"
    /\ GivesUp(t)
    /\ UNCHANGED <<kind, caller, owner, machine, scope, session, agent, tearVars, factory, awaits>>

GaveUp(t) ==
    /\ creation[t] = "closing" /\ store[t] = "closing"
    /\ Set(creation, t, "rejected") /\ Set(store, t, "closed")
    /\ UNCHANGED <<kind, caller, owner, machine, scope, session, agent, tearVars, factory, awaits>>

Active(t) == owner[t] = "up" /\ factory = "up"

\* prepare(): the driver, its scope and its teardown exist from here on.
Prepare(t) ==
    /\ creation[t] = "acquiring" /\ store[t] \in {"none", "open"}
    /\ \/ /\ Active(t) /\ (kind[t] = "create" \/ ~caller[t])
          /\ Set(machine, t, "idle") /\ Set(scope, t, "up")
          /\ Set(creation, t, IF kind[t] = "create" THEN "storing" ELSE "setup")
          /\ UNCHANGED store
       \/ /\ ~Active(t) \/ (kind[t] # "create" /\ caller[t])
          /\ GivesUp(t)
          /\ UNCHANGED <<machine, scope>>
    /\ UNCHANGED <<kind, caller, owner, session, agent, tearVars, factory, awaits>>

----------------------------------------------------------------------------
(* Setup and publication.                                                  *)

SetupEnds(t) ==
    /\ creation[t] = "setup"
    /\ \/ ~Aborted(t) /\ Set(creation, t, "storing")
       \/ Set(creation, t, "failing")         \* setup or its commit throws, or the race is lost
    /\ UNCHANGED <<kind, caller, owner, thingVars, tearVars, factory, awaits>>

\* appendUnstoredSuffix is not raced; a closing handle refuses.
SuffixStored(t) ==
    /\ creation[t] = "storing"
    /\ \/ store[t] \in {"none", "open"} /\ Set(creation, t, "publishing")
       \/ store[t] # "none" /\ Set(creation, t, "failing")
    /\ UNCHANGED <<kind, caller, owner, thingVars, tearVars, factory, awaits>>

NotChecked(t) == FALSE                  \* mutant: publish() does not look at the signal

Vetoed(t) == (kind[t] # "create" /\ caller[t]) \/ tear[t] # "no"

\* publish() up to the end or to the entry, listener or check that throws.
\* Before the end the registries hold what was entered.
Publish(t) ==
    /\ creation[t] = "publishing"
    /\ \/ /\ Vetoed(t)
          /\ Set(creation, t, "failing") /\ UNCHANGED <<session, agent>>
       \/ /\ ~Vetoed(t)
          /\ \/ Set(creation, t, "failing") /\ UNCHANGED <<session, agent>>
             \/ Set(creation, t, "failing") /\ Set(session, t, "entered") /\ UNCHANGED agent
             \/ /\ Set(creation, t, "failing")
                /\ Set(session, t, "announced") /\ Set(agent, t, "entered")
             \/ creation' \in {[creation EXCEPT ![t] = p] : p \in {"failing", "live"}}
                /\ Set(session, t, "announced") /\ Set(agent, t, "announced")
    /\ UNCHANGED <<kind, caller, owner, store, machine, scope, tearVars, factory, awaits>>

----------------------------------------------------------------------------
(* Teardown.                                                               *)

\* The synchronous part of dispose(): abort, cancel, and wait for idleness.
Disposes(t, trigger) ==
    /\ tear[t] = "no"
    /\ Set(tear, t, "idling")
    /\ Set(byOwner, t, trigger)

\* The rollback of a failed creation; create() does not wait for it.
RollBack(t) ==
    /\ creation[t] = "failing"
    /\ Set(creation, t, IF kind[t] = "create" THEN "rejected" ELSE "undoing")
    /\ Disposes(t, FALSE) \/ (tear[t] # "no" /\ UNCHANGED <<tear, byOwner>>)
    /\ UNCHANGED <<kind, caller, owner, thingVars, faults, factory, awaits>>

RolledBack(t) ==
    /\ creation[t] = "undoing" /\ tear[t] = "done"
    /\ Set(creation, t, "rejected")
    /\ UNCHANGED <<kind, caller, owner, thingVars, tearVars, factory, awaits>>

HolderDisposes(t) ==
    /\ creation[t] = "live"
    /\ Disposes(t, FALSE)
    /\ UNCHANGED <<makingVars, thingVars, faults, factory, awaits>>

\* The holder disposes from an observer of an append, while the inbox holds
\* a message: cancel() throws, and the driver is neither stopped nor awaited.
DisposeInAppend(t) ==
    /\ creation[t] = "live" /\ machine[t] = "running" /\ tear[t] = "no" /\ Untroubled
    /\ Set(tear, t, "closing")
    /\ Set(faults, t, faults[t] \cup {"cancel"})
    /\ UNCHANGED <<makingVars, thingVars, byOwner, factory, awaits>>

IsIdle(t) == machine[t] = "idle"

Idled(t) ==
    /\ tear[t] = "idling" /\ IsIdle(t)
    /\ Set(scope, t, "down")
    /\ Set(tear, t, "closing")
    /\ UNCHANGED <<makingVars, store, machine, session, agent, byOwner, faults, factory, awaits>>

\* handle.close(), which may reject after it has released the handle.
HandleCloses(t) ==
    /\ tear[t] = "closing"
    /\ Set(tear, t, "detaching")
    /\ \/ store[t] = "none" /\ UNCHANGED <<store, faults>>
       \/ /\ store[t] = "open" /\ Set(store, t, "closed")
          /\ \/ UNCHANGED faults
             \/ Untroubled /\ Set(faults, t, faults[t] \cup {"close"})
    /\ UNCHANGED <<makingVars, machine, scope, session, agent, byOwner, factory, awaits>>

Gone(entry) == IF entry = "out" THEN "out" ELSE "gone"

OwnerAlways(t) == TRUE                  \* mutant: the owner's effect is unregistered from inside itself

Unregisters(t) == ~byOwner[t]

\* Leave the registries, announcing it; then leave the owner's fiber.
Detach(t) ==
    /\ tear[t] = "detaching"
    /\ Set(session, t, Gone(session[t])) /\ Set(agent, t, Gone(agent[t]))
    /\ Set(tear, t, IF Unregisters(t) THEN "unfollowing" ELSE "done")
    /\ UNCHANGED <<makingVars, store, machine, scope, byOwner, faults, factory, awaits>>

\* unfollowOwner() runs the effect, which unwinds the scope if nobody has,
\* and would wait for an owner that waits for this teardown.
Unfollowed(t) ==
    /\ tear[t] = "unfollowing" /\ ~(byOwner[t] /\ owner[t] = "unloading")
    /\ Set(tear, t, "done")
    /\ Set(scope, t, "down")
    /\ UNCHANGED <<makingVars, store, machine, session, agent, byOwner, faults, factory, awaits>>

----------------------------------------------------------------------------
(* The owner, the factory, the caller and the driver.                      *)

\* The effect of a live agent disposes it and waits.  When a teardown is
\* under way the effect does not wait, and unwinds the scope at once.
OwnerUnloads(t) ==
    /\ owner[t] = "up" /\ Untroubled
    /\ \/ /\ Lives(t) /\ tear[t] = "no"
          /\ Set(owner, t, "unloading")
          /\ Disposes(t, TRUE)
          /\ UNCHANGED scope
       \/ /\ ~(Lives(t) /\ tear[t] = "no")
          /\ Set(owner, t, "down")
          /\ IF Lives(t) THEN Set(scope, t, "down") ELSE UNCHANGED scope
          /\ UNCHANGED <<tear, byOwner>>
    /\ UNCHANGED <<kind, creation, caller, store, machine, session, agent, faults, factory, awaits>>

OwnerUnloaded(t) ==
    /\ owner[t] = "unloading" /\ tear[t] = "done"
    /\ Set(owner, t, "down")
    /\ Set(scope, t, "down")
    /\ UNCHANGED <<kind, creation, caller, store, machine, session, agent, tearVars, factory, awaits>>

\* createAgent and resume are startup tasks until they settle.
Wrapped(t) == kind[t] # "create" /\ ~Settled(t)

LiveOnly == {t \in Txns : Tracked(t)}   \* mutant: running creations are not awaited

Owned == {t \in Txns : Tracked(t) \/ Wrapped(t)}

FactoryUnloads ==
    /\ factory = "up"
    /\ factory' = "waiting"
    /\ awaits' = Owned
    /\ tear' = [t \in Txns |-> IF Tracked(t) /\ tear[t] = "no" THEN "idling" ELSE tear[t]]
    /\ UNCHANGED <<makingVars, thingVars, byOwner, faults>>

\* Promise.all: a teardown that rejects ends the waiting for the others.
FactoryUnloaded ==
    /\ factory = "waiting"
    /\ \/ \A t \in awaits : (tear[t] = "done" \/ machine[t] = "none") /\ Settled(t)
       \/ \E t \in awaits : tear[t] = "done" /\ faults[t] # {}
    /\ factory' = "down"
    /\ UNCHANGED <<makingVars, thingVars, tearVars, awaits>>

CallerAborts(t) ==
    /\ kind[t] # "create" /\ ~Settled(t) /\ ~caller[t] /\ Untroubled
    /\ Set(caller, t, TRUE)
    /\ UNCHANGED <<kind, creation, owner, thingVars, tearVars, factory, awaits>>

\* Work starts when somebody sends to an announced agent; nobody sends to an
\* agent that is being disposed.
Works(t) ==
    /\ \/ machine[t] = "idle" /\ agent[t] = "announced" /\ tear[t] = "no"
          /\ Set(machine, t, "running")
       \/ machine[t] = "running" /\ Set(machine, t, "idle")
    /\ UNCHANGED <<makingVars, store, scope, session, agent, tearVars, factory, awaits>>

----------------------------------------------------------------------------

Creates(t) ==
    \/ StoreOpens(t) \/ StoreRefuses(t) \/ Discarded(t) \/ AcquireAborts(t)
    \/ LoadFails(t) \/ GaveUp(t) \/ Prepare(t)
    \/ SetupEnds(t) \/ SuffixStored(t) \/ Publish(t) \/ RollBack(t) \/ RolledBack(t)

TearsDown(t) ==
    Idled(t) \/ HandleCloses(t) \/ Detach(t) \/ Unfollowed(t) \/ OwnerUnloaded(t)

LifeNext ==
    \/ FactoryUnloads \/ FactoryUnloaded
    \/ \E t \in Txns :
        \/ Begin(t) \/ Creates(t) \/ TearsDown(t) \/ Works(t) \/ CallerAborts(t)
        \/ HolderDisposes(t) \/ DisposeInAppend(t) \/ OwnerUnloads(t)

\* Storage and setup answer, continuations run, and a cancelled driver ends.
Fairness ==
    /\ WF_lifeVars(FactoryUnloaded)
    /\ \A t \in Txns :
        /\ WF_lifeVars(Creates(t)) /\ WF_lifeVars(TearsDown(t))
        /\ WF_lifeVars(machine[t] = "running" /\ Works(t))

LifeSpec == LifeInit /\ [][LifeNext]_lifeVars /\ Fairness

----------------------------------------------------------------------------

Entry == {"out", "entered", "announced", "gone"}

Registered(t) == session[t] \in {"entered", "announced"} \/ agent[t] \in {"entered", "announced"}

LifeTypeOK ==
    /\ kind \in [Txns -> {"create", "createAgent", "resume"}]
    /\ creation \in [Txns -> {"idle", "acquiring", "closing", "setup", "storing", "publishing",
                              "failing", "undoing", "live", "rejected"}]
    /\ caller \in [Txns -> BOOLEAN] /\ byOwner \in [Txns -> BOOLEAN]
    /\ owner \in [Txns -> {"up", "unloading", "down"}]
    /\ store \in [Txns -> {"none", "opening", "open", "closing", "closed", "abandoned", "discarding"}]
    /\ machine \in [Txns -> {"none", "idle", "running"}]
    /\ scope \in [Txns -> {"none", "up", "down"}]
    /\ session \in [Txns -> Entry] /\ agent \in [Txns -> Entry]
    /\ tear \in [Txns -> {"no", "idling", "closing", "detaching", "unfollowing", "done"}]
    /\ faults \in [Txns -> SUBSET {"close", "cancel"}]
    /\ factory \in {"up", "waiting", "down"} /\ awaits \subseteq Txns
    /\ \A t \in Txns : (machine[t] = "none") => (tear[t] = "no" /\ scope[t] = "none" /\ ~Registered(t))

\* Nothing of a transaction is left: no driver runs, the registries, the
\* owner's fiber and the scope are clean, and the handle is closed or its
\* late arrival will be discarded.
Clean(t) ==
    /\ machine[t] # "running" /\ ~Registered(t) /\ ~Tracked(t)
    /\ scope[t] # "up" /\ store[t] \notin {"opening", "open"}

\* A createAgent or resume that rejects has undone everything, whatever
\* aborted or disposed it, and wherever it stood.
RejectedIsClean ==
    \A t \in Txns : (creation[t] = "rejected" /\ kind[t] # "create") => Clean(t)

\* When the factory has unloaded, every agent it made is gone, no agent comes
\* after it, and every createAgent and resume has settled and left nothing,
\* unless a teardown failed: then the disposal rejects at once and waits for
\* no other agent.
FactoryDrains ==
    (factory = "down" /\ \A t \in Txns : faults[t] = {}) =>
        \A t \in Txns :
            /\ (kind[t] # "create") => (Settled(t) /\ (creation[t] = "idle" \/ Clean(t)))
            /\ (machine[t] # "none") => Clean(t)

\* Every teardown ends with the agent gone from the registries, and the
\* unloads of factory and owners end.
TeardownEnds ==
    /\ (factory = "waiting") ~> (factory = "down")
    /\ \A t \in Txns :
        /\ (tear[t] # "no") ~> (tear[t] = "done" /\ ~Registered(t))
        /\ (owner[t] = "unloading") ~> (owner[t] = "down")

=============================================================================
