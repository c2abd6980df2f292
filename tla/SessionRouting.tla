--------------------------- MODULE SessionRouting ---------------------------
(* routing/sessionRouter.ts over routing/sessionRegistry.ts: several routers
   resolve the owner of a session, and replicas release it, through one Redis.
   Between two awaits a router runs without interruption; a Redis command
   executes at one moment and its caller goes on at a later one. *)
EXTENDS HashRing

CONSTANTS Routers, Sessions, RoutingCalls,
    Fleets,     \* lists of replicas the deployment platform may report
    NoOwner,
    MaxFleetChanges, MaxRegistryFailures, MaxExpiries

ASSUME RoutingAssumption ==
    /\ Sessions \subseteq Keys
    /\ Fleets \subseteq Seq(Replicas) /\ << >> \notin Fleets
    /\ NoOwner \notin Replicas
    /\ { MaxFleetChanges, MaxRegistryFailures, MaxExpiries } \subseteq Nat

VARIABLES
    registry,        \* the registry's owner of each session
    fleet,           \* the replicaIds of each router
    lookups,         \* the calls of resolveOwner and releaseOwner
    disturbances     \* counts that only bound the model

\* The owner each fleet's ring gives each key; a ring is built once per fleet.
RingOwner == [replicaIds \in Fleets |-> [key \in Keys |-> OwnerOf(replicaIds, key)]]

\* The same by the definition the search must agree with.
NearestOwner == [replicaIds \in Fleets |-> [key \in Keys |-> ClockwiseOwner(replicaIds, key)]]

routingVars == << registry, fleet, lookups, disturbances >>

\* A call of router or, for a release, of replica; owner is what it read, then
\* what it computed or answers; raced: an owner was written since it read.
Idle == [phase |-> "idle"]

Lookup(phase, by, session, owner, raced) ==
    [phase |-> phase, by |-> by, session |-> session, owner |-> owner, raced |-> raced]

Known(router) == Range(fleet[router])

RoutingInit ==
    /\ registry = [session \in Sessions |-> NoOwner]
    /\ fleet \in [Routers -> Fleets]
    /\ \A one, other \in Routers : Range(fleet[one]) = Range(fleet[other])
    /\ lookups = [c \in RoutingCalls |-> Idle]
    /\ disturbances = [changes |-> 0, failures |-> 0, expiries |-> 0]

Disturb(count, limit) ==
    /\ disturbances[count] < limit
    /\ disturbances' = [disturbances EXCEPT ![count] = @ + 1]

Proceed(c, lookup) == lookups' = [lookups EXCEPT ![c] = lookup]

Free(c) == lookups[c].phase \in { "idle", "answered", "released" }

ResolveOwner(c, router, session) ==
    /\ Free(c)
    /\ Proceed(c, Lookup("reading", router, session, NoOwner, FALSE))
    /\ UNCHANGED << registry, fleet, disturbances >>

\* GET executes.
GetOwner(c) ==
    /\ lookups[c].phase = "reading"
    /\ Proceed(c, [lookups[c] EXCEPT !.phase = "read", !.owner = registry[lookups[c].session]])
    /\ UNCHANGED << registry, fleet, disturbances >>

\* The read is refused: resolveOwner goes on as if nothing were recorded.
GetOwnerFails(c) ==
    /\ lookups[c].phase = "reading"
    /\ Proceed(c, [lookups[c] EXCEPT !.phase = "read", !.owner = NoOwner])
    /\ Disturb("failures", MaxRegistryFailures)
    /\ UNCHANGED << registry, fleet >>

\* Only the ring's own choice is ever answered.
ChooseByRing(c) ==
    LET call == lookups[c]
        choice == RingOwner[fleet[call.by]][call.session]
    IN
    /\ call.phase = "read"
    /\ Proceed(c, [call EXCEPT !.phase = IF call.owner = choice THEN "answered" ELSE "writing",
                               !.owner = choice])
    /\ UNCHANGED << registry, fleet, disturbances >>

\* The recorded owner if the router's ring of this moment knows it, else the
\* ring's own choice, which must be recorded first.
Choose(c) ==
    LET call == lookups[c] IN
    /\ call.phase = "read"
    /\ \/ /\ call.owner \in Known(call.by)
          /\ Proceed(c, [call EXCEPT !.phase = "answered"])
       \/ /\ call.owner \notin Known(call.by)
          /\ Proceed(c, [call EXCEPT !.phase = "writing",
                                     !.owner = RingOwner[fleet[call.by]][call.session]])
    /\ UNCHANGED << registry, fleet, disturbances >>

\* SET executes; a reply that is lost is caught, so it makes no difference.
SetOwner(c) ==
    LET call == lookups[c] IN
    /\ call.phase = "writing"
    /\ registry' = [registry EXCEPT ![call.session] = call.owner]
    /\ lookups' = [d \in RoutingCalls |->
           IF d = c THEN [call EXCEPT !.phase = "answered"]
           ELSE IF lookups[d].phase = "deleting" /\ lookups[d].session = call.session
                THEN [lookups[d] EXCEPT !.raced = TRUE] ELSE lookups[d]]
    /\ UNCHANGED << fleet, disturbances >>

\* SET is refused: the computed owner is answered all the same.
SetOwnerFails(c) ==
    /\ lookups[c].phase = "writing"
    /\ Proceed(c, [lookups[c] EXCEPT !.phase = "answered"])
    /\ Disturb("failures", MaxRegistryFailures)
    /\ UNCHANGED << registry, fleet >>

ReleaseOwner(c, replica, session) ==
    /\ Free(c)
    /\ Proceed(c, Lookup("comparing", replica, session, replica, FALSE))
    /\ UNCHANGED << registry, fleet, disturbances >>

\* A release that does not compare.
CompareNothing(c) ==
    /\ lookups[c].phase = "comparing"
    /\ Proceed(c, [lookups[c] EXCEPT !.phase = "deleting"])
    /\ UNCHANGED << registry, fleet, disturbances >>

\* GET executes: only the recorded owner goes on to delete.
CompareOwner(c) ==
    LET call == lookups[c] IN
    /\ call.phase = "comparing"
    /\ Proceed(c, [call EXCEPT
           !.phase = IF registry[call.session] = call.by THEN "deleting" ELSE "released"])
    /\ UNCHANGED << registry, fleet, disturbances >>

\* DEL executes, whatever the entry has become since.
DeleteOwner(c) ==
    LET call == lookups[c] IN
    /\ call.phase = "deleting"
    /\ registry' = [registry EXCEPT ![call.session] = NoOwner]
    /\ Proceed(c, [call EXCEPT !.phase = "released"])
    /\ UNCHANGED << fleet, disturbances >>

\* GET or DEL is refused and releaseOwner throws.
ReleaseFails(c) ==
    /\ lookups[c].phase \in { "comparing", "deleting" }
    /\ Proceed(c, [lookups[c] EXCEPT !.phase = "released"])
    /\ Disturb("failures", MaxRegistryFailures)
    /\ UNCHANGED << registry, fleet >>

\* The entry's time to live runs out.
Expire(session) ==
    /\ registry[session] # NoOwner
    /\ registry' = [registry EXCEPT ![session] = NoOwner]
    /\ Disturb("expiries", MaxExpiries)
    /\ UNCHANGED << fleet, lookups >>

UpdateReplicaSet(router, replicaIds) ==
    /\ fleet' = [fleet EXCEPT ![router] = replicaIds]
    /\ Disturb("changes", MaxFleetChanges)
    /\ UNCHANGED << registry, lookups >>

RoutingNext ==
    \/ \E c \in RoutingCalls :
          \/ \E session \in Sessions :
                \/ \E router \in Routers : ResolveOwner(c, router, session)
                \/ \E replica \in Replicas : ReleaseOwner(c, replica, session)
          \/ GetOwner(c) \/ GetOwnerFails(c) \/ Choose(c) \/ SetOwner(c) \/ SetOwnerFails(c)
          \/ CompareOwner(c) \/ DeleteOwner(c) \/ ReleaseFails(c)
    \/ \E session \in Sessions : Expire(session)
    \/ \E router \in Routers, replicaIds \in Fleets : UpdateReplicaSet(router, replicaIds)

RoutingSpec == RoutingInit /\ [][RoutingNext]_routingVars
----------------------------------------------------------------------------
\* As long as no replica set has changed, every owner a router answers is the
\* nearest one clockwise on the ring, whichever router answers, in whatever
\* order its list names the replicas, and whatever Redis refuses, forgets or
\* releases meanwhile: the agreement resolveOwner's fallback relies on.
AnswersFollowTheRing ==
    disturbances.changes = 0 =>
        \A c \in RoutingCalls : lookups[c].phase = "answered" =>
            \A router \in Routers :
                lookups[c].owner = NearestOwner[fleet[router]][lookups[c].session]

\* A new ring moves a key only to a replica that has come or from one that has
\* gone: updateReplicaSet must not reshuffle the sessions of the replicas that stay.
RingsMoveOnlyWhatTheyMust ==
    [][\A router \in Routers, key \in Keys :
          LET before == RingOwner[fleet[router]][key]
              after == RingOwner[fleet'[router]][key]
          IN before # after => \/ after \notin Range(fleet[router])
                               \/ before \notin Range(fleet'[router])]_routingVars

\* Every router knows the recorded owner, and no resolution under way has read
\* or computed another one.
Established(session, owner) ==
    /\ registry[session] = owner
    /\ \A router \in Routers : owner \in Known(router)
    /\ \A c \in RoutingCalls :
          lookups[c].phase \in { "read", "writing" } /\ lookups[c].session = session =>
              lookups[c].owner = owner

\* What may legitimately unsettle an owner: a refused read, the entry's end, or
\* a replica set without it.
Unsettles(session, owner) ==
    \/ \E c \in RoutingCalls : GetOwnerFails(c) /\ lookups[c].session = session
    \/ registry'[session] = NoOwner
    \/ \E router \in Routers : owner \notin Range(fleet'[router])

\* Once established, an owner keeps its session, and is what every resolution
\* answers, through every other step: in particular while routers learn of new
\* replicas one after another, when their rings disagree about the session
\* (sessionRouter.ts: "a session does not bounce between replicas just because
\* the ring was recomputed").
EstablishedOwnersStay ==
    [][\A session \in Sessions, owner \in Replicas :
          Established(session, owner) /\ ~Unsettles(session, owner) =>
              /\ Established(session, owner)'
              /\ \A c \in RoutingCalls :
                    /\ lookups[c].phase \in { "read", "writing" }
                    /\ lookups'[c].phase = "answered"
                    /\ lookups[c].session = session
                    => lookups'[c].owner = owner]_routingVars

\* A release deletes another replica's entry only if that owner was recorded
\* between the release's two commands: all the compare in releaseOwner, which
\* is not atomic with the delete, can promise.
ReleasesClearOnlyWhatTheyRaced ==
    [][\A c \in RoutingCalls :
          lookups[c].phase = "deleting" /\ DeleteOwner(c) =>
              \/ registry[lookups[c].session] \in { lookups[c].by, NoOwner }
              \/ lookups[c].raced]_routingVars
=============================================================================
