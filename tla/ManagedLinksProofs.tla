-------------------------- MODULE ManagedLinksProofs --------------------------
(***************************************************************************)
(* Proofs about ManagedLinks, for any identities, topologies, link ids and *)
(* callers.  The inductive invariant adds to the three invariants that the *)
(* requests PipeWire has not answered were made on this connection, and    *)
(* that a call under way is about an identity and, if it creates, about a  *)
(* topology.  Nothing is assumed of the properties that links show.        *)
(***************************************************************************)
EXTENDS ManagedLinks, TLAPS

(* The requests that PipeWire will answer were made on this connection.      *)
AnswersAreRequested == pending \subseteq requested

(* What a call under way is about; it has no outcome yet. *)
CallsAreAbout ==
    \A c \in Callers :
       call[c].at \in {"dispatching", "polling"} =>
          /\ call[c].identity \in Identities /\ call[c].outcome = "none"
          /\ call[c].op = "create" => call[c].topology \in Topologies

LinksInv ==
    /\ LinksTypeOK /\ LedgerOfThisConnection /\ NeverAdoptsVisible
    /\ AnswersAreRequested /\ CallsAreAbout

(* The steps of a call that change nothing but the call. *)
CallOnly(c) ==
    \/ \E i \in Identities : Remove(c, i) \/ \E t \in Topologies : Create(c, i, t)
    \/ HandlerRefuses(c) \/ CreateRefused(c) \/ CreateExists(c)
    \/ RemoveFindsNothing(c) \/ RemoveRefused(c)
    \/ Poll(c)

-----------------------------------------------------------------------------
(* A visible link is a link, and one without a topology is none. *)
LEMMA VisibleIsLink ==
    ASSUME LinksTypeOK, NEW l \in visible
    PROVE  l \in LinkIds /\ links[l] \in Link /\ links[l].topology \in Topologies
BY DEF LinksTypeOK, visible, Link, NoLink

(* What a snapshot attributes to an identity shows it in its properties, or  *)
(* appeared after it had been asked for by it on this connection: that is    *)
(* what an entry of the ledger is worth.                                     *)
LEMMA ObservedIsOwned ==
    ASSUME LinksInv, NEW i \in Identities, NEW t \in Topologies, NEW w \in Lookups,
           Satisfied("create", i, t, w)
    PROVE  Answers(i, t)
<1>1. PICK l \in matches(i, w) : links[l].topology = t
  BY DEF Satisfied, Observed
<1>2. l \in visible /\ owner(l, w) = i
  BY <1>1 DEF matches
<1>3. l \in same_topology(t)
  BY <1>1, <1>2 DEF same_topology
<1>4. CASE w[t] # None
  <2>1. w[t] = i
    BY <1>1, <1>2, <1>4 DEF owner
  <2>2. i \in Holders(t)
    BY <1>4, <2>1 DEF Lookups
  <2>3. <<i, t>> \in requested
    BY <2>2, NoneAssumption DEF Holders, LinksInv, LedgerOfThisConnection
  <2>4. i \in links[l].known
    BY <1>1, <1>2, <2>2 DEF LinksInv, NeverAdoptsVisible
  <2> QED
    BY <1>3, <2>3, <2>4 DEF Answers
<1>5. CASE w[t] = None
  BY <1>1, <1>2, <1>3, <1>5 DEF owner, Answers
<1> QED
  BY <1>4, <1>5

-----------------------------------------------------------------------------
LEMMA InitLinksInv == Init => LinksInv
<1> SUFFICES ASSUME Init PROVE LinksInv
  OBVIOUS
<1>1. visible = {}
  BY DEF Init, visible, NoLink
<1>2. NoCall \in Call
  BY DEF NoCall, Call
<1>3. LinksTypeOK
  BY <1>1, <1>2 DEF Init, LinksTypeOK
<1>4. LedgerOfThisConnection
  BY DEF Init, LedgerOfThisConnection
<1>5. NeverAdoptsVisible /\ AnswersAreRequested
  BY <1>1 DEF NeverAdoptsVisible, AnswersAreRequested, Init
<1>6. CallsAreAbout
  BY DEF Init, CallsAreAbout, NoCall
<1> QED
  BY <1>3, <1>4, <1>5, <1>6 DEF LinksInv

(* Of a call that goes on or returns the types are kept. *)
LEMMA ReturnedIsCall ==
    ASSUME NEW k \in Call, NEW outcome \in Statuses
    PROVE  Returned(k, outcome) \in Call /\ Returned(k, outcome).at = "returned"
BY DEF Returned, Call

LEMMA CompleteKeeps ==
    ASSUME LinksInv, NEW c \in Callers, NEW r \in Statuses \cup {"ready"},
           call[c].at = "dispatching", Complete(c, r)
    PROVE  call' \in [Callers -> Call] /\ CallsAreAbout'
<1>1. call \in [Callers -> Call] /\ CallsAreAbout
  BY DEF LinksInv, LinksTypeOK
<1>2. CASE r = "ready"
  <2>1. call' = [call EXCEPT ![c] = [@ EXCEPT !.at = "polling"]]
    BY <1>2 DEF Complete
  <2>2. [call[c] EXCEPT !.at = "polling"] \in Call
    BY <1>1 DEF Call
  <2> QED
    BY <1>1, <2>1, <2>2 DEF CallsAreAbout, Call
<1>3. CASE r # "ready"
  <2>1. call' = [call EXCEPT ![c] = Returned(@, r)]
    BY <1>3 DEF Complete
  <2>2. Returned(call[c], r) \in Call /\ Returned(call[c], r).at = "returned"
    BY <1>1, <1>3, ReturnedIsCall
  <2> QED
    BY <1>1, <2>1, <2>2 DEF CallsAreAbout
<1> QED
  BY <1>2, <1>3

(* The call that Create and Remove make of their arguments. *)
LEMMA AnswerKeeps ==
    ASSUME LinksInv, NEW c \in Callers, NEW k \in Call,
           k.identity \in Identities, k.outcome = "none", k.op = "create" => k.topology \in Topologies,
           NEW results \in SUBSET (Statuses \cup {"none"}), Answer(c, k, results)
    PROVE  call' \in [Callers -> Call] /\ CallsAreAbout'
<1>1. call \in [Callers -> Call] /\ CallsAreAbout
  BY DEF LinksInv, LinksTypeOK
<1>2. PICK result \in results :
         call' = [call EXCEPT ![c] = IF result = "none"
                                     THEN [k EXCEPT !.at = "dispatching"]
                                     ELSE Returned(k, result)]
  BY DEF Answer
<1>3. CASE result = "none"
  <2>1. [k EXCEPT !.at = "dispatching"] \in Call
    BY DEF Call
  <2> QED
    BY <1>1, <1>2, <1>3, <2>1 DEF CallsAreAbout, Call
<1>4. CASE result # "none"
  <2>1. Returned(k, result) \in Call /\ Returned(k, result).at = "returned"
    BY <1>4, ReturnedIsCall
  <2> QED
    BY <1>1, <1>2, <1>4, <2>1 DEF CallsAreAbout
<1> QED
  BY <1>3, <1>4

-----------------------------------------------------------------------------
(* What the calls leave alone stays as it is, whatever becomes of the call.  *)
LEMMA CallOnlyKeeps ==
    ASSUME LinksInv, UNCHANGED <<world, ledger, doomed, requested>>,
           call' \in [Callers -> Call], CallsAreAbout'
    PROVE  LinksInv'
<1> USE DEF world
<1>1. visible' = visible /\ \A t : Holders(t)' = Holders(t)
  BY DEF visible, Holders
<1>2. LinksTypeOK'
  BY <1>1 DEF LinksInv, LinksTypeOK
<1>3. LedgerOfThisConnection'
  BY DEF LinksInv, LedgerOfThisConnection
<1>4. NeverAdoptsVisible' /\ AnswersAreRequested'
  BY <1>1 DEF LinksInv, NeverAdoptsVisible, AnswersAreRequested
<1> QED
  BY <1>2, <1>3, <1>4 DEF LinksInv

LEMMA CallOnlyLinksInv ==
    ASSUME LinksInv, NEW c \in Callers, CallOnly(c)
    PROVE  LinksInv'
<1>1. call \in [Callers -> Call]
  BY DEF LinksInv, LinksTypeOK
<1>2. ASSUME NEW i \in Identities, NEW t \in Topologies, Create(c, i, t)
      PROVE  LinksInv'
  <2>1. PICK g \in 1..generation, w \in Lookups :
           Answer(c, [NoCall EXCEPT !.op = "create", !.identity = i, !.topology = t,
                                    !.generation = g],
                  IF g # generation THEN Stale
                  ELSE EndpointFailures \cup CreatePreflight(i, t, w))
    BY <1>2 DEF Create
  <2> DEFINE k == [NoCall EXCEPT !.op = "create", !.identity = i, !.topology = t,
                                 !.generation = g]
             results == IF g # generation THEN Stale
                        ELSE EndpointFailures \cup CreatePreflight(i, t, w)
  <2>2. generation \in Nat /\ g \in Nat
    BY DEF LinksInv, LinksTypeOK
  <2>3. k \in Call /\ k.identity = i /\ k.topology = t /\ k.outcome = "none"
    BY <2>2 DEF NoCall, Call
  <2>4. results \in SUBSET (Statuses \cup {"none"})
    BY DEF EndpointFailures, CreatePreflight, Stale, Statuses
  <2> HIDE DEF k, results
  <2>5. call' \in [Callers -> Call] /\ CallsAreAbout'
    BY <2>1, <2>3, <2>4, AnswerKeeps DEF k, results
  <2> QED
    BY <1>2, <2>5, CallOnlyKeeps DEF Create
<1>3. ASSUME NEW i \in Identities, Remove(c, i)
      PROVE  LinksInv'
  <2>1. PICK g \in 1..generation, w \in Lookups,
             l \in LinkIds \cup {None} :
           Answer(c, [NoCall EXCEPT !.op = "remove", !.identity = i, !.link = l,
                                    !.generation = g],
                  IF g # generation THEN Stale ELSE RemovePreflight(i, w))
    BY <1>3 DEF Remove, Observed, matches, visible
  <2> DEFINE k == [NoCall EXCEPT !.op = "remove", !.identity = i, !.link = l,
                                 !.generation = g]
             results == IF g # generation THEN Stale ELSE RemovePreflight(i, w)
  <2>2. generation \in Nat /\ g \in Nat
    BY DEF LinksInv, LinksTypeOK
  <2>3. k \in Call /\ k.identity = i /\ k.op = "remove" /\ k.outcome = "none"
    BY <2>2 DEF NoCall, Call
  <2>4. results \in SUBSET (Statuses \cup {"none"})
    BY DEF RemovePreflight, Stale, Statuses
  <2> HIDE DEF k, results
  <2>5. call' \in [Callers -> Call] /\ CallsAreAbout'
    BY <2>1, <2>3, <2>4, AnswerKeeps DEF k, results
  <2> QED
    BY <1>3, <2>5, CallOnlyKeeps DEF Remove
<1>4. CASE \/ HandlerRefuses(c) \/ CreateRefused(c) \/ CreateExists(c)
           \/ RemoveFindsNothing(c) \/ RemoveRefused(c)
  <2>1. PICK r \in Statuses \cup {"ready"} : call[c].at = "dispatching" /\ Complete(c, r)
    BY <1>4 DEF HandlerRefuses, Cancelled, CreateRefused, CreateExists,
                RemoveFindsNothing, RemoveRefused, Runs, Statuses
  <2>2. call' \in [Callers -> Call] /\ CallsAreAbout'
    BY <2>1, CompleteKeeps
  <2>3. UNCHANGED <<world, ledger, doomed, requested>>
    BY <1>4 DEF HandlerRefuses, CreateRefused, CreateExists, RemoveFindsNothing,
                RemoveRefused
  <2> QED
    BY <2>2, <2>3, CallOnlyKeeps
<1>5. CASE Poll(c)
  <2>1. PICK outcome \in Statuses : PollReturns(c, outcome)
    BY <1>5 DEF Poll, Statuses
  <2>2. Returned(call[c], outcome) \in Call /\ Returned(call[c], outcome).at = "returned"
    BY <1>1, ReturnedIsCall
  <2>3. call' \in [Callers -> Call] /\ CallsAreAbout'
    BY <1>1, <2>1, <2>2 DEF PollReturns, CallsAreAbout, LinksInv
  <2> QED
    BY <2>1, <2>3, CallOnlyKeeps DEF PollReturns
<1> QED
  BY <1>2, <1>3, <1>4, <1>5 DEF CallOnly

-----------------------------------------------------------------------------
(* A new entry never meets a visible link of its topology.  *)
LEMMA CreateRequestsLinksInv ==
    ASSUME LinksInv, NEW c \in Callers, CreateRequests(c)
    PROVE  LinksInv'
<1> DEFINE i == call[c].identity
           t == call[c].topology
<1>1. i \in Identities /\ t \in Topologies
  BY DEF LinksInv, CallsAreAbout, CreateRequests, Runs
<1>2. /\ ledger' = [ledger EXCEPT ![i] = t]
      /\ requested' = requested \cup {<<i, t>>}
      /\ pending' = pending \cup {<<i, t>>}
      /\ UNCHANGED <<om, generation, links, doomed>>
  BY DEF CreateRequests, Store
<1>3. visible' = visible
  BY <1>2 DEF visible
<1>4. call' \in [Callers -> Call] /\ CallsAreAbout'
  BY CompleteKeeps DEF CreateRequests, Runs, Store
<1>5. LinksTypeOK'
  BY <1>1, <1>2, <1>3, <1>4 DEF LinksInv, LinksTypeOK
<1>6. LedgerOfThisConnection'
  BY <1>1, <1>2 DEF LinksInv, LinksTypeOK, LedgerOfThisConnection, CreateRequests, Runs
<1>7. NeverAdoptsVisible'
  <2> SUFFICES ASSUME NEW l \in visible PROVE Holders(links[l].topology)' \subseteq links[l].known
    BY <1>2, <1>3 DEF NeverAdoptsVisible
  <2>1. links[l].topology # t
    BY DEF CreateRequests, same_topology
  <2>2. Holders(links[l].topology)' \subseteq Holders(links[l].topology)
    BY <1>1, <1>2, <2>1 DEF Holders, LinksInv, LinksTypeOK
  <2> QED
    BY <2>2 DEF LinksInv, NeverAdoptsVisible
<1>8. AnswersAreRequested'
  BY <1>2, <1>3 DEF LinksInv, AnswersAreRequested
<1> QED
  BY <1>4, <1>5, <1>6, <1>7, <1>8 DEF LinksInv

LEMMA RemoveRequestsLinksInv ==
    ASSUME LinksInv, NEW c \in Callers, RemoveRequests(c)
    PROVE  LinksInv'
<1>1. /\ doomed' = doomed \cup {call[c].link} /\ call[c].link \in visible
      /\ UNCHANGED <<om, generation, links, pending, ledger, requested>>
  BY DEF RemoveRequests, world
<1>2. visible' = visible /\ \A t : Holders(t)' = Holders(t)
  BY <1>1 DEF visible, Holders
<1>3. call' \in [Callers -> Call] /\ CallsAreAbout'
  BY CompleteKeeps DEF RemoveRequests, Runs
<1>4. LinksTypeOK'
  BY <1>1, <1>2, <1>3 DEF LinksInv, LinksTypeOK
<1>5. LedgerOfThisConnection'
  BY <1>1 DEF LinksInv, LedgerOfThisConnection
<1>6. NeverAdoptsVisible' /\ AnswersAreRequested'
  BY <1>1, <1>2 DEF LinksInv, NeverAdoptsVisible, AnswersAreRequested
<1> QED
  BY <1>3, <1>4, <1>5, <1>6 DEF LinksInv

(* A link that appears finds in the ledger whom it will be attributed to.    *)
LEMMA AppearsLinksInv ==
    ASSUME LinksInv, NEW l \in LinkIds, NEW t \in Topologies,
           NEW who \in Identities \cup {None}, NEW claim \in Identities \cup {None},
           Appears(l, t, who, claim), pending' \subseteq pending
    PROVE  LinksInv'
<1> DEFINE new == [topology |-> t, maker |-> who, claim |-> claim, known |-> Holders(t)]
<1>1. /\ links' = [links EXCEPT ![l] = new]
      /\ UNCHANGED <<om, generation, ledger, doomed, call, requested>>
  BY DEF Appears
<1>2. new \in Link /\ t # None
  BY NoneAssumption DEF Link, Holders
<1>3. links' \in [LinkIds -> Link \cup {NoLink}]
  BY <1>1, <1>2 DEF LinksInv, LinksTypeOK
<1>4. visible' = visible \cup {l}
  BY <1>1, <1>2 DEF visible, LinksInv, LinksTypeOK
<1>5. links'[l] = new /\ \A x \in visible : x # l => links'[x] = links[x]
  BY <1>1 DEF LinksInv, LinksTypeOK, visible
<1>6. l \notin visible
  BY DEF Appears
<1>7. \A x : Holders(x)' = Holders(x)
  BY <1>1 DEF Holders
<1>8. LinksTypeOK'
  BY <1>1, <1>3, <1>4 DEF LinksInv, LinksTypeOK
<1>9. LedgerOfThisConnection'
  BY <1>1 DEF LinksInv, LedgerOfThisConnection
<1>10. NeverAdoptsVisible'
  BY <1>4, <1>5, <1>6, <1>7 DEF LinksInv, NeverAdoptsVisible
<1>11. AnswersAreRequested'
  BY <1>1, <1>4, <1>5, <1>6 DEF LinksInv, AnswersAreRequested
<1>12. CallsAreAbout'
  BY <1>1 DEF LinksInv, CallsAreAbout
<1> QED
  BY <1>8, <1>9, <1>10, <1>11, <1>12 DEF LinksInv

LEMMA LinkRemovedLinksInv ==
    ASSUME LinksInv, NEW l \in LinkIds, LinkRemoved(l)
    PROVE  LinksInv'
<1>1. /\ links' = [links EXCEPT ![l] = NoLink]
      /\ doomed' = doomed \ {l}
      /\ UNCHANGED <<om, generation, pending, call, requested>>
  BY DEF LinkRemoved
<1>2. visible' = visible \ {l} /\ links' \in [LinkIds -> Link \cup {NoLink}]
  BY <1>1 DEF visible, NoLink, LinksInv, LinksTypeOK
<1>3. /\ ledger' \in [Identities -> Topologies \cup {None}]
      /\ \A i \in Identities : ledger'[i] \in {ledger[i], None}
  BY DEF LinkRemoved, LinksInv, LinksTypeOK, Holders
<1>4. \A x \in visible' : links'[x] = links[x] /\ links[x].topology # None
  BY <1>1, <1>2 DEF visible, LinksInv, LinksTypeOK
<1>5. LinksTypeOK'
  BY <1>1, <1>2, <1>3 DEF LinksInv, LinksTypeOK
<1>6. LedgerOfThisConnection'
  BY <1>1, <1>3 DEF LinksInv, LedgerOfThisConnection
<1>7. NeverAdoptsVisible'
  <2>1. \A x \in visible' : Holders(links[x].topology)' \subseteq Holders(links[x].topology)
    BY <1>3, <1>4 DEF Holders
  <2> QED
    BY <1>2, <1>4, <2>1 DEF LinksInv, NeverAdoptsVisible, Holders
<1>8. AnswersAreRequested' /\ CallsAreAbout'
  BY <1>1, <1>2, <1>4 DEF LinksInv, AnswersAreRequested, CallsAreAbout
<1> QED
  BY <1>5, <1>6, <1>7, <1>8 DEF LinksInv

LEMMA CoreLostLinksInv ==
    ASSUME LinksInv, CoreLost
    PROVE  LinksInv'
<1>1. PICK cancelled \in SUBSET Callers : Disconnect(cancelled)
  BY DEF CoreLost
<1>2. /\ om' = "none" /\ links' = [l \in LinkIds |-> NoLink]
      /\ pending' = {} /\ doomed' = {} /\ requested' = {}
      /\ ledger' = [i \in Identities |-> None]
      /\ generation' = generation
  BY <1>1 DEF CoreLost, Disconnect
<1>3. visible' = {}
  BY <1>2 DEF visible, NoLink
<1>4. \A c \in Callers : call'[c] = call[c] \/ call'[c] = Returned(call[c], "cancelled")
  BY <1>1 DEF Disconnect
<1>5. \A c \in Callers : /\ Returned(call[c], "cancelled") \in Call
                         /\ Returned(call[c], "cancelled").at = "returned"
  BY ReturnedIsCall DEF LinksInv, LinksTypeOK, Statuses
<1>6. call' \in [Callers -> Call]
  BY <1>1, <1>5 DEF Disconnect, LinksInv, LinksTypeOK
<1>7. LinksTypeOK'
  BY <1>2, <1>3, <1>6 DEF LinksInv, LinksTypeOK
<1>8. LedgerOfThisConnection'
  BY <1>2 DEF LedgerOfThisConnection
<1>9. NeverAdoptsVisible' /\ AnswersAreRequested'
  BY <1>2, <1>3 DEF NeverAdoptsVisible, AnswersAreRequested
<1>10. CallsAreAbout'
  BY <1>4, <1>5 DEF CallsAreAbout, LinksInv
<1> QED
  BY <1>7, <1>8, <1>9, <1>10 DEF LinksInv

-----------------------------------------------------------------------------
LEMMA NextLinksInv == LinksInv /\ [Next]_vars => LinksInv'
<1> SUFFICES ASSUME LinksInv, [Next]_vars PROVE LinksInv'
  OBVIOUS
<1>1. ASSUME NEW c \in Callers, CallOnly(c) PROVE LinksInv'
  BY <1>1, CallOnlyLinksInv
<1>2. ASSUME NEW c \in Callers, CreateRequests(c) \/ RemoveRequests(c) PROVE LinksInv'
  BY <1>2, CreateRequestsLinksInv, RemoveRequestsLinksInv
<1>3. ASSUME NEW l \in LinkIds, LinkAccepted(l) PROVE LinksInv'
  <2>1. PICK p \in pending, exposed \in BOOLEAN :
           /\ Appears(l, p[2], p[1], IF exposed THEN p[1] ELSE None)
           /\ pending' = pending \ {p}
    BY <1>3 DEF LinkAccepted
  <2>2. /\ p = <<p[1], p[2]>> /\ p[1] \in Identities /\ p[2] \in Topologies
        /\ p \in requested
    BY DEF LinksInv, LinksTypeOK, AnswersAreRequested
  <2> QED
    BY <2>1, <2>2, AppearsLinksInv
<1>4. ASSUME NEW l \in LinkIds, OtherLinkAppears(l) PROVE LinksInv'
  BY <1>4, AppearsLinksInv DEF OtherLinkAppears
<1>5. ASSUME NEW l \in LinkIds, LinkRemoved(l) PROVE LinksInv'
  BY <1>5, LinkRemovedLinksInv
<1>6. CASE CoreLost
  BY <1>6, CoreLostLinksInv
<1>7. CASE LinkRefused \/ InstallOm \/ OmInstalled \/ UNCHANGED vars
  <2>1. /\ UNCHANGED <<links, ledger, doomed, call, requested>> /\ pending' \subseteq pending
        /\ generation' \in Nat /\ om' \in {om, "new", "installed"}
    BY <1>7 DEF LinkRefused, InstallOm, OmInstalled, vars, LinksInv, LinksTypeOK
  <2>2. visible' = visible /\ \A t : Holders(t)' = Holders(t)
    BY <2>1 DEF visible, Holders
  <2>3. LinksTypeOK'
    BY <2>1, <2>2 DEF LinksInv, LinksTypeOK
  <2>4. LedgerOfThisConnection'
    BY <2>1 DEF LinksInv, LedgerOfThisConnection
  <2>5. NeverAdoptsVisible' /\ AnswersAreRequested' /\ CallsAreAbout'
    BY <2>1, <2>2 DEF LinksInv, NeverAdoptsVisible, AnswersAreRequested, CallsAreAbout
  <2> QED
    BY <2>3, <2>4, <2>5 DEF LinksInv
<1> QED
  BY <1>1, <1>2, <1>3, <1>4, <1>5, <1>6, <1>7 DEF Next, Handler, CallOnly

LEMMA LinksInvHolds == Spec => []LinksInv
BY InitLinksInv, NextLinksInv, PTL DEF Spec

(* The state of the managed links is well typed, and a link whose            *)
(* destruction is requested is one that is there.                            *)
THEOREM LinksTypeCorrect == Spec => []LinksTypeOK
<1>1. LinksInv => LinksTypeOK
  BY DEF LinksInv
<1> QED
  BY LinksInvHolds, <1>1, PTL

(* managed_links holds only what was asked for on the present connection.    *)
THEOREM LedgerDiesWithConnection == Spec => []LedgerOfThisConnection
<1>1. LinksInv => LedgerOfThisConnection
  BY DEF LinksInv
<1> QED
  BY LinksInvHolds, <1>1, PTL

(* execute_create_link() enters no identity for a link that is visible.      *)
THEOREM VisibleIsNeverAdopted == Spec => []NeverAdoptsVisible
<1>1. LinksInv => NeverAdoptsVisible
  BY DEF LinksInv
<1> QED
  BY LinksInvHolds, <1>1, PTL

-----------------------------------------------------------------------------
(* Only execute_remove_link() asks for a link to be destroyed, and only for  *)
(* an identity that had its topology in the ledger before it appeared.       *)
THEOREM RemovalIsClaimed == Spec => RemovesOnlyClaimed
<1> DEFINE Claimed(l) ==
             \E c \in Callers : /\ call[c].at = "dispatching" /\ call'[c].at = "polling"
                                /\ call[c].op = "remove" /\ call[c].link = l
                                /\ call[c].identity \in links[l].known
<1>1. ASSUME LinksInv, [Next]_vars, NEW l \in LinkIds, Destroyed(l) PROVE Claimed(l)
  <2>1. PICK c \in Callers : RemoveRequests(c)
    BY <1>1 DEF Next, Handler, Destroyed, vars, Remove, Create, HandlerRefuses,
          CreateRefused, CreateExists, CreateRequests, Store, RemoveFindsNothing,
          RemoveRefused, Poll, PollReturns, LinkAccepted, OtherLinkAppears, Appears,
          LinkRemoved, LinkRefused, CoreLost, Disconnect, InstallOm, OmInstalled
  <2>2. call[c].link = l /\ call[c].at = "dispatching" /\ call[c].op = "remove"
    BY <1>1, <2>1 DEF RemoveRequests, Destroyed, Runs
  <2>3. call'[c].at = "polling"
    BY <1>1, <2>1 DEF RemoveRequests, Complete, LinksInv, LinksTypeOK, Call
  <2>4. call[c].identity \in Holders(links[l].topology)
    BY <1>1, <2>1, <2>2 DEF RemoveRequests, Holders, LinksInv, CallsAreAbout
  <2>5. call[c].identity \in links[l].known
    BY <1>1, <2>1, <2>2, <2>4 DEF RemoveRequests, LinksInv, NeverAdoptsVisible
  <2> QED
    BY <2>2, <2>3, <2>5
<1>2. LinksInv /\ [Next]_vars =>
         [\A l \in LinkIds : Destroyed(l) => Claimed(l)]_vars
  BY <1>1
<1> QED
  BY LinksInvHolds, <1>2, PTL DEF Spec, RemovesOnlyClaimed

(* create_managed_link() reports success, by whatever path it returns, only  *)
(* for a link that shows the identity or that appeared after the identity    *)
(* had asked PipeWire for it on this connection, whatever properties other   *)
(* clients give their links.                                                 *)
THEOREM ConfirmationIsOwned == Spec => ConfirmedIsOwned
<1>1. ASSUME LinksInv, [Next]_vars, NEW c \in Callers, Confirms(c)
      PROVE  Answers(call'[c].identity, call'[c].topology)
  <2>1. call \in [Callers -> Call]
    BY <1>1 DEF LinksInv, LinksTypeOK
  <2>2. ASSUME NEW d \in Callers, NEW r \in (Statuses \ {"confirmed"}) \cup {"ready"},
               call[d].at = "dispatching", Complete(d, r)
        PROVE  FALSE
    <3>1. d = c
      BY <1>1, <2>1, <2>2 DEF Confirms, Complete
    <3>2. call[c].outcome = "none"
      BY <1>1, <2>2, <3>1 DEF LinksInv, CallsAreAbout
    <3> QED
      BY <1>1, <2>1, <2>2, <3>1, <3>2 DEF Confirms, Complete, Returned, Call
  <2>3. ASSUME NEW i \in Identities, NEW t \in Topologies, NEW d \in Callers, Create(d, i, t)
        PROVE  Answers(call'[c].identity, call'[c].topology)
    <3> DEFINE k(g) == [NoCall EXCEPT !.op = "create", !.identity = i, !.topology = t,
                                      !.generation = g]
    <3>1. PICK g \in 1..generation, w \in Lookups, r \in Statuses \cup {"none"} :
             /\ r = "confirmed" => Satisfied("create", i, t, w)
             /\ call' = [call EXCEPT ![d] = IF r = "none"
                                            THEN [k(g) EXCEPT !.at = "dispatching"]
                                            ELSE Returned(k(g), r)]
      BY <2>3 DEF Create, Answer, CreatePreflight, EndpointFailures, Stale, Statuses
    <3>2. d = c
      BY <1>1, <2>1, <3>1 DEF Confirms
    <3>3. r = "confirmed"
      BY <1>1, <2>1, <3>1, <3>2 DEF Confirms, Returned, NoCall
    <3>4. call'[c].identity = i /\ call'[c].topology = t
      BY <2>1, <3>1, <3>2, <3>3 DEF Returned, NoCall
    <3> QED
      BY <1>1, <3>1, <3>3, <3>4, ObservedIsOwned
  <2>4. ASSUME NEW i \in Identities, NEW d \in Callers, Remove(d, i)
        PROVE  FALSE
    <3> DEFINE k(g, l) == [NoCall EXCEPT !.op = "remove", !.identity = i, !.link = l,
                                         !.generation = g]
    <3>1. \E g, l, r : call' = [call EXCEPT ![d] = IF r = "none"
                                        THEN [k(g, l) EXCEPT !.at = "dispatching"]
                                        ELSE Returned(k(g, l), r)]
      BY <2>4 DEF Remove, Answer
    <3> QED
      BY <1>1, <2>1, <3>1 DEF Confirms, Returned, NoCall
  <2>5. ASSUME NEW d \in Callers, Poll(d)
        PROVE  Answers(call'[c].identity, call'[c].topology)
    <3>1. PICK r \in Statuses :
             /\ PollReturns(d, r)
             /\ r = "confirmed" => \E w \in Lookups :
                   Satisfied(call[d].op, call[d].identity, call[d].topology, w)
      BY <2>5 DEF Poll, Statuses
    <3>2. d = c
      BY <1>1, <2>1, <3>1 DEF Confirms, PollReturns
    <3>3. call'[c] = Returned(call[c], r)
      BY <2>1, <3>1, <3>2 DEF PollReturns
    <3>4. /\ r = "confirmed" /\ call[c].op = "create"
          /\ call'[c].identity = call[c].identity /\ call'[c].topology = call[c].topology
      BY <1>1, <2>1, <3>3 DEF Confirms, Returned, Call
    <3>5. call[c].identity \in Identities /\ call[c].topology \in Topologies
      BY <1>1, <3>1, <3>2, <3>4 DEF LinksInv, CallsAreAbout, PollReturns
    <3> QED
      BY <1>1, <3>1, <3>2, <3>4, <3>5, ObservedIsOwned
  <2>6. ASSUME NEW d \in Callers, Handler(d)
        PROVE  FALSE
    <3>1. PICK r \in (Statuses \ {"confirmed"}) \cup {"ready"} :
             call[d].at = "dispatching" /\ Complete(d, r)
      BY <2>6 DEF Handler, HandlerRefuses, Cancelled, CreateRefused, CreateExists,
            CreateRequests, Store, RemoveFindsNothing, RemoveRefused, RemoveRequests,
            Runs, Statuses
    <3> QED
      BY <2>2, <3>1
  <2>7. ASSUME CoreLost
        PROVE  FALSE
    <3>1. call'[c] = call[c] \/ call'[c] = Returned(call[c], "cancelled")
      BY <2>7 DEF CoreLost, Disconnect
    <3> QED
      BY <1>1, <2>1, <3>1 DEF Confirms, Returned, Call
  <2>8. ASSUME UNCHANGED call
        PROVE  FALSE
    BY <1>1, <2>8 DEF Confirms
  <2>9. ASSUME NEW l \in LinkIds, LinkAccepted(l) \/ OtherLinkAppears(l) \/ LinkRemoved(l)
        PROVE  UNCHANGED call
    BY <2>9 DEF LinkAccepted, OtherLinkAppears, Appears, LinkRemoved
  <2>10. ASSUME LinkRefused \/ InstallOm \/ OmInstalled \/ UNCHANGED vars
         PROVE  UNCHANGED call
    BY <2>10 DEF LinkRefused, InstallOm, OmInstalled, vars
  <2> QED
    BY <1>1, <2>3, <2>4, <2>5, <2>6, <2>7, <2>8, <2>9, <2>10 DEF Next
<1>2. LinksInv /\ [Next]_vars =>
         [\A c \in Callers : Confirms(c) =>
             Answers(call'[c].identity, call'[c].topology)]_vars
  BY <1>1
<1> QED
  BY LinksInvHolds, <1>2, PTL DEF Spec, ConfirmedIsOwned
=============================================================================
