----------------------------- MODULE Serving_proofs -----------------------------
(***************************************************************************)
(* Proofs about Serving, for any number of stages, requests, lengths and   *)
(* reconfigurations.                                                       *)
(*                                                                         *)
(* As long as no stage gives up or is left inside a request, all stages    *)
(* are where the root's request wants them: the request is with the root,  *)
(* its activation is on the way to one stage, its token is on the way back *)
(* or with the root, or it is over.  ServingInv says for each of the five  *)
(* where every follower may be and what is on its sockets; that a stage's  *)
(* own count agrees with the root's is part of it.  A reconfiguration      *)
(* leaves empty sockets, whatever was there before.                        *)
(***************************************************************************)
EXTENDS Serving, TLAPS

-----------------------------------------------------------------------------
(* The inductive invariant. *)

Announcement(q) == <<Message("bs", q, 0), Message("prompts", q, 0), Message("lens", q, 0)>>
Tokens == [k : {"tok"}, q : 1..R, i : Nat \ {0}, eos : BOOLEAN]

(* The token after which a request is complete: is_generation_complete.    *)
Final(t) == t.eos \/ t.i >= Limit[t.q]

(* Stem s waits for token t, which the root has sent it, or has it; after  *)
(* the token there is `rest' to read.                                      *)
Pending(s, t, rest) ==
  /\ pc[s] = "fb" /\ gen[s] = [q |-> t.q, n |-> t.i - 1]
  /\ \/ work[s] /\ meta[s] = <<t>> \o rest
     \/ ~work[s] /\ tok[s] = t /\ meta[s] = rest

(* Follower s is through with a request, or will be after the last token.  *)
Ended(s, rest) == pc[s] \in {"top", "prompt"} /\ ~work[s] /\ meta[s] = rest
Over(s, rest) ==
  \/ Ended(s, rest)
  \/ s \in Stems /\ \E t \in Tokens : Final(t) /\ Pending(s, t, rest)

(* Follower s has not read the announcement to its end; if it has lost its *)
(* connections before, it never will.                                      *)
Reading(s) ==
  \/ Over(s, Announcement(req))
  \/ /\ pc[s] = "plist" /\ ~work[s]
     /\ meta[s] = <<Message("prompts", req, 0), Message("lens", req, 0)>>
  \/ pc[s] = "lens" /\ ~work[s] /\ meta[s] = <<Message("lens", req, 0)>>
  \/ pc[s] \in {"lost", "paused", "deaf"} /\ ~work[s] /\ meta[s] = Announcement(req)

(* Follower s waits for the activation of step n + 1; or is not that far;  *)
(* or has handed it on and waits for the token; or is beyond, with token t *)
(* of that step sent.                                                      *)
Ready(s, n) == pc[s] = "act" /\ gen[s] = [q |-> req, n |-> n] /\ ~work[s] /\ meta[s] = << >>
Behind(s, n) ==
  \/ Ready(s, n)
  \/ n = 0 /\ Reading(s)
  \/ /\ n > 0 /\ s \in Stems
     /\ ~Final(Message("tok", req, n)) /\ Pending(s, Message("tok", req, n), << >>)
Waiting(s, n) == pc[s] = "fb" /\ gen[s] = [q |-> req, n |-> n] /\ work[s] /\ meta[s] = << >>
Beyond(s, t) ==
  \/ s \in Stems /\ Pending(s, t, << >>)
  \/ Final(t) /\ Ended(s, << >>)
  \/ ~Final(t) /\ Ready(s, t.i)

NoActivations == \A s \in Followers : act[s] = << >>

(* Where the request is: with the root, on its way to stage l, answered by *)
(* the leaf with t, known to the root, or complete.                        *)
AtRoot ==
  /\ pc[0] = "send" /\ ~work[0] /\ up = << >> /\ NoActivations
  /\ \A s \in Followers : Behind(s, gen[0].n)
AtStage(l) ==
  /\ pc[0] = "fb" /\ work[0] /\ up = << >>
  /\ \A s \in Followers :
       /\ act[s] = IF s = l THEN <<Message("act", req, gen[0].n + 1)>> ELSE << >>
       /\ IF s < l THEN Waiting(s, gen[0].n) ELSE Behind(s, gen[0].n)
OfStep(t) == t.q = req /\ t.i = gen[0].n + 1
Returning(t) ==
  /\ pc[0] = "fb" /\ work[0] /\ up = <<t>> /\ NoActivations /\ OfStep(t)
  /\ \A s \in Stems : Waiting(s, gen[0].n)
  /\ Beyond(Leaf, t)
Returned(t) ==
  /\ pc[0] = "fb" /\ ~work[0] /\ tok[0] = t /\ up = << >> /\ NoActivations /\ OfStep(t)
  /\ \A s \in Followers : Beyond(s, t)
AtRest ==
  /\ pc[0] = "idle" /\ ~work[0] /\ up = << >> /\ NoActivations
  /\ \A s \in Followers : Over(s, << >>)

(* No request has begun on these connections. *)
Fresh ==
  /\ ~work[0] /\ up = << >> /\ NoActivations
  /\ \A s \in Followers : /\ pc[s] \in {"top", "prompt", "lost", "paused", "deaf"}
                          /\ ~work[s] /\ meta[s] = << >>

Somewhere ==
  \/ AtRoot
  \/ \E l \in Followers : AtStage(l)
  \/ \E t \in Tokens : Returning(t) \/ Returned(t)
  \/ AtRest

Healthy ==
  /\ orphans = 0
  /\ \A q \in foreign : q <= before
  /\ IF req = before THEN Fresh ELSE Somewhere

(* The types; a message on a socket is of a kind that is sent there.       *)
MessageOf(kinds) == [k : kinds, q : Nat, i : Nat, eos : BOOLEAN]
ForFollower(s) ==
  MessageOf(IF s = Leaf THEN {"bs", "prompts", "lens"} ELSE {"bs", "prompts", "lens", "tok"})
FollowerLabels == Labels \ {"idle", "send"}

ServingTypes ==
  /\ pc \in [Stages -> Labels]
  /\ pc[0] \in {"idle", "send", "fb"} /\ \A s \in Followers : pc[s] \in FollowerLabels
  /\ req \in 0..R /\ before \in 0..req /\ sess \in 1..MaxSessions
  /\ gen \in [Stages -> [q : Nat, n : Nat]]
  /\ pc[0] # "idle" => gen[0].q = req /\ req > 0
  /\ meta = [s \in Followers |-> meta[s]] /\ \A s \in Followers : meta[s] \in Seq(ForFollower(s))
  /\ act \in [Followers -> Seq(MessageOf({"act"}))]
  /\ up \in Seq(MessageOf({"tok"}))
  /\ work \in [Stages -> BOOLEAN] /\ \A s \in Stages : work[s] => pc[s] = "fb"
  /\ ~work[Leaf]
  /\ tok = [s \in Stages |-> tok[s]]
  /\ orphans \in Nat
  /\ broken \in BOOLEAN
  /\ \A q \in foreign : q \in Nat /\ q <= req

ServingInv == ServingTypes /\ (broken \/ Healthy)

-----------------------------------------------------------------------------
(* Stages, and sequences of messages. *)

LEMMA StageFacts ==
  /\ N \in Nat /\ N >= 2 /\ Leaf \in Nat /\ Leaf >= 1
  /\ 0 \in Stages /\ 0 \notin Followers /\ 0 \notin Stems
  /\ Followers \subseteq Stages /\ Stems \subseteq Followers
  /\ \A s \in Followers : s \in Nat /\ s >= 1 /\ s <= Leaf
  /\ Leaf \in Followers /\ Leaf \in Stages /\ Leaf \notin Stems /\ Leaf # 0
  /\ \A s \in Followers : s # Leaf => s \in Stems
  /\ 1 \in Followers
  /\ \A s \in Stems : s + 1 \in Followers /\ s + 1 # s /\ s # Leaf /\ s < Leaf
  /\ \A s \in Stages : s = 0 \/ s \in Followers
BY StagesAssumption DEF Stages, Leaf, Followers, Stems

LEMMA ServingBounds == R \in Nat /\ MaxSessions \in Nat /\ MaxSessions >= 1
BY LimitAssumption, SessionsAssumption

LEMMA MessageTypes ==
  /\ \A q, i \in Nat : Message("act", q, i) \in MessageOf({"act"})
  /\ \A q \in Nat, s \in Followers : Announcement(q) \in Seq(ForFollower(s))
  /\ \A m \in MessageOf({"act"}), eos \in BOOLEAN :
       Token(m, eos) = [k |-> "tok", q |-> m.q, i |-> m.i, eos |-> eos]
       /\ Token(m, eos) \in MessageOf({"tok"})
  /\ \A s \in Stems, m \in MessageOf({"tok"}) : m \in ForFollower(s)
<1>1. \A q, i \in Nat : Message("act", q, i) \in MessageOf({"act"})
  BY DEF Message, MessageOf
<1>2. ASSUME NEW q \in Nat, NEW s \in Followers PROVE Announcement(q) \in Seq(ForFollower(s))
  <2>1. /\ Message("bs", q, 0) \in ForFollower(s)
        /\ Message("prompts", q, 0) \in ForFollower(s)
        /\ Message("lens", q, 0) \in ForFollower(s)
    BY DEF Message, ForFollower, MessageOf
  <2>. QED
    BY <2>1 DEF Announcement
<1>3. ASSUME NEW m \in MessageOf({"act"}), NEW eos \in BOOLEAN
      PROVE  /\ Token(m, eos) = [k |-> "tok", q |-> m.q, i |-> m.i, eos |-> eos]
             /\ Token(m, eos) \in MessageOf({"tok"})
  BY DEF Token, Message, MessageOf
<1>4. ASSUME NEW s \in Stems, NEW m \in MessageOf({"tok"}) PROVE m \in ForFollower(s)
  BY StageFacts DEF MessageOf, ForFollower
<1>. QED
  BY <1>1, <1>2, <1>3, <1>4

LEMMA HeadAndTail ==
  ASSUME NEW S, NEW s \in Seq(S), s # << >>
  PROVE  Head(s) \in S /\ Tail(s) \in Seq(S)
OBVIOUS

-----------------------------------------------------------------------------
(* The types are kept. *)

(* Leave and Count, as functions of a stage. *)
LEMMA LeaveTypes ==
  ASSUME ServingTypes, NEW s \in Stages, NEW label \in Labels, Leave(s, label)
  PROVE  /\ pc' = [pc EXCEPT ![s] = label]
         /\ gen' = [gen EXCEPT ![s] = NoGen]
         /\ pc' \in [Stages -> Labels] /\ pc'[s] = label
         /\ \A r \in Stages : r # s => pc'[r] = pc[r] /\ gen'[r] = gen[r]
         /\ gen' \in [Stages -> [q : Nat, n : Nat]] /\ gen'[s] = NoGen
BY DEF Leave, Goto, SetGen, NoGen, ServingTypes

LEMMA CountTypes ==
  ASSUME ServingTypes, NEW s \in Stages, NEW t, Count(s, t)
  PROVE  /\ pc' \in [Stages -> Labels]
         /\ pc'[s] \in (IF s = 0 THEN {"idle", "send"} ELSE {"top", "act"})
         /\ \A r \in Stages : r # s => pc'[r] = pc[r] /\ gen'[r] = gen[r]
         /\ gen' \in [Stages -> [q : Nat, n : Nat]]
         /\ pc'[s] \in {"idle", "top"} \/ gen'[s].q = gen[s].q
<1>1. CASE Complete(s, t)
  <2>1. (IF s = 0 THEN "idle" ELSE "top") \in Labels
    BY DEF Labels
  <2>2. Leave(s, IF s = 0 THEN "idle" ELSE "top")
    BY <1>1 DEF Count
  <2>. QED
    BY <2>1, <2>2, LeaveTypes
<1>2. CASE ~Complete(s, t)
  <2>1. /\ pc' = [pc EXCEPT ![s] = IF s = 0 THEN "send" ELSE "act"]
        /\ gen' = [gen EXCEPT ![s].n = @ + 1]
    BY <1>2 DEF Count, Goto
  <2>2. (IF s = 0 THEN "send" ELSE "act") \in Labels
    BY DEF Labels
  <2>3. gen[s] \in [q : Nat, n : Nat]
    BY DEF ServingTypes
  <2>4. gen' = [gen EXCEPT ![s] = [gen[s] EXCEPT !.n = gen[s].n + 1]]
    BY <2>1
  <2>5. [gen[s] EXCEPT !.n = gen[s].n + 1] \in [q : Nat, n : Nat]
        /\ [gen[s] EXCEPT !.n = gen[s].n + 1].q = gen[s].q
    BY <2>3
  <2>. QED
    BY <2>1, <2>2, <2>4, <2>5 DEF ServingTypes
<1>. QED
  BY <1>1, <1>2

(* What a stage's own step changes leaves the types of the others.         *)
LEMMA OneStageTypes ==
  ASSUME ServingTypes, NEW s \in Stages,
         pc' \in [Stages -> Labels], gen' \in [Stages -> [q : Nat, n : Nat]],
         work' \in [Stages -> BOOLEAN], tok' = [r \in Stages |-> tok'[r]],
         \A r \in Stages : r # s => /\ pc'[r] = pc[r] /\ work'[r] = work[r]
                                    /\ r = 0 => gen'[r] = gen[r],
         IF s = 0 THEN /\ pc'[s] \in {"idle", "send", "fb"}
                       /\ pc'[s] # "idle" => gen'[s].q = req' /\ req' > 0
                  ELSE pc'[s] \in FollowerLabels,
         work'[s] => pc'[s] = "fb" /\ s # Leaf,
         s # 0 => req' = req,
         req' \in 0..R, req' >= req, before' = before, sess' = sess,
         meta' = [r \in Followers |-> meta'[r]],
         \A r \in Followers : meta'[r] \in Seq(ForFollower(r)),
         act' \in [Followers -> Seq(MessageOf({"act"}))],
         up' \in Seq(MessageOf({"tok"})),
         orphans' \in Nat, broken' \in BOOLEAN,
         \A q \in foreign' : q \in Nat /\ q <= req
  PROVE  ServingTypes'
<1>1. pc'[0] \in {"idle", "send", "fb"} /\ (pc'[0] # "idle" => gen'[0].q = req' /\ req' > 0)
  <2>1. CASE s = 0
    BY <2>1
  <2>2. CASE s # 0
    <3>1. pc'[0] = pc[0] /\ gen'[0] = gen[0] /\ req' = req
      BY <2>2, StageFacts
    <3>. QED
      BY <3>1 DEF ServingTypes
  <2>. QED
    BY <2>1, <2>2
<1>2. \A r \in Followers : pc'[r] \in FollowerLabels
  BY StageFacts DEF ServingTypes
<1>3. \A r \in Stages : work'[r] => pc'[r] = "fb"
  BY DEF ServingTypes
<1>4. ~work'[Leaf]
  BY StageFacts DEF ServingTypes
<1>5. before' \in 0..req' /\ sess' \in 1..MaxSessions
  <2>1. before \in 0..req /\ req \in 0..R /\ R \in Nat /\ sess \in 1..MaxSessions
    BY ServingBounds DEF ServingTypes
  <2>. QED
    BY <2>1
<1>6. \A q \in foreign' : q \in Nat /\ q <= req'
  <2>1. req \in Nat /\ req' \in Nat
    BY ServingBounds DEF ServingTypes
  <2>. QED
    BY <2>1
<1>7. (meta' = [r \in Followers |-> meta'[r]]) /\ \A r \in Followers : meta'[r] \in Seq(ForFollower(r))
  OBVIOUS
<1>. QED
  BY <1>1, <1>2, <1>3, <1>4, <1>5, <1>6, <1>7 DEF ServingTypes

LEMMA BroadcastTypes ==
  ASSUME ServingTypes, NEW ms, NEW to \in SUBSET Followers,
         \A s \in to : ms \in Seq(ForFollower(s)), Broadcast(ms, to)
  PROVE  /\ meta' = [r \in Followers |-> meta'[r]]
         /\ \A r \in Followers : meta'[r] \in Seq(ForFollower(r))
<1>1. \A r \in Followers : meta[r] \in Seq(ForFollower(r))
  BY DEF ServingTypes
<1>2. meta' = [r \in Followers |-> IF r \in to THEN meta[r] \o ms ELSE meta[r]]
  BY DEF Broadcast
<1>3. ASSUME NEW r \in Followers PROVE meta'[r] \in Seq(ForFollower(r))
  BY <1>1, <1>2
<1>. QED
  BY <1>2, <1>3

LEMMA TakeTypes ==
  ASSUME ServingTypes, NEW s \in Followers, meta[s] # << >>, meta' = [meta EXCEPT ![s] = Tail(@)]
  PROVE  /\ Head(meta[s]) \in ForFollower(s)
         /\ meta' = [r \in Followers |-> meta'[r]]
         /\ \A r \in Followers : meta'[r] \in Seq(ForFollower(r))
<1>1. meta[s] \in Seq(ForFollower(s))
  BY DEF ServingTypes
<1>2. Head(meta[s]) \in ForFollower(s) /\ Tail(meta[s]) \in Seq(ForFollower(s))
  BY <1>1, HeadAndTail
<1>. QED
  BY <1>2 DEF ServingTypes

LEMMA AppendTypes ==
  ASSUME NEW f \in [Followers -> Seq(MessageOf({"act"}))], NEW s \in Followers,
         NEW m \in MessageOf({"act"})
  PROVE  [f EXCEPT ![s] = Append(@, m)] \in [Followers -> Seq(MessageOf({"act"}))]
OBVIOUS

(* Forward, with what comes in and what is left of it.                     *)
LEMMA ForwardTypes ==
  ASSUME ServingTypes, NEW s \in Followers, pc[s] = "act", NEW m \in MessageOf({"act"}),
         Forward(s, m), NEW f \in [Followers -> Seq(MessageOf({"act"}))],
         act' = IF s = Leaf THEN f ELSE [f EXCEPT ![s + 1] = Append(@, m)],
         UNCHANGED <<req, meta, before, sess>>, broken' \in BOOLEAN, foreign' = foreign
  PROVE  ServingTypes'
<1>1. /\ 0 \in Stages /\ s \in Stages /\ s # 0 /\ Leaf \in Stages
  BY StageFacts
<1>2. /\ req \in 0..R /\ up \in Seq(MessageOf({"tok"})) /\ orphans \in Nat
      /\ meta' = [r \in Followers |-> meta'[r]]
      /\ \A r \in Followers : meta'[r] \in Seq(ForFollower(r))
      /\ \A q \in foreign' : q \in Nat /\ q <= req
      /\ work \in [Stages -> BOOLEAN] /\ tok = [r \in Stages |-> tok[r]]
      /\ pc \in [Stages -> Labels] /\ gen \in [Stages -> [q : Nat, n : Nat]]
  BY DEF ServingTypes
<1>3. CASE s = Leaf
  <2>1. PICK eos \in BOOLEAN : /\ Feedback(Token(m, eos)) /\ Count(s, Token(m, eos))
                               /\ UNCHANGED receivers
    BY <1>3 DEF Forward
  <2>2. up' \in Seq(MessageOf({"tok"}))
    BY <2>1, <1>2, MessageTypes DEF Feedback
  <2>3. /\ pc' \in [Stages -> Labels]
        /\ pc'[s] \in {"top", "act"}
        /\ \A r \in Stages : r # s => pc'[r] = pc[r] /\ gen'[r] = gen[r]
        /\ gen' \in [Stages -> [q : Nat, n : Nat]]
    BY <2>1, <1>1, CountTypes
  <2>4. work' = work /\ tok' = tok /\ orphans' = orphans /\ ~work[s]
    BY <2>1, <1>1 DEF receivers, ServingTypes
  <2>5. pc'[s] \in FollowerLabels
    BY <2>3 DEF FollowerLabels, Labels
  <2>6. act' \in [Followers -> Seq(MessageOf({"act"}))]
    BY <1>3
  <2>7. req' = req /\ before' = before /\ sess' = sess /\ req' \in 0..R /\ req' >= req
    BY <1>2, ServingBounds
  <2>8. \A r \in Stages : r # s => /\ pc'[r] = pc[r] /\ work'[r] = work[r]
                                   /\ r = 0 => gen'[r] = gen[r]
    BY <2>3, <2>4
  <2>9. /\ work' \in [Stages -> BOOLEAN] /\ tok' = [r \in Stages |-> tok'[r]]
        /\ orphans' \in Nat /\ ~work'[s]
        /\ pc' \in [Stages -> Labels] /\ gen' \in [Stages -> [q : Nat, n : Nat]]
    BY <1>2, <2>3, <2>4
  <2>. QED
    BY <1>1, <1>2, <2>2, <2>5, <2>6, <2>7, <2>8, <2>9, OneStageTypes
<1>4. CASE s # Leaf
  <2>1. Listen(s) /\ Goto(s, "fb") /\ UNCHANGED <<up, gen, orphans>>
    BY <1>4 DEF Forward
  <2>2. pc' = [pc EXCEPT ![s] = "fb"] /\ work' = [work EXCEPT ![s] = TRUE]
        /\ tok' = [tok EXCEPT ![s] = Zero]
    BY <2>1 DEF Listen, Goto
  <2>3. "fb" \in Labels /\ "fb" \in FollowerLabels
    BY DEF FollowerLabels, Labels
  <2>4. /\ pc' \in [Stages -> Labels] /\ pc'[s] = "fb"
        /\ work' \in [Stages -> BOOLEAN] /\ tok' = [r \in Stages |-> tok'[r]]
        /\ \A r \in Stages : r # s => pc'[r] = pc[r] /\ work'[r] = work[r]
    BY <1>1, <1>2, <2>2, <2>3
  <2>5. act' \in [Followers -> Seq(MessageOf({"act"}))]
    BY <1>4, AppendTypes, StageFacts
  <2>6. req' = req /\ before' = before /\ sess' = sess /\ gen' = gen /\ up' = up
        /\ req' \in 0..R /\ req' >= req /\ orphans' \in Nat /\ up' \in Seq(MessageOf({"tok"}))
        /\ gen' \in [Stages -> [q : Nat, n : Nat]]
    BY <2>1, <1>2, ServingBounds
  <2>7. \A r \in Stages : r # s => /\ pc'[r] = pc[r] /\ work'[r] = work[r]
                                   /\ r = 0 => gen'[r] = gen[r]
    BY <2>4, <2>6
  <2>. QED
    BY <1>1, <1>2, <1>4, <2>3, <2>4, <2>5, <2>6, <2>7, OneStageTypes
<1>. QED
  BY <1>3, <1>4

(* What OneStageTypes asks of the variables that most actions keep.        *)
LEMMA SomeTypes ==
  ASSUME ServingTypes
  PROVE  /\ pc \in [Stages -> Labels] /\ gen \in [Stages -> [q : Nat, n : Nat]]
         /\ work \in [Stages -> BOOLEAN] /\ tok = [r \in Stages |-> tok[r]]
         /\ req \in 0..R /\ req \in Nat /\ orphans \in Nat /\ broken \in BOOLEAN
         /\ meta = [r \in Followers |-> meta[r]]
         /\ \A r \in Followers : meta[r] \in Seq(ForFollower(r))
         /\ act \in [Followers -> Seq(MessageOf({"act"}))]
         /\ up \in Seq(MessageOf({"tok"}))
         /\ \A q \in foreign : q \in Nat /\ q <= req
         /\ 0 \in Stages /\ Leaf # 0
<1>1. req \in 0..R /\ R \in Nat
  BY ServingBounds DEF ServingTypes
<1>2. 0 \in Stages /\ Leaf # 0 /\ req \in Nat
  BY <1>1, StageFacts
<1>. QED
  BY <1>1, <1>2 DEF ServingTypes

LEMMA LabelFacts ==
  /\ \A l \in {"idle", "send", "fb"} : l \in Labels
  /\ \A l \in {"top", "prompt", "plist", "lens", "act", "fb", "lost", "paused", "deaf"} :
       l \in Labels /\ l \in FollowerLabels
BY DEF Labels, FollowerLabels

(* A step of the root or its receiver. *)
LEMMA RootTypes ==
  ASSUME ServingTypes, NEW label \in {"idle", "send", "fb"},
         pc' = [pc EXCEPT ![0] = label],
         gen' \in [Stages -> [q : Nat, n : Nat]],
         label # "idle" => (gen'[0].q = req' /\ req' > 0),
         work' \in [Stages -> BOOLEAN], \A r \in Followers : work'[r] = work[r],
         work'[0] => label = "fb",
         tok' = [r \in Stages |-> tok'[r]],
         req' \in 0..R, req' >= req, before' = before, sess' = sess,
         meta' = [r \in Followers |-> meta'[r]],
         \A r \in Followers : meta'[r] \in Seq(ForFollower(r)),
         act' \in [Followers -> Seq(MessageOf({"act"}))],
         up' \in Seq(MessageOf({"tok"})),
         orphans' \in Nat, broken' \in BOOLEAN,
         \A q \in foreign' : q \in Nat /\ q <= req
  PROVE  ServingTypes'
<1>1. /\ pc' \in [Stages -> Labels] /\ pc'[0] = label
      /\ \A r \in Followers : pc'[r] = pc[r]
  BY SomeTypes, LabelFacts, StageFacts
<1>2. \A r \in Followers : pc'[r] \in FollowerLabels
  BY <1>1 DEF ServingTypes
<1>3. \A r \in Stages : work'[r] => pc'[r] = "fb"
  BY <1>1, StageFacts DEF ServingTypes
<1>4. ~work'[Leaf]
  BY StageFacts DEF ServingTypes
<1>5. before' \in 0..req' /\ sess' \in 1..MaxSessions
  <2>1. before \in 0..req /\ req \in 0..R /\ R \in Nat /\ sess \in 1..MaxSessions
    BY ServingBounds DEF ServingTypes
  <2>. QED
    BY <2>1
<1>6. \A q \in foreign' : q \in Nat /\ q <= req'
  <2>1. req \in Nat /\ req' \in Nat
    BY ServingBounds DEF ServingTypes
  <2>. QED
    BY <2>1
<1>. QED
  BY <1>1, <1>2, <1>3, <1>4, <1>5, <1>6 DEF ServingTypes

LEMMA StartTypes ==
  ASSUME ServingTypes, Start, UNCHANGED loopVars
  PROVE  ServingTypes'
<1>1. /\ pc' = [pc EXCEPT ![0] = "send"] /\ gen' = [gen EXCEPT ![0] = NewGen(req')]
      /\ req' = req + 1 /\ req < R /\ pc[0] = "idle"
      /\ Broadcast(Announcement(req'), Followers)
      /\ UNCHANGED <<act, up, work, tok, orphans, broken, foreign, before, sess>>
  BY DEF Start, Goto, SetGen, Announcement, receivers, loopVars
<1>2. req' \in 0..R /\ req' > 0 /\ req' >= req /\ req' \in Nat
  BY <1>1, SomeTypes, ServingBounds
<1>3. NewGen(req') \in [q : Nat, n : Nat] /\ NewGen(req').q = req'
  BY <1>2 DEF NewGen
<1>4. gen' \in [Stages -> [q : Nat, n : Nat]] /\ gen'[0].q = req'
  BY <1>1, <1>3, SomeTypes
<1>5. work' = work /\ ~work'[0]
  BY <1>1, SomeTypes DEF ServingTypes
<1>6. /\ meta' = [r \in Followers |-> meta'[r]]
      /\ \A r \in Followers : meta'[r] \in Seq(ForFollower(r))
  <2>1. \A s \in Followers : Announcement(req') \in Seq(ForFollower(s))
    BY <1>2, MessageTypes
  <2>. QED
    BY <2>1, <1>1, BroadcastTypes
<1>7. /\ tok' = [r \in Stages |-> tok'[r]] /\ work' \in [Stages -> BOOLEAN]
      /\ act' \in [Followers -> Seq(MessageOf({"act"}))]
      /\ up' \in Seq(MessageOf({"tok"})) /\ orphans' \in Nat /\ broken' \in BOOLEAN
      /\ \A q \in foreign' : q \in Nat /\ q <= req
      /\ before' = before /\ sess' = sess
  BY <1>1, SomeTypes
<1>. QED
  BY <1>1, <1>2, <1>4, <1>5, <1>6, <1>7, RootTypes

(* A step of follower s that changes its place, its token count and what   *)
(* it has read.                                                            *)
LEMMA FollowerTypes ==
  ASSUME ServingTypes, NEW s \in Followers, NEW label \in FollowerLabels,
         pc' = [pc EXCEPT ![s] = label],
         gen' \in [Stages -> [q : Nat, n : Nat]],
         \A r \in Stages : r # s => gen'[r] = gen[r],
         work' \in [Stages -> BOOLEAN], \A r \in Stages : r # s => work'[r] = work[r], ~work'[s],
         tok' = [r \in Stages |-> tok'[r]],
         meta' = [r \in Followers |-> meta'[r]],
         \A r \in Followers : meta'[r] \in Seq(ForFollower(r)),
         act' \in [Followers -> Seq(MessageOf({"act"}))],
         UNCHANGED <<req, up, orphans, foreign, before, sess>>, broken' \in BOOLEAN
  PROVE  ServingTypes'
<1>1. s \in Stages /\ s # 0
  BY StageFacts
<1>2. pc' \in [Stages -> Labels] /\ pc'[s] = label
  BY <1>1, SomeTypes DEF FollowerLabels
<1>3. \A r \in Stages : r # s => /\ pc'[r] = pc[r] /\ work'[r] = work[r]
                                 /\ r = 0 => gen'[r] = gen[r]
  BY <1>1, SomeTypes
<1>4. /\ req' \in 0..R /\ req' >= req /\ before' = before /\ sess' = sess
      /\ up' \in Seq(MessageOf({"tok"})) /\ orphans' \in Nat
      /\ \A q \in foreign' : q \in Nat /\ q <= req
  BY SomeTypes
<1>. QED
  BY <1>1, <1>2, <1>3, <1>4, OneStageTypes

LEMMA PlaceTypes ==
  ASSUME ServingTypes, NEW s \in Followers, Enter(s) \/ Pause(s)
  PROVE  ServingTypes'
<1>1. PICK label \in FollowerLabels : /\ pc' = [pc EXCEPT ![s] = label] /\ label # "fb"
                                      /\ pc[s] # "fb"
  BY LabelFacts DEF Enter, Pause, Goto
<1>2. UNCHANGED <<data, loopVars>>
  BY DEF Enter, Pause
<1>3. /\ gen' = gen /\ work' = work /\ tok' = tok /\ meta' = meta /\ act' = act
      /\ UNCHANGED <<req, up, orphans, foreign, before, sess>> /\ broken' = broken
  BY <1>2 DEF data, loopVars, channels, receivers
<1>4. ~work'[s]
  BY <1>1, <1>3, StageFacts DEF ServingTypes
<1>5. /\ tok' = [r \in Stages |-> tok'[r]] /\ meta' = [r \in Followers |-> meta'[r]]
      /\ \A r \in Followers : meta'[r] \in Seq(ForFollower(r))
  BY <1>3, SomeTypes
<1>6. /\ act' \in [Followers -> Seq(MessageOf({"act"}))] /\ broken' \in BOOLEAN
      /\ gen' \in [Stages -> [q : Nat, n : Nat]] /\ work' \in [Stages -> BOOLEAN]
  BY <1>3, SomeTypes
<1>7. \A r \in Stages : r # s => gen'[r] = gen[r] /\ work'[r] = work[r]
  BY <1>3
<1>. QED
  BY <1>1, <1>3, <1>4, <1>5, <1>6, <1>7, FollowerTypes

LEMMA ReadTypes ==
  ASSUME ServingTypes, NEW s \in Followers, Read(s), UNCHANGED loopVars
  PROVE  ServingTypes'
<1>. DEFINE m == Head(meta[s])
            label == IF m.k = Expects[pc[s]] THEN Then[pc[s]] ELSE "top"
<1>1. /\ pc[s] \in {"prompt", "plist", "lens"} /\ meta[s] # << >>
      /\ pc' = [pc EXCEPT ![s] = label]
      /\ IF pc[s] = "lens" /\ m.k = "lens" THEN gen' = [gen EXCEPT ![s] = NewGen(m.q)]
         ELSE gen' = gen
      /\ meta' = [meta EXCEPT ![s] = Tail(@)]
      /\ UNCHANGED <<req, act, up, work, tok, orphans, broken, foreign, before, sess>>
  BY DEF Read, Goto, SetGen, Expects, receivers, loopVars
<1>2. label \in FollowerLabels
  BY <1>1, LabelFacts DEF Then
<1>3. /\ m \in ForFollower(s) /\ meta' = [r \in Followers |-> meta'[r]]
      /\ \A r \in Followers : meta'[r] \in Seq(ForFollower(r))
  BY <1>1, TakeTypes
<1>4. NewGen(m.q) \in [q : Nat, n : Nat]
  BY <1>3 DEF NewGen, ForFollower, MessageOf
<1>. HIDE DEF m, label
<1>5. /\ gen' \in [Stages -> [q : Nat, n : Nat]] /\ \A r \in Stages : r # s => gen'[r] = gen[r]
  BY <1>1, <1>4, SomeTypes
<1>6. /\ work' \in [Stages -> BOOLEAN] /\ \A r \in Stages : r # s => work'[r] = work[r]
      /\ tok' = [r \in Stages |-> tok'[r]]
      /\ act' \in [Followers -> Seq(MessageOf({"act"}))] /\ broken' \in BOOLEAN
  BY <1>1, SomeTypes
<1>7. ~work'[s]
  BY <1>1, StageFacts DEF ServingTypes
<1>. QED
  BY <1>1, <1>2, <1>3, <1>5, <1>6, <1>7, FollowerTypes

LEMMA StepTypes ==
  ASSUME ServingTypes, NEW s \in Followers, Step(s), UNCHANGED loopVars
  PROVE  ServingTypes'
<1>. DEFINE m == Head(act[s])
            rest == [act EXCEPT ![s] = Tail(@)]
<1>1. /\ pc[s] = "act" /\ act[s] # << >>
      /\ UNCHANGED <<req, meta, broken, foreign, before, sess>>
      /\ \/ /\ Forward(s, m)
            /\ act' = IF s = Leaf THEN rest ELSE [rest EXCEPT ![s + 1] = Append(@, m)]
         \/ Leave(s, "top") /\ act' = rest /\ UNCHANGED <<up, receivers>>
  BY DEF Step, loopVars
<1>2. m \in MessageOf({"act"}) /\ rest \in [Followers -> Seq(MessageOf({"act"}))]
  BY <1>1, HeadAndTail, SomeTypes
<1>. HIDE DEF m, rest
<1>3. CASE /\ Forward(s, m)
           /\ act' = IF s = Leaf THEN rest ELSE [rest EXCEPT ![s + 1] = Append(@, m)]
  BY <1>1, <1>2, <1>3, SomeTypes, ForwardTypes
<1>4. CASE Leave(s, "top") /\ act' = rest /\ UNCHANGED <<up, receivers>>
  <2>1. "top" \in FollowerLabels /\ "top" \in Labels /\ s \in Stages
    BY LabelFacts, StageFacts
  <2>2. /\ pc' = [pc EXCEPT ![s] = "top"] /\ gen' \in [Stages -> [q : Nat, n : Nat]]
        /\ \A r \in Stages : r # s => gen'[r] = gen[r]
    BY <1>4, <2>1, LeaveTypes
  <2>3. /\ work' \in [Stages -> BOOLEAN] /\ \A r \in Stages : r # s => work'[r] = work[r]
        /\ tok' = [r \in Stages |-> tok'[r]] /\ meta' = [r \in Followers |-> meta'[r]]
        /\ \A r \in Followers : meta'[r] \in Seq(ForFollower(r))
        /\ act' \in [Followers -> Seq(MessageOf({"act"}))] /\ broken' \in BOOLEAN
    BY <1>1, <1>2, <1>4, SomeTypes DEF receivers
  <2>4. ~work'[s]
    BY <1>1, <1>4, <2>1 DEF ServingTypes, receivers
  <2>5. UNCHANGED <<req, up, orphans, foreign, before, sess>>
    BY <1>1, <1>4 DEF receivers
  <2>. QED
    BY <2>1, <2>2, <2>3, <2>4, <2>5, FollowerTypes
<1>. QED
  BY <1>1, <1>3, <1>4

LEMMA StepWithoutInputTypes ==
  ASSUME ServingTypes, NEW s \in Followers, StepWithoutInput(s), UNCHANGED loopVars
  PROVE  ServingTypes'
<1>1. Message("act", 0, 0) \in MessageOf({"act"})
  BY MessageTypes
<1>2. /\ pc[s] = "act" /\ Forward(s, Message("act", 0, 0)) /\ broken' = TRUE
      /\ act' = IF s = Leaf THEN act
                ELSE [act EXCEPT ![s + 1] = Append(@, Message("act", 0, 0))]
      /\ UNCHANGED <<req, meta, before, sess>> /\ foreign' = foreign
  BY DEF StepWithoutInput, loopVars
<1>3. broken' \in BOOLEAN /\ act \in [Followers -> Seq(MessageOf({"act"}))]
  BY <1>2, SomeTypes
<1>. QED
  BY <1>1, <1>2, <1>3, ForwardTypes

LEMMA RootForwardTypes ==
  ASSUME ServingTypes, RootForward, UNCHANGED loopVars
  PROVE  ServingTypes'
<1>1. /\ pc[0] = "send" /\ pc' = [pc EXCEPT ![0] = "fb"]
      /\ act' = [act EXCEPT ![1] = Append(@, Message("act", gen[0].q, gen[0].n + 1))]
      /\ work' = [work EXCEPT ![0] = TRUE] /\ tok' = [tok EXCEPT ![0] = Zero]
      /\ UNCHANGED <<req, gen, meta, up, orphans, broken, foreign, before, sess>>
  BY DEF RootForward, Goto, Listen, loopVars
<1>2. gen[0] \in [q : Nat, n : Nat] /\ gen[0].q = req /\ req > 0
  BY <1>1, SomeTypes DEF ServingTypes
<1>3. Message("act", gen[0].q, gen[0].n + 1) \in MessageOf({"act"})
  BY <1>2, MessageTypes
<1>4. act' \in [Followers -> Seq(MessageOf({"act"}))]
  BY <1>1, <1>3, SomeTypes, StageFacts, AppendTypes
<1>5. /\ gen' \in [Stages -> [q : Nat, n : Nat]]
      /\ gen'[0].q = req' /\ req' > 0 /\ req' \in 0..R /\ req' >= req
  BY <1>1, <1>2, SomeTypes
<1>6. /\ work' \in [Stages -> BOOLEAN] /\ tok' = [r \in Stages |-> tok'[r]]
      /\ \A r \in Followers : work'[r] = work[r]
  BY <1>1, SomeTypes, StageFacts
<1>7. /\ meta' = [r \in Followers |-> meta'[r]]
      /\ \A r \in Followers : meta'[r] \in Seq(ForFollower(r))
      /\ up' \in Seq(MessageOf({"tok"})) /\ orphans' \in Nat /\ broken' \in BOOLEAN
      /\ \A q \in foreign' : q \in Nat /\ q <= req
      /\ before' = before /\ sess' = sess
  BY <1>1, SomeTypes
<1>. QED
  BY <1>1, <1>4, <1>5, <1>6, <1>7, RootTypes

LEMMA RootReceiveTypes ==
  ASSUME ServingTypes, RootReceive, UNCHANGED loopVars
  PROVE  ServingTypes'
<1>1. /\ up # << >> /\ tok' = [tok EXCEPT ![0] = Head(up)] /\ up' = Tail(up)
      /\ Broadcast(<<Head(up)>>, Stems)
      /\ \/ work[0] /\ work' = [work EXCEPT ![0] = FALSE] /\ orphans' = orphans
         \/ orphans > 0 /\ orphans' = orphans - 1 /\ work' = work
      /\ UNCHANGED <<pc, req, gen, act, broken, foreign, before, sess>>
  BY DEF RootReceive, loopVars
<1>2. Head(up) \in MessageOf({"tok"}) /\ Tail(up) \in Seq(MessageOf({"tok"}))
  BY <1>1, SomeTypes, HeadAndTail
<1>3. \A s \in Stems : Head(up) \in ForFollower(s)
  BY <1>2, MessageTypes, StageFacts
<1>4. /\ meta' = [r \in Followers |-> meta'[r]]
      /\ \A r \in Followers : meta'[r] \in Seq(ForFollower(r))
  <2>1. Stems \in SUBSET Followers
    BY StageFacts
  <2>2. \A s \in Stems : <<Head(up)>> \in Seq(ForFollower(s))
    BY <1>3
  <2>3. Broadcast(<<Head(up)>>, Stems)
    BY <1>1
  <2>. QED
    BY <2>1, <2>2, <2>3, BroadcastTypes
<1>5. /\ work' \in [Stages -> BOOLEAN] /\ orphans' \in Nat
      /\ \A r \in Followers : work'[r] = work[r]
      /\ work'[0] => work[0]
  <2>1. /\ orphans \in Nat /\ work \in [Stages -> BOOLEAN] /\ 0 \in Stages
        /\ \A r \in Followers : r \in Stages /\ r # 0
    BY SomeTypes, StageFacts
  <2>2. CASE work[0] /\ work' = [work EXCEPT ![0] = FALSE] /\ orphans' = orphans
    BY <2>1, <2>2
  <2>3. CASE orphans > 0 /\ orphans' = orphans - 1 /\ work' = work
    BY <2>1, <2>3
  <2>. QED
    BY <1>1, <2>2, <2>3
<1>6. /\ tok' = [r \in Stages |-> tok'[r]] /\ act' \in [Followers -> Seq(MessageOf({"act"}))]
      /\ broken' \in BOOLEAN /\ req' \in 0..R /\ req' >= req
      /\ \A q \in foreign' : q \in Nat /\ q <= req
      /\ gen' \in [Stages -> [q : Nat, n : Nat]] /\ up' \in Seq(MessageOf({"tok"}))
  <2>1. /\ tok' = [tok EXCEPT ![0] = Head(up)] /\ up' = Tail(up)
        /\ UNCHANGED <<req, gen, act, broken, foreign>>
    BY <1>1
  <2>2. tok' = [r \in Stages |-> tok'[r]]
    BY <2>1, SomeTypes
  <2>3. req' \in 0..R /\ req' >= req
    BY <2>1, SomeTypes
  <2>4. /\ act' \in [Followers -> Seq(MessageOf({"act"}))]
        /\ broken' \in BOOLEAN /\ gen' \in [Stages -> [q : Nat, n : Nat]]
        /\ up' \in Seq(MessageOf({"tok"})) /\ \A q \in foreign' : q \in Nat /\ q <= req
    BY <2>1, <1>2, SomeTypes
  <2>. QED
    BY <2>2, <2>3, <2>4
<1>7. PICK label \in {"idle", "send", "fb"} : label = pc[0]
  BY DEF ServingTypes
<1>8. /\ pc' = [pc EXCEPT ![0] = label] /\ (work'[0] => label = "fb")
      /\ (label # "idle" => gen'[0].q = req' /\ req' > 0)
      /\ before' = before /\ sess' = sess
  BY <1>1, <1>5, <1>7, SomeTypes DEF ServingTypes
<1>. QED
  BY <1>4, <1>5, <1>6, <1>8, RootTypes

LEMMA StemReceiveTypes ==
  ASSUME ServingTypes, NEW s \in Stems, StemReceive(s), UNCHANGED loopVars
  PROVE  ServingTypes'
<1>1. /\ s \in Followers /\ s \in Stages
      /\ work[s] /\ meta[s] # << >> /\ work' = [work EXCEPT ![s] = FALSE]
      /\ meta' = [meta EXCEPT ![s] = Tail(@)]
      /\ tok' = tok \/ tok' = [tok EXCEPT ![s] = Head(meta[s])]
      /\ UNCHANGED <<pc, req, gen, act, up, orphans, broken, foreign, before, sess>>
  BY StageFacts DEF StemReceive, loopVars
<1>2. /\ meta' = [r \in Followers |-> meta'[r]]
      /\ \A r \in Followers : meta'[r] \in Seq(ForFollower(r))
  BY <1>1, TakeTypes
<1>3. /\ work' \in [Stages -> BOOLEAN] /\ ~work'[s]
      /\ \A r \in Stages : r # s => work'[r] = work[r] /\ gen'[r] = gen[r]
  BY <1>1, SomeTypes
<1>4. tok' = [r \in Stages |-> tok'[r]]
  BY <1>1, SomeTypes
<1>5. PICK label \in FollowerLabels : label = pc[s]
  BY <1>1 DEF ServingTypes
<1>6. /\ pc' = [pc EXCEPT ![s] = label] /\ gen' \in [Stages -> [q : Nat, n : Nat]]
      /\ act' \in [Followers -> Seq(MessageOf({"act"}))] /\ broken' \in BOOLEAN
  BY <1>1, <1>5, SomeTypes
<1>. QED
  BY <1>1, <1>2, <1>3, <1>4, <1>6, FollowerTypes

LEMMA AcceptTypes ==
  ASSUME ServingTypes, NEW s \in Stages, s = 0 => pc[0] # "idle", Accept(s)
  PROVE  /\ tok' = [r \in Stages |-> tok'[r]]
         /\ \A q \in foreign' : q \in Nat /\ q <= req
         /\ s # 0 => foreign' = foreign
<1>1. tok' = [r \in Stages |-> tok'[r]]
  BY SomeTypes DEF Accept
<1>2. CASE s # 0
  BY <1>1, <1>2, SomeTypes DEF Accept
<1>3. CASE s = 0
  <2>1. gen[0].q = req /\ req \in Nat
    BY <1>3, SomeTypes DEF ServingTypes
  <2>2. foreign' = foreign \/ foreign' = foreign \union {gen[0].q}
    BY <1>3 DEF Accept
  <2>. QED
    BY <1>1, <1>3, <2>1, <2>2, SomeTypes
<1>. QED
  BY <1>2, <1>3

LEMMA AdvanceTypes ==
  ASSUME ServingTypes, NEW s \in Stages, s = 0 \/ s \in Stems, Advance(s), UNCHANGED loopVars
  PROVE  ServingTypes'
<1>1. /\ pc[s] = "fb" /\ ~work[s] /\ Accept(s) /\ Count(s, tok[s])
      /\ UNCHANGED <<req, meta, act, up, work, orphans, broken, before, sess>>
  BY DEF Advance, loopVars, channels
<1>2. /\ tok' = [r \in Stages |-> tok'[r]] /\ \A q \in foreign' : q \in Nat /\ q <= req
      /\ s # 0 => foreign' = foreign
  BY <1>1, AcceptTypes
<1>3. /\ pc' \in [Stages -> Labels]
      /\ pc'[s] \in (IF s = 0 THEN {"idle", "send"} ELSE {"top", "act"})
      /\ \A r \in Stages : r # s => pc'[r] = pc[r] /\ gen'[r] = gen[r]
      /\ gen' \in [Stages -> [q : Nat, n : Nat]]
      /\ pc'[s] \in {"idle", "top"} \/ gen'[s].q = gen[s].q
  BY <1>1, CountTypes
<1>4. /\ meta' = [r \in Followers |-> meta'[r]]
      /\ \A r \in Followers : meta'[r] \in Seq(ForFollower(r))
      /\ act' \in [Followers -> Seq(MessageOf({"act"}))] /\ broken' \in BOOLEAN
      /\ up' \in Seq(MessageOf({"tok"})) /\ orphans' \in Nat
      /\ req' \in 0..R /\ req' >= req /\ before' = before /\ sess' = sess
      /\ work' \in [Stages -> BOOLEAN]
  BY <1>1, SomeTypes
<1>5. CASE s = 0
  <2>1. PICK label \in {"idle", "send", "fb"} : label = pc'[0]
    BY <1>3, <1>5
  <2>2. pc' = [pc EXCEPT ![0] = label]
    BY <1>3, <1>5, <2>1, SomeTypes
  <2>3. label # "idle" => gen'[0].q = req' /\ req' > 0
    <3>1. gen[0].q = req /\ req > 0
      BY <1>1, <1>5 DEF ServingTypes
    <3>. QED
      BY <1>1, <1>3, <1>5, <2>1, <3>1
  <2>4. ~work'[0] /\ \A r \in Followers : work'[r] = work[r]
    BY <1>1, <1>5
  <2>. QED
    BY <1>2, <1>3, <1>4, <2>2, <2>3, <2>4, RootTypes
<1>6. CASE s # 0
  <2>1. s \in Followers
    BY <1>6, StageFacts
  <2>2. PICK label \in FollowerLabels : label = pc'[s]
    BY <1>3, <1>6, LabelFacts
  <2>3. pc' = [pc EXCEPT ![s] = label]
    BY <1>3, <2>2, SomeTypes
  <2>4. /\ ~work'[s] /\ \A r \in Stages : r # s => work'[r] = work[r] /\ gen'[r] = gen[r]
        /\ UNCHANGED <<req, up, orphans, foreign, before, sess>>
    BY <1>1, <1>2, <1>3, <1>6
  <2>. QED
    BY <1>2, <1>3, <1>4, <2>1, <2>3, <2>4, FollowerTypes
<1>. QED
  BY <1>5, <1>6

LEMMA GiveUpTypes ==
  ASSUME ServingTypes, NEW s \in Stages, s = 0 \/ s \in Stems, GiveUp(s), UNCHANGED loopVars
  PROVE  ServingTypes'
<1>1. /\ pc[s] = "fb" /\ Leave(s, IF s = 0 THEN "idle" ELSE "lost")
      /\ work' = [work EXCEPT ![s] = FALSE] /\ broken' = TRUE
      /\ orphans' = IF s = 0 THEN orphans + 1 ELSE orphans
      /\ UNCHANGED <<req, meta, act, up, tok, foreign, before, sess>>
  BY DEF GiveUp, channels, loopVars
<1>2. (IF s = 0 THEN "idle" ELSE "lost") \in Labels
  BY LabelFacts
<1>3. /\ pc' = [pc EXCEPT ![s] = IF s = 0 THEN "idle" ELSE "lost"]
      /\ gen' \in [Stages -> [q : Nat, n : Nat]]
      /\ \A r \in Stages : r # s => gen'[r] = gen[r]
  BY <1>1, <1>2, LeaveTypes
<1>4. /\ meta' = [r \in Followers |-> meta'[r]]
      /\ \A r \in Followers : meta'[r] \in Seq(ForFollower(r))
      /\ act' \in [Followers -> Seq(MessageOf({"act"}))] /\ broken' \in BOOLEAN
      /\ up' \in Seq(MessageOf({"tok"})) /\ orphans' \in Nat
      /\ tok' = [r \in Stages |-> tok'[r]]
      /\ req' \in 0..R /\ req' >= req /\ before' = before /\ sess' = sess
      /\ \A q \in foreign' : q \in Nat /\ q <= req
  BY <1>1, SomeTypes
<1>5. /\ work' \in [Stages -> BOOLEAN] /\ ~work'[s]
      /\ \A r \in Stages : r # s => work'[r] = work[r]
  BY <1>1, SomeTypes
<1>6. CASE s = 0
  <2>1. pc' = [pc EXCEPT ![0] = "idle"]
    BY <1>3, <1>6
  <2>2. /\ ~work'[0] /\ \A r \in Followers : work'[r] = work[r]
    BY <1>5, <1>6, StageFacts
  <2>. QED
    BY <1>3, <1>4, <1>5, <2>1, <2>2, RootTypes
<1>7. CASE s # 0
  <2>1. s \in Followers /\ "lost" \in FollowerLabels
    BY <1>7, StageFacts, LabelFacts
  <2>2. pc' = [pc EXCEPT ![s] = "lost"] /\ UNCHANGED <<req, up, orphans, foreign, before, sess>>
    BY <1>1, <1>3, <1>7
  <2>. QED
    BY <1>3, <1>4, <1>5, <2>1, <2>2, FollowerTypes
<1>. QED
  BY <1>6, <1>7

LEMMA AbandonTypes ==
  ASSUME ServingTypes, Abandon, UNCHANGED loopVars
  PROVE  ServingTypes'
<1>1. /\ pc[0] = "fb" /\ ~work[0] /\ Accept(0) /\ Leave(0, "idle")
      /\ broken' = (broken \/ ~Complete(0, tok[0]))
      /\ UNCHANGED <<req, meta, act, up, work, orphans, before, sess>>
  BY DEF Abandon, channels, loopVars
<1>2. /\ tok' = [r \in Stages |-> tok'[r]] /\ \A q \in foreign' : q \in Nat /\ q <= req
  BY <1>1, SomeTypes, AcceptTypes
<1>3. /\ pc' = [pc EXCEPT ![0] = "idle"] /\ gen' \in [Stages -> [q : Nat, n : Nat]]
  BY <1>1, SomeTypes, LabelFacts, LeaveTypes
<1>4. /\ meta' = [r \in Followers |-> meta'[r]]
      /\ \A r \in Followers : meta'[r] \in Seq(ForFollower(r))
      /\ act' \in [Followers -> Seq(MessageOf({"act"}))]
      /\ up' \in Seq(MessageOf({"tok"})) /\ orphans' \in Nat
      /\ req' \in 0..R /\ req' >= req /\ before' = before /\ sess' = sess
      /\ work' \in [Stages -> BOOLEAN] /\ \A r \in Followers : work'[r] = work[r]
  BY <1>1, SomeTypes
<1>5. broken' \in BOOLEAN
  BY <1>1 DEF Complete
<1>6. ~work'[0]
  BY <1>1
<1>. QED
  BY <1>2, <1>3, <1>4, <1>5, <1>6, RootTypes

LEMMA RootFailsTypes ==
  ASSUME ServingTypes, RootFails
  PROVE  ServingTypes'
<1>1. /\ pc[0] = "send" /\ Leave(0, "idle")
      /\ UNCHANGED <<req, meta, act, up, work, tok, orphans, broken, foreign, before, sess>>
  BY DEF RootFails, channels, receivers, loopVars
<1>2. /\ pc' = [pc EXCEPT ![0] = "idle"] /\ gen' \in [Stages -> [q : Nat, n : Nat]]
  BY <1>1, SomeTypes, LabelFacts, LeaveTypes
<1>3. /\ meta' = [r \in Followers |-> meta'[r]]
      /\ \A r \in Followers : meta'[r] \in Seq(ForFollower(r))
      /\ act' \in [Followers -> Seq(MessageOf({"act"}))]
      /\ up' \in Seq(MessageOf({"tok"})) /\ orphans' \in Nat /\ broken' \in BOOLEAN
      /\ tok' = [r \in Stages |-> tok'[r]]
      /\ req' \in 0..R /\ req' >= req /\ before' = before /\ sess' = sess
      /\ work' \in [Stages -> BOOLEAN] /\ \A r \in Followers : work'[r] = work[r]
      /\ \A q \in foreign' : q \in Nat /\ q <= req
  BY <1>1, SomeTypes
<1>4. ~work'[0]
  BY <1>1, SomeTypes DEF ServingTypes
<1>. QED
  BY <1>2, <1>3, <1>4, RootTypes

(* What Reconfigure leaves behind. *)
LEMMA Reconnected ==
  ASSUME ServingTypes, Reconfigure
  PROVE  /\ sess' \in 1..MaxSessions /\ before' = req /\ req' = req
         /\ pc' \in [Stages -> Labels] /\ pc'[0] = pc[0]
         /\ \A s \in Followers : pc'[s] \in {"top", "prompt", "lost", "paused", "deaf"}
         /\ gen' \in [Stages -> [q : Nat, n : Nat]] /\ gen'[0] = gen[0]
         /\ meta' = [s \in Followers |-> << >>] /\ act' = [s \in Followers |-> << >>]
         /\ up' = << >> /\ work' = [s \in Stages |-> FALSE] /\ orphans' = 0
         /\ tok' = [s \in Stages |-> tok'[s]]
         /\ broken' = FALSE /\ foreign' = foreign
<1>1. PICK to \in [Followers -> Labels] :
        /\ \A s \in Followers : to[s] \in Interrupted(s)
        /\ pc' = [s \in Stages |-> IF s = 0 THEN pc[0] ELSE to[s]]
  BY DEF Reconfigure
<1>2. /\ sess' = sess + 1 /\ sess < MaxSessions /\ before' = req
      /\ gen' = [s \in Stages |-> IF s = 0 THEN gen[0] ELSE NoGen]
      /\ broken' = FALSE /\ req' = req /\ foreign' = foreign
  BY DEF Reconfigure
<1>3. /\ meta' = [s \in Followers |-> << >>] /\ act' = [s \in Followers |-> << >>]
      /\ up' = << >> /\ work' = [s \in Stages |-> FALSE] /\ orphans' = 0
      /\ tok' = [s \in Stages |-> IF s = 0 /\ ~work[0] THEN tok[0] ELSE Zero]
  BY DEF Reconfigure, Close
<1>4. sess' \in 1..MaxSessions
  <2>1. sess \in 1..MaxSessions
    BY DEF ServingTypes
  <2>. QED
    BY <1>2, <2>1, ServingBounds
<1>5. pc' \in [Stages -> Labels] /\ pc'[0] = pc[0]
  BY <1>1, SomeTypes, StageFacts
<1>6. ASSUME NEW s \in Followers
      PROVE  pc'[s] \in {"top", "prompt", "lost", "paused", "deaf"}
  <2>1. pc[s] \in FollowerLabels
    BY DEF ServingTypes
  <2>2. pc'[s] \in Interrupted(s)
    BY <1>1, StageFacts
  <2>. QED
    BY <2>1, <2>2 DEF Interrupted, FollowerLabels, Labels
<1>7. gen' \in [Stages -> [q : Nat, n : Nat]] /\ gen'[0] = gen[0]
  BY <1>2, SomeTypes DEF NoGen
<1>8. tok' = [s \in Stages |-> tok'[s]]
  BY <1>3
<1>. QED
  BY <1>2, <1>3, <1>4, <1>5, <1>6, <1>7, <1>8

LEMMA ReconfigureTypes ==
  ASSUME ServingTypes, Reconfigure
  PROVE  ServingTypes'
<1>1. \A s \in Followers : pc'[s] \in FollowerLabels
  BY Reconnected, LabelFacts
<1>2. pc'[0] \in {"idle", "send", "fb"} /\ (pc'[0] # "idle" => gen'[0].q = req' /\ req' > 0)
  BY Reconnected DEF ServingTypes
<1>3. req' \in 0..R /\ before' \in 0..req'
  BY Reconnected, SomeTypes
<1>4. /\ meta' = [s \in Followers |-> meta'[s]]
      /\ \A s \in Followers : meta'[s] \in Seq(ForFollower(s))
      /\ act' \in [Followers -> Seq(MessageOf({"act"}))]
      /\ up' \in Seq(MessageOf({"tok"}))
  <2>1. meta' = [s \in Followers |-> << >>] /\ act' = [s \in Followers |-> << >>] /\ up' = << >>
    BY Reconnected
  <2>2. \A S : << >> \in Seq(S)
    OBVIOUS
  <2>3. meta' = [s \in Followers |-> meta'[s]]
    BY <2>1
  <2>. QED
    BY <2>1, <2>2, <2>3
<1>5. /\ work' \in [Stages -> BOOLEAN] /\ \A s \in Stages : ~work'[s]
      /\ orphans' \in Nat /\ broken' \in BOOLEAN
  <2>1. work' = [s \in Stages |-> FALSE] /\ orphans' = 0 /\ broken' = FALSE
    BY Reconnected
  <2>. QED
    BY <2>1
<1>6. \A q \in foreign' : q \in Nat /\ q <= req'
  BY Reconnected, SomeTypes
<1>7. /\ pc' \in [Stages -> Labels] /\ gen' \in [Stages -> [q : Nat, n : Nat]]
      /\ tok' = [s \in Stages |-> tok'[s]] /\ sess' \in 1..MaxSessions
  BY Reconnected
<1>. QED
  BY <1>1, <1>2, <1>3, <1>4, <1>5, <1>6, <1>7, StageFacts DEF ServingTypes

(* The steps of the system, one action each. *)
LEMMA StepsOf ==
  ASSUME ServingNext
  PROVE  \/ Start /\ UNCHANGED loopVars
         \/ ~RootIsLate /\ RootForward /\ UNCHANGED loopVars
         \/ RootReceive /\ UNCHANGED loopVars
         \/ \E s \in Stages : (s = 0 \/ s \in Stems) /\ Advance(s) /\ UNCHANGED loopVars
         \/ \E s \in Stages : (s = 0 \/ s \in Stems) /\ GiveUp(s) /\ UNCHANGED loopVars
         \/ Abandon /\ UNCHANGED loopVars
         \/ \E s \in Followers : Read(s) /\ UNCHANGED loopVars
         \/ \E s \in Followers : Step(s) /\ UNCHANGED loopVars
         \/ \E s \in Followers : StepWithoutInput(s) /\ UNCHANGED loopVars
         \/ \E s \in Stems : StemReceive(s) /\ UNCHANGED loopVars
         \/ RootFails
         \/ Reconfigure
         \/ \E s \in Followers : Enter(s) \/ Pause(s)
<1>1. CASE (pc[0] = "send" => ~RootIsLate) /\ Engine /\ UNCHANGED loopVars
  <2>1. CASE RootForward
    BY <1>1, <2>1 DEF RootForward
  <2>2. CASE \E s \in Followers :
               \/ Read(s) \/ Step(s) \/ StepWithoutInput(s)
               \/ s \in Stems /\ (StemReceive(s) \/ Advance(s) \/ GiveUp(s))
    BY <1>1, <2>2, StageFacts
  <2>3. CASE Start \/ RootReceive \/ Advance(0) \/ GiveUp(0) \/ Abandon
    BY <1>1, <2>3, StageFacts
  <2>. QED
    BY <1>1, <2>1, <2>2, <2>3 DEF Engine
<1>. QED
  BY <1>1 DEF ServingNext

LEMMA TypesStep ==
  ASSUME ServingTypes, [ServingNext]_servingVars
  PROVE  ServingTypes'
<1>1. CASE UNCHANGED servingVars
  BY <1>1 DEF servingVars, vars, channels, receivers, ServingTypes
<1>2. CASE ServingNext
  <2>. USE <1>2
  <2>1. CASE Start /\ UNCHANGED loopVars
    BY <2>1, StartTypes
  <2>2. CASE RootForward /\ UNCHANGED loopVars
    BY <2>2, RootForwardTypes
  <2>3. CASE RootReceive /\ UNCHANGED loopVars
    BY <2>3, RootReceiveTypes
  <2>4. ASSUME NEW s \in Stages, s = 0 \/ s \in Stems, Advance(s), UNCHANGED loopVars
        PROVE  ServingTypes'
    BY <2>4, AdvanceTypes
  <2>5. ASSUME NEW s \in Stages, s = 0 \/ s \in Stems, GiveUp(s), UNCHANGED loopVars
        PROVE  ServingTypes'
    BY <2>5, GiveUpTypes
  <2>6. CASE Abandon /\ UNCHANGED loopVars
    BY <2>6, AbandonTypes
  <2>7. ASSUME NEW s \in Followers, Read(s), UNCHANGED loopVars PROVE ServingTypes'
    BY <2>7, ReadTypes
  <2>8. ASSUME NEW s \in Followers, Step(s), UNCHANGED loopVars PROVE ServingTypes'
    BY <2>8, StepTypes
  <2>9. ASSUME NEW s \in Followers, StepWithoutInput(s), UNCHANGED loopVars PROVE ServingTypes'
    BY <2>9, StepWithoutInputTypes
  <2>10. ASSUME NEW s \in Stems, StemReceive(s), UNCHANGED loopVars PROVE ServingTypes'
    BY <2>10, StemReceiveTypes
  <2>11. CASE RootFails
    BY <2>11, RootFailsTypes
  <2>12. CASE Reconfigure
    BY <2>12, ReconfigureTypes
  <2>13. ASSUME NEW s \in Followers, Enter(s) \/ Pause(s) PROVE ServingTypes'
    BY <2>13, PlaceTypes
  <2>. QED
    BY <2>1, <2>2, <2>3, <2>4, <2>5, <2>6, <2>7, <2>8, <2>9, <2>10, <2>11, <2>12, <2>13, StepsOf
<1>. QED
  BY <1>1, <1>2

LEMMA TypesInit ==
  ASSUME ServingInit
  PROVE  ServingTypes
<1>1. /\ pc = [s \in Stages |-> IF s = 0 THEN "idle" ELSE "top"] /\ req = 0
      /\ gen = [s \in Stages |-> NoGen] /\ meta = [s \in Followers |-> << >>]
      /\ act = [s \in Followers |-> << >>] /\ up = << >> /\ work = [s \in Stages |-> FALSE]
      /\ tok = [s \in Stages |-> Zero] /\ orphans = 0 /\ broken = FALSE /\ foreign = {}
      /\ sess = 1 /\ before = 0
  BY DEF ServingInit, PipeInit
<1>2. /\ pc \in [Stages -> Labels] /\ pc[0] = "idle"
      /\ \A s \in Followers : pc[s] \in FollowerLabels
  BY <1>1, LabelFacts, StageFacts
<1>3. req \in 0..R /\ before \in 0..req /\ sess \in 1..MaxSessions
  BY <1>1, ServingBounds
<1>4. /\ gen \in [Stages -> [q : Nat, n : Nat]]
      /\ meta = [s \in Followers |-> meta[s]]
      /\ \A s \in Followers : meta[s] \in Seq(ForFollower(s))
      /\ act \in [Followers -> Seq(MessageOf({"act"}))] /\ up \in Seq(MessageOf({"tok"}))
      /\ tok = [s \in Stages |-> tok[s]] /\ orphans \in Nat /\ broken \in BOOLEAN
      /\ \A q \in foreign : q \in Nat /\ q <= req
  <2>1. NoGen \in [q : Nat, n : Nat]
    BY DEF NoGen
  <2>2. \A S : << >> \in Seq(S)
    OBVIOUS
  <2>3. meta = [s \in Followers |-> meta[s]] /\ tok = [s \in Stages |-> tok[s]]
    BY <1>1
  <2>. QED
    BY <1>1, <2>1, <2>2, <2>3
<1>5. work \in [Stages -> BOOLEAN] /\ \A s \in Stages : ~work[s]
  BY <1>1
<1>. QED
  BY <1>2, <1>3, <1>4, <1>5, StageFacts DEF ServingTypes

-----------------------------------------------------------------------------
(* What a follower does by itself: it enters its loop, reads, and takes    *)
(* tokens.                                                                 *)

Keeps(s) ==
  /\ pc'[s] = pc[s] /\ gen'[s] = gen[s] /\ meta'[s] = meta[s]
  /\ work'[s] = work[s] /\ tok'[s] = tok[s]

Alone(s) == \/ Enter(s) \/ Pause(s) \/ Read(s)
            \/ s \in Stems /\ (StemReceive(s) \/ Advance(s))

LEMMA Kept ==
  ASSUME NEW s, Keeps(s), req' = req
  PROVE  /\ \A t, rest : Pending(s, t, rest)' <=> Pending(s, t, rest)
         /\ \A rest : Over(s, rest)' <=> Over(s, rest)
         /\ \A rest : Ended(s, rest)' <=> Ended(s, rest)
         /\ Reading(s)' <=> Reading(s)
         /\ \A n : /\ Ready(s, n)' <=> Ready(s, n)
                   /\ Behind(s, n)' <=> Behind(s, n)
                   /\ Waiting(s, n)' <=> Waiting(s, n)
         /\ \A t : Beyond(s, t)' <=> Beyond(s, t)
<1>1. ASSUME NEW t, NEW rest PROVE Pending(s, t, rest)' <=> Pending(s, t, rest)
  BY DEF Keeps, Pending
<1>2. ASSUME NEW rest PROVE Ended(s, rest)' <=> Ended(s, rest)
  BY DEF Keeps, Ended
<1>3. ASSUME NEW rest PROVE Over(s, rest)' <=> Over(s, rest)
  BY <1>1, <1>2 DEF Over
<1>4. Announcement(req)' = Announcement(req)
  BY DEF Announcement, Message
<1>5. Reading(s)' <=> Reading(s)
  BY <1>3, <1>4 DEF Reading, Keeps, Message
<1>6. ASSUME NEW n PROVE Ready(s, n)' <=> Ready(s, n)
  BY DEF Keeps, Ready
<1>7. ASSUME NEW n PROVE Waiting(s, n)' <=> Waiting(s, n)
  BY DEF Keeps, Waiting
<1>8. ASSUME NEW n PROVE Behind(s, n)' <=> Behind(s, n)
  <2>1. Message("tok", req, n)' = Message("tok", req, n)
    BY DEF Message
  <2>. QED
    BY <2>1, <1>1, <1>5, <1>6 DEF Behind
<1>9. ASSUME NEW t PROVE Beyond(s, t)' <=> Beyond(s, t)
  BY <1>1, <1>2, <1>6 DEF Beyond
<1>. QED
  BY <1>1, <1>2, <1>3, <1>5, <1>6, <1>7, <1>8, <1>9

LEMMA AloneKeeps ==
  ASSUME ServingTypes, NEW s \in Followers, Alone(s)
  PROVE  /\ \A r \in Stages : r # s => Keeps(r)
         /\ UNCHANGED <<req, act, up, orphans, broken, foreign>>
<1>1. s \in Stages /\ s # 0
  BY StageFacts
<1>2. CASE Enter(s) \/ Pause(s)
  <2>1. PICK label : pc' = [pc EXCEPT ![s] = label]
    BY <1>2 DEF Enter, Pause, Goto
  <2>2. UNCHANGED <<req, gen, meta, act, up, work, tok, orphans, broken, foreign>>
    BY <1>2 DEF Enter, Pause, data, channels, receivers
  <2>3. \A r \in Stages : r # s => pc'[r] = pc[r]
    BY <2>1, SomeTypes
  <2>. QED
    BY <2>2, <2>3 DEF Keeps
<1>3. CASE Read(s)
  <2>1. /\ UNCHANGED <<req, act, up, work, tok, orphans, broken, foreign>>
        /\ meta' = [meta EXCEPT ![s] = Tail(@)]
    BY <1>3 DEF Read, receivers
  <2>2. PICK label, g : /\ pc' = [pc EXCEPT ![s] = label]
                        /\ gen' = gen \/ gen' = [gen EXCEPT ![s] = g]
    BY <1>3 DEF Read, Goto, SetGen
  <2>3. \A r \in Stages : r # s => pc'[r] = pc[r] /\ gen'[r] = gen[r]
    BY <2>2, SomeTypes
  <2>4. \A r \in Stages : r # s => meta'[r] = meta[r]
    BY <2>1, SomeTypes
  <2>. QED
    BY <2>1, <2>3, <2>4 DEF Keeps
<1>4. CASE StemReceive(s)
  <2>1. /\ UNCHANGED <<req, pc, gen, act, up, orphans, broken, foreign>>
        /\ meta' = [meta EXCEPT ![s] = Tail(@)] /\ work' = [work EXCEPT ![s] = FALSE]
    BY <1>4 DEF StemReceive
  <2>2. tok' = tok \/ tok' = [tok EXCEPT ![s] = Head(meta[s])]
    BY <1>4 DEF StemReceive
  <2>3. \A r \in Stages : r # s => work'[r] = work[r]
    BY <2>1, SomeTypes
  <2>4. \A r \in Stages : r # s => tok'[r] = tok[r]
    BY <2>2, SomeTypes
  <2>5. \A r \in Stages : r # s => meta'[r] = meta[r]
    BY <2>1, SomeTypes
  <2>. QED
    BY <2>1, <2>3, <2>4, <2>5 DEF Keeps
<1>5. CASE Advance(s)
  <2>1. /\ UNCHANGED <<req, meta, act, up, work, orphans, broken>>
        /\ Accept(s) /\ Count(s, tok[s])
    BY <1>5 DEF Advance, channels
  <2>2. foreign' = foreign /\ tok' = [tok EXCEPT ![s] = Zero]
    BY <1>1, <2>1 DEF Accept
  <2>3. \A r \in Stages : r # s => tok'[r] = tok[r]
    BY <2>2, SomeTypes
  <2>4. \A r \in Stages : r # s => pc'[r] = pc[r] /\ gen'[r] = gen[r]
    BY <1>1, <2>1, CountTypes
  <2>. QED
    BY <2>1, <2>2, <2>3, <2>4 DEF Keeps
<1>6. Enter(s) \/ Pause(s) \/ Read(s) \/ StemReceive(s) \/ Advance(s)
  BY DEF Alone
<1>. QED
  BY <1>2, <1>3, <1>4, <1>5, <1>6

(* What the root sends to the others. *)
Sent == MessageOf({"bs", "prompts", "lens", "tok"})

LEMMA SentTypes ==
  /\ << >> \in Seq(Sent) /\ \A q \in Nat : Announcement(q) \in Seq(Sent)
  /\ \A t \in Tokens : t \in Sent
<1>1. \A q \in Nat : /\ Message("bs", q, 0) \in Sent
                     /\ Message("prompts", q, 0) \in Sent
                     /\ Message("lens", q, 0) \in Sent
  BY DEF Message, Sent, MessageOf
<1>2. \A t \in Tokens : t \in Sent
  BY ServingBounds DEF Tokens, Sent, MessageOf
<1>. QED
  BY <1>1, <1>2 DEF Announcement

LEMMA HeadAndTailOf ==
  ASSUME NEW S, NEW t \in S, NEW rest \in Seq(S)
  PROVE  <<t>> \o rest # << >> /\ Head(<<t>> \o rest) = t /\ Tail(<<t>> \o rest) = rest
<1>. DEFINE s == <<t>> \o rest
<1>1. /\ s \in Seq(S) /\ Len(s) = Len(rest) + 1 /\ Len(rest) \in Nat
      /\ s[1] = t /\ \A i \in 1..Len(rest) : s[i + 1] = rest[i]
  OBVIOUS
<1>. HIDE DEF s
<1>2. s # << >>
  BY <1>1
<1>3. /\ Tail(s) \in Seq(S) /\ Len(Tail(s)) = Len(rest)
      /\ \A i \in 1..Len(rest) : Tail(s)[i] = rest[i]
  BY <1>1
<1>4. Tail(s) = rest
  BY <1>3
<1>5. Head(s) = t
  BY <1>1, <1>2
<1>. QED
  BY <1>2, <1>4, <1>5 DEF s

(* After a request's last token a stem leaves _generate, after another it  *)
(* waits for the next activation.                                          *)
LEMMA PendingStep ==
  ASSUME ServingTypes, NEW s \in Followers, NEW t \in Tokens, NEW rest \in Seq(Sent),
         Pending(s, t, rest), Alone(s)
  PROVE  \/ Pending(s, t, rest)'
         \/ Final(t) /\ Ended(s, rest)'
         \/ /\ ~Final(t) /\ pc'[s] = "act" /\ gen'[s] = [q |-> t.q, n |-> t.i]
            /\ ~work'[s] /\ meta'[s] = rest
<1>1. /\ pc[s] = "fb" /\ gen[s] = [q |-> t.q, n |-> t.i - 1] /\ s \in Stages /\ s # 0
      /\ t.k = "tok" /\ t.q \in 1..R /\ t.i \in Nat \ {0} /\ t.eos \in BOOLEAN
  BY StageFacts DEF Pending, Tokens
<1>2. ~Enter(s) /\ ~Pause(s) /\ ~Read(s)
  BY <1>1 DEF Enter, Pause, Read, Expects
<1>3. CASE StemReceive(s)
  <2>1. work[s] /\ meta[s] = <<t>> \o rest
    BY <1>3 DEF StemReceive, Pending
  <2>2. Head(meta[s]) = t /\ Tail(meta[s]) = rest
    BY <2>1, SentTypes, HeadAndTailOf
  <2>3. /\ work' = [work EXCEPT ![s] = FALSE] /\ meta' = [meta EXCEPT ![s] = Tail(@)]
        /\ tok' = [tok EXCEPT ![s] = t] /\ pc' = pc /\ gen' = gen
    BY <1>1, <1>3, <2>2 DEF StemReceive, IsTensor
  <2>4. ~work'[s] /\ tok'[s] = t
    BY <1>1, <2>3, SomeTypes
  <2>5. meta'[s] = rest
    BY <2>2, <2>3, SomeTypes
  <2>. QED
    BY <1>1, <2>3, <2>4, <2>5 DEF Pending
<1>4. CASE Advance(s)
  <2>1. /\ ~work[s] /\ tok[s] = t /\ meta[s] = rest
        /\ work' = work /\ meta' = meta /\ Count(s, t)
    BY <1>4 DEF Advance, Pending, channels
  <2>2. gen[s].q = t.q /\ gen[s].n + 1 = t.i
    BY <1>1
  <2>3. Complete(s, t) <=> Final(t)
    BY <2>2 DEF Complete, Final
  <2>4. CASE Final(t)
    <3>1. Leave(s, "top") /\ "top" \in Labels
      BY <1>1, <2>1, <2>3, <2>4, LabelFacts DEF Count
    <3>2. pc'[s] = "top"
      BY <1>1, <3>1, LeaveTypes
    <3>. QED
      BY <2>1, <2>4, <3>2 DEF Ended
  <2>5. CASE ~Final(t)
    <3>1. pc' = [pc EXCEPT ![s] = "act"] /\ gen' = [gen EXCEPT ![s].n = @ + 1]
      BY <1>1, <2>1, <2>3, <2>5 DEF Count, Goto
    <3>2. pc'[s] = "act" /\ gen'[s] = [gen[s] EXCEPT !.n = gen[s].n + 1]
      BY <1>1, <3>1, SomeTypes
    <3>3. [gen[s] EXCEPT !.n = gen[s].n + 1] = [q |-> t.q, n |-> t.i]
      BY <1>1
    <3>. QED
      BY <2>1, <2>5, <3>2, <3>3
  <2>. QED
    BY <2>4, <2>5
<1>. QED
  BY <1>2, <1>3, <1>4 DEF Alone

LEMMA EndedStep ==
  ASSUME ServingTypes, NEW s \in Followers, NEW rest, Ended(s, rest), Alone(s)
  PROVE  \/ Ended(s, rest)'
         \/ pc[s] = "prompt" /\ Read(s)
<1>1. pc[s] \in {"top", "prompt"} /\ ~work[s] /\ meta[s] = rest /\ s \in Stages
  BY StageFacts DEF Ended
<1>2. ~Pause(s) /\ ~StemReceive(s) /\ ~Advance(s)
  BY <1>1 DEF Pause, StemReceive, Advance
<1>3. CASE Enter(s)
  <2>1. pc' = [pc EXCEPT ![s] = "prompt"] /\ work' = work /\ meta' = meta
    BY <1>3 DEF Enter, Goto, data, channels, receivers
  <2>2. pc'[s] = "prompt"
    BY <1>1, <2>1, SomeTypes
  <2>. QED
    BY <1>1, <2>1, <2>2 DEF Ended
<1>4. CASE Read(s)
  BY <1>1, <1>4 DEF Read, Expects
<1>. QED
  BY <1>2, <1>3, <1>4 DEF Alone

LEMMA OverStep ==
  ASSUME ServingTypes, NEW s \in Followers, NEW rest \in Seq(Sent), Over(s, rest), Alone(s)
  PROVE  \/ Over(s, rest)'
         \/ Ended(s, rest) /\ pc[s] = "prompt" /\ Read(s)
<1>1. CASE Ended(s, rest)
  BY <1>1, EndedStep DEF Over
<1>2. ASSUME NEW t \in Tokens, s \in Stems, Final(t), Pending(s, t, rest)
      PROVE  Over(s, rest)'
  <2>1. Pending(s, t, rest)' \/ Ended(s, rest)'
    BY <1>2, PendingStep
  <2>. QED
    BY <1>2, <2>1 DEF Over
<1>. QED
  BY <1>1, <1>2 DEF Over

LEMMA OverAtRest ==
  ASSUME ServingTypes, NEW s \in Followers, Over(s, << >>), Alone(s)
  PROVE  Over(s, << >>)'
<1>1. << >> \in Seq(Sent)
  BY SentTypes
<1>2. ~(Ended(s, << >>) /\ Read(s))
  BY DEF Ended, Read
<1>. QED
  BY <1>1, <1>2, OverStep

LEMMA ReadAs ==
  ASSUME NEW s, Read(s)
  PROVE  /\ work' = work /\ meta' = [meta EXCEPT ![s] = Tail(@)]
         /\ (pc[s] = "prompt" /\ Head(meta[s]).k = "bs") => pc' = [pc EXCEPT ![s] = "plist"]
         /\ (pc[s] = "plist" /\ Head(meta[s]).k = "prompts") => pc' = [pc EXCEPT ![s] = "lens"]
         /\ (pc[s] = "lens" /\ Head(meta[s]).k = "lens") =>
              /\ pc' = [pc EXCEPT ![s] = "act"]
              /\ gen' = [gen EXCEPT ![s] = NewGen(Head(meta[s]).q)]
<1>1. work' = work /\ meta' = [meta EXCEPT ![s] = Tail(@)]
  BY DEF Read, receivers
<1>2. pc' = [pc EXCEPT ![s] = IF Head(meta[s]).k = Expects[pc[s]] THEN Then[pc[s]] ELSE "top"]
  BY DEF Read, Goto
<1>3. (pc[s] = "lens" /\ Head(meta[s]).k = "lens") => gen' = [gen EXCEPT ![s] = NewGen(Head(meta[s]).q)]
  BY DEF Read, SetGen
<1>4. /\ Expects["prompt"] = "bs" /\ Expects["plist"] = "prompts" /\ Expects["lens"] = "lens"
      /\ Then["prompt"] = "plist" /\ Then["plist"] = "lens" /\ Then["lens"] = "act"
  BY DEF Expects, Then
<1>5. CASE pc[s] = "prompt"
  BY <1>1, <1>2, <1>4, <1>5
<1>6. CASE pc[s] = "plist"
  BY <1>1, <1>2, <1>4, <1>6
<1>7. CASE pc[s] = "lens"
  BY <1>1, <1>2, <1>3, <1>4, <1>7
<1>. QED
  BY <1>1, <1>5, <1>6, <1>7

(* The announcement is read in its order. *)
LEMMA ReadingStep ==
  ASSUME ServingTypes, req > 0, NEW s \in Followers, Reading(s), Alone(s)
  PROVE  Reading(s)' \/ Ready(s, 0)'
<1>0. s \in Stages /\ req \in 1..R /\ Announcement(req) \in Seq(Sent) /\ req' = req
  <2>1. req \in 1..R
    BY SomeTypes, ServingBounds
  <2>. QED
    BY <2>1, StageFacts, SomeTypes, SentTypes, AloneKeeps
<1>. DEFINE bs == Message("bs", req, 0)
            ps == Message("prompts", req, 0)
            ls == Message("lens", req, 0)
<1>1. /\ bs.k = "bs" /\ ps.k = "prompts" /\ ls.k = "lens" /\ ls.q = req
      /\ Announcement(req) = <<bs, ps, ls>>
      /\ bs' = bs /\ ps' = ps /\ ls' = ls /\ Announcement(req)' = Announcement(req)
  BY <1>0 DEF Announcement, Message
<1>. HIDE DEF bs, ps, ls
<1>2. CASE Over(s, Announcement(req))
  <2>1. CASE Over(s, Announcement(req))'
    BY <2>1 DEF Reading
  <2>2. CASE Ended(s, Announcement(req)) /\ pc[s] = "prompt" /\ Read(s)
    <3>1. Head(meta[s]) = bs /\ Tail(meta[s]) = <<ps, ls>> /\ ~work[s]
      BY <1>1, <2>2 DEF Ended
    <3>2. /\ pc' = [pc EXCEPT ![s] = "plist"] /\ meta' = [meta EXCEPT ![s] = Tail(@)]
          /\ work' = work
      BY <1>1, <2>2, <3>1, ReadAs
    <3>3. pc'[s] = "plist"
      BY <1>0, <3>2, SomeTypes
    <3>4. meta'[s] = <<ps, ls>>
      BY <3>1, <3>2, SomeTypes
    <3>5. meta'[s] = <<Message("prompts", req', 0), Message("lens", req', 0)>>
      BY <1>0, <3>4 DEF ps, ls
    <3>6. ~work'[s]
      BY <3>1, <3>2
    <3>. QED
      BY <3>3, <3>5, <3>6 DEF Reading
  <2>. QED
    BY <1>0, <1>1, <1>2, <2>1, <2>2, OverStep
<1>3. CASE pc[s] = "plist" /\ ~work[s] /\ meta[s] = <<ps, ls>>
  <2>1. Read(s)
    BY <1>3 DEF Alone, Enter, Pause, StemReceive, Advance
  <2>2. Head(meta[s]) = ps /\ Tail(meta[s]) = <<ls>>
    BY <1>3
  <2>3. /\ pc' = [pc EXCEPT ![s] = "lens"] /\ meta' = [meta EXCEPT ![s] = Tail(@)]
        /\ work' = work
    BY <1>1, <1>3, <2>1, <2>2, ReadAs
  <2>4. pc'[s] = "lens"
    BY <1>0, <2>3, SomeTypes
  <2>5. meta'[s] = <<ls>>
    BY <2>2, <2>3, SomeTypes
  <2>6. meta'[s] = <<Message("lens", req', 0)>> /\ ~work'[s]
    BY <1>0, <1>3, <2>3, <2>5 DEF ls
  <2>. QED
    BY <2>4, <2>6 DEF Reading
<1>4. CASE pc[s] = "lens" /\ ~work[s] /\ meta[s] = <<ls>>
  <2>1. Read(s)
    BY <1>4 DEF Alone, Enter, Pause, StemReceive, Advance
  <2>2. Head(meta[s]) = ls /\ Tail(meta[s]) = << >>
    BY <1>4
  <2>3. /\ pc' = [pc EXCEPT ![s] = "act"] /\ meta' = [meta EXCEPT ![s] = Tail(@)]
        /\ work' = work /\ gen' = [gen EXCEPT ![s] = NewGen(req)]
    BY <1>1, <1>4, <2>1, <2>2, ReadAs
  <2>4. pc'[s] = "act" /\ gen'[s] = [q |-> req', n |-> 0]
    BY <1>0, <2>3, SomeTypes DEF NewGen
  <2>5. meta'[s] = << >> /\ ~work'[s]
    BY <1>4, <2>2, <2>3, SomeTypes
  <2>. QED
    BY <2>4, <2>5 DEF Ready
<1>5. CASE /\ pc[s] \in {"lost", "paused", "deaf"} /\ ~work[s]
           /\ meta[s] = Announcement(req)
  <2>1. Pause(s)
    BY <1>5 DEF Alone, Enter, Read, Expects, StemReceive, Advance
  <2>2. pc' = [pc EXCEPT ![s] = "paused"] /\ meta' = meta /\ work' = work
    BY <2>1 DEF Pause, Goto, data, channels, receivers
  <2>3. pc'[s] = "paused"
    BY <1>0, <2>2, SomeTypes
  <2>4. meta'[s] = Announcement(req)' /\ ~work'[s]
    BY <1>1, <1>5, <2>2
  <2>. QED
    BY <2>3, <2>4 DEF Reading
<1>. QED
  BY <1>2, <1>3, <1>4, <1>5 DEF Reading, ps, ls

(* A follower that is where the request wants it stays there, whatever it  *)
(* does by itself.                                                         *)
LEMMA BehindStep ==
  ASSUME ServingTypes, req > 0, NEW s \in Followers, NEW n \in Nat, Behind(s, n), Alone(s)
  PROVE  Behind(s, n)'
<1>1. req' = req /\ req \in 1..R
  BY AloneKeeps, SomeTypes, ServingBounds
<1>2. ~Ready(s, n)
  BY DEF Ready, Alone, Enter, Pause, Read, Expects, StemReceive, Advance
<1>3. CASE n = 0 /\ Reading(s)
  <2>1. Reading(s)' \/ Ready(s, n)'
    BY <1>3, ReadingStep
  <2>. QED
    BY <1>3, <2>1 DEF Behind
<1>4. CASE /\ n > 0 /\ s \in Stems /\ ~Final(Message("tok", req, n))
           /\ Pending(s, Message("tok", req, n), << >>)
  <2>1. Message("tok", req, n) \in Tokens
    BY <1>1, <1>4 DEF Message, Tokens
  <2>2. PICK t \in Tokens : t = Message("tok", req, n)
    BY <2>1
  <2>3. /\ t.q = req /\ t.i = n /\ t = Message("tok", req', n)
        /\ ~Final(t) /\ Pending(s, t, << >>)
    BY <1>1, <1>4, <2>2 DEF Message
  <2>4. \/ Pending(s, t, << >>)'
        \/ pc'[s] = "act" /\ gen'[s] = [q |-> t.q, n |-> t.i] /\ ~work'[s] /\ meta'[s] = << >>
    BY <2>3, SentTypes, PendingStep
  <2>5. CASE Pending(s, t, << >>)'
    <3>1. Pending(s, Message("tok", req, n), << >>)'
      BY <2>3, <2>5 DEF Pending
    <3>2. ~Final(Message("tok", req', n))
      BY <2>3
    <3>. QED
      BY <1>4, <3>1, <3>2 DEF Behind, Final
  <2>6. CASE /\ pc'[s] = "act" /\ gen'[s] = [q |-> t.q, n |-> t.i]
             /\ ~work'[s] /\ meta'[s] = << >>
    <3>1. Ready(s, n)'
      BY <1>1, <2>3, <2>6 DEF Ready
    <3>. QED
      BY <3>1 DEF Behind
  <2>. QED
    BY <2>4, <2>5, <2>6
<1>. QED
  BY <1>2, <1>3, <1>4 DEF Behind

LEMMA BeyondStep ==
  ASSUME ServingTypes, NEW s \in Followers, NEW t \in Tokens, t.q = req, Beyond(s, t), Alone(s)
  PROVE  Beyond(s, t)'
<1>1. req' = req
  BY AloneKeeps
<1>2. ~(~Final(t) /\ Ready(s, t.i))
  BY DEF Ready, Alone, Enter, Pause, Read, Expects, StemReceive, Advance
<1>3. CASE s \in Stems /\ Pending(s, t, << >>)
  <2>1. \/ Pending(s, t, << >>)'
        \/ Final(t) /\ Ended(s, << >>)'
        \/ /\ ~Final(t) /\ pc'[s] = "act" /\ gen'[s] = [q |-> t.q, n |-> t.i]
           /\ ~work'[s] /\ meta'[s] = << >>
    BY <1>3, SentTypes, PendingStep
  <2>2. \/ Pending(s, t, << >>)'
        \/ Final(t) /\ Ended(s, << >>)'
        \/ ~Final(t) /\ Ready(s, t.i)'
    BY <1>1, <2>1 DEF Ready
  <2>. QED
    BY <1>3, <2>2 DEF Beyond, Final
<1>4. CASE Final(t) /\ Ended(s, << >>)
  <2>1. Ended(s, << >>)'
    <3>1. ~Read(s)
      BY <1>4 DEF Ended, Read
    <3>. QED
      BY <1>4, <3>1, EndedStep
  <2>. QED
    BY <1>4, <2>1 DEF Beyond, Final
<1>. QED
  BY <1>2, <1>3, <1>4 DEF Beyond

LEMMA WaitingStays ==
  ASSUME NEW s \in Followers, NEW n, Waiting(s, n)
  PROVE  ~Alone(s)
BY DEF Waiting, Alone, Enter, Pause, Read, Expects, StemReceive, Advance

-----------------------------------------------------------------------------
(* Where a request is, after each step of the system. *)

LEMMA AtRootNext ==
  ASSUME NEW n, pc'[0] = "send", gen'[0].n = n, ~work'[0], up' = << >>,
         \A s \in Followers : act'[s] = << >>, \A s \in Followers : Behind(s, n)'
  PROVE  AtRoot'
BY DEF AtRoot, NoActivations

LEMMA AtStageNext ==
  ASSUME NEW n, NEW l \in Followers, pc'[0] = "fb", gen'[0].n = n, work'[0], up' = << >>,
         \A s \in Followers :
           act'[s] = IF s = l THEN <<Message("act", req', n + 1)>> ELSE << >>,
         \A s \in Followers : IF s < l THEN Waiting(s, n)' ELSE Behind(s, n)'
  PROVE  AtStage(l)'
<1>1. \A s \in Followers :
        /\ act'[s] = IF s = l THEN <<Message("act", req, gen[0].n + 1)'>> ELSE << >>
        /\ IF s < l THEN Waiting(s, gen[0].n)' ELSE Behind(s, gen[0].n)'
  BY DEF Message
<1>. QED
  BY <1>1 DEF AtStage

LEMMA ReturningNext ==
  ASSUME NEW n, NEW t \in Tokens, pc'[0] = "fb", gen'[0].n = n, work'[0], up' = <<t>>,
         \A s \in Followers : act'[s] = << >>, t.q = req', t.i = n + 1,
         \A s \in Stems : Waiting(s, n)', Beyond(Leaf, t)'
  PROVE  Returning(t)'
<1>1. OfStep(t)'
  BY DEF OfStep
<1>2. \A s \in Stems : Waiting(s, gen[0].n)'
  OBVIOUS
<1>3. Beyond(Leaf, t)'
  OBVIOUS
<1>. QED
  BY <1>1, <1>2, <1>3 DEF Returning, NoActivations

LEMMA ReturnedNext ==
  ASSUME NEW n, NEW t \in Tokens, pc'[0] = "fb", gen'[0].n = n, ~work'[0], tok'[0] = t,
         up' = << >>, \A s \in Followers : act'[s] = << >>, t.q = req', t.i = n + 1,
         \A s \in Followers : Beyond(s, t)'
  PROVE  Returned(t)'
<1>1. OfStep(t)'
  BY DEF OfStep
<1>. QED
  BY <1>1 DEF Returned, NoActivations

LEMMA AtRestNext ==
  ASSUME pc'[0] = "idle", ~work'[0], up' = << >>,
         \A s \in Followers : act'[s] = << >>, \A s \in Followers : Over(s, << >>)'
  PROVE  AtRest'
BY DEF AtRest, NoActivations

(* Nothing a follower does by itself moves the request. *)
LEMMA AloneStep ==
  ASSUME ServingTypes, req > 0, Somewhere, NEW s \in Followers, Alone(s)
  PROVE  Somewhere'
<1>1. /\ \A r \in Stages : r # s => Keeps(r)
      /\ UNCHANGED <<req, act, up, orphans, broken, foreign>>
      /\ s \in Stages /\ s # 0 /\ 0 \in Stages
  BY AloneKeeps, StageFacts
<1>2. Keeps(0) /\ \A r \in Followers : r # s => Keeps(r)
  BY <1>1, StageFacts
<1>3. pc'[0] = pc[0] /\ gen'[0] = gen[0] /\ work'[0] = work[0] /\ tok'[0] = tok[0]
  BY <1>2 DEF Keeps
<1>4. PICK n \in Nat : n = gen[0].n
  BY <1>1 DEF ServingTypes
<1>5. CASE AtRoot
  <2>1. /\ pc[0] = "send" /\ ~work[0] /\ up = << >> /\ NoActivations
        /\ \A r \in Followers : Behind(r, n)
    BY <1>4, <1>5 DEF AtRoot
  <2>2. \A r \in Followers : Behind(r, n)'
    BY <1>1, <1>2, <2>1, Kept, BehindStep
  <2>3. AtRoot'
    BY <1>1, <1>3, <1>4, <2>1, <2>2, AtRootNext DEF NoActivations
  <2>. QED
    BY <2>3 DEF Somewhere
<1>6. ASSUME NEW l \in Followers, AtStage(l)
      PROVE  Somewhere'
  <2>1. /\ pc[0] = "fb" /\ work[0] /\ up = << >>
        /\ \A r \in Followers :
             act[r] = IF r = l THEN <<Message("act", req, n + 1)>> ELSE << >>
        /\ \A r \in Followers : IF r < l THEN Waiting(r, n) ELSE Behind(r, n)
    BY <1>4, <1>6 DEF AtStage
  <2>2. ASSUME NEW r \in Followers PROVE IF r < l THEN Waiting(r, n)' ELSE Behind(r, n)'
    <3>1. CASE r # s
      BY <1>1, <1>2, <2>1, <3>1, Kept
    <3>2. CASE r = s
      <4>1. ~(s < l)
        BY <2>1, WaitingStays
      <4>2. Behind(s, n)'
        BY <2>1, <4>1, BehindStep
      <4>. QED
        BY <3>2, <4>1, <4>2
    <3>. QED
      BY <3>1, <3>2
  <2>3. \A r \in Followers : act'[r] = IF r = l THEN <<Message("act", req', n + 1)>> ELSE << >>
    BY <1>1, <2>1
  <2>4. pc'[0] = "fb" /\ gen'[0].n = n /\ work'[0] /\ up' = << >>
    BY <1>1, <1>3, <1>4, <2>1
  <2>5. AtStage(l)'
    BY <2>2, <2>3, <2>4, AtStageNext
  <2>. QED
    BY <2>5 DEF Somewhere
<1>7. ASSUME NEW t \in Tokens, Returning(t)
      PROVE  Somewhere'
  <2>1. /\ pc[0] = "fb" /\ work[0] /\ up = <<t>> /\ NoActivations /\ t.q = req /\ t.i = n + 1
        /\ \A r \in Stems : Waiting(r, n)
        /\ Beyond(Leaf, t)
    BY <1>4, <1>7 DEF Returning, OfStep
  <2>2. s = Leaf
    BY <2>1, WaitingStays, StageFacts
  <2>3. \A r \in Stems : Waiting(r, n)'
    BY <1>1, <1>2, <2>1, <2>2, Kept, StageFacts
  <2>4. Beyond(Leaf, t)'
    BY <2>1, <2>2, BeyondStep
  <2>5. /\ pc'[0] = "fb" /\ gen'[0].n = n /\ work'[0] /\ up' = <<t>>
        /\ \A r \in Followers : act'[r] = << >> 
        /\ t.q = req' /\ t.i = n + 1
    BY <1>1, <1>3, <1>4, <2>1 DEF NoActivations
  <2>6. Returning(t)'
    BY <2>3, <2>4, <2>5, ReturningNext
  <2>. QED
    BY <2>6 DEF Somewhere
<1>8. ASSUME NEW t \in Tokens, Returned(t)
      PROVE  Somewhere'
  <2>1. /\ pc[0] = "fb" /\ ~work[0] /\ tok[0] = t /\ up = << >> /\ NoActivations
        /\ t.q = req /\ t.i = n + 1 /\ \A r \in Followers : Beyond(r, t)
    BY <1>4, <1>8 DEF Returned, OfStep
  <2>2. \A r \in Followers : Beyond(r, t)'
    BY <1>1, <1>2, <2>1, Kept, BeyondStep
  <2>3. /\ pc'[0] = "fb" /\ gen'[0].n = n /\ ~work'[0] /\ tok'[0] = t /\ up' = << >>
        /\ \A r \in Followers : act'[r] = << >>
        /\ t.q = req' /\ t.i = n + 1
    BY <1>1, <1>3, <1>4, <2>1 DEF NoActivations
  <2>4. Returned(t)'
    BY <2>2, <2>3, ReturnedNext
  <2>. QED
    BY <2>4 DEF Somewhere
<1>9. CASE AtRest
  <2>1. /\ pc[0] = "idle" /\ ~work[0] /\ up = << >> /\ NoActivations
        /\ \A r \in Followers : Over(r, << >>)
    BY <1>9 DEF AtRest
  <2>2. \A r \in Followers : Over(r, << >>)'
    BY <1>1, <1>2, <2>1, Kept, OverAtRest
  <2>3. AtRest'
    BY <1>1, <1>3, <2>1, <2>2, AtRestNext DEF NoActivations
  <2>. QED
    BY <2>3 DEF Somewhere
<1>. QED
  BY <1>5, <1>6, <1>7, <1>8, <1>9 DEF Somewhere

(* The announcement reaches followers that wait for it, or will.           *)
LEMMA StartStep ==
  ASSUME ServingTypes, Start, Fresh \/ AtRest
  PROVE  AtRoot'
<1>1. /\ pc[0] = "idle" /\ pc' = [pc EXCEPT ![0] = "send"]
      /\ gen' = [gen EXCEPT ![0] = NewGen(req')] /\ req' = req + 1
      /\ Broadcast(Announcement(req'), Followers)
      /\ UNCHANGED <<act, up, work, tok>>
  BY DEF Start, Goto, SetGen, Announcement, receivers
<1>2. PICK a : a = Announcement(req') /\ a \in Seq(Sent)
  <2>1. req' \in Nat
    BY <1>1, SomeTypes
  <2>2. Announcement(req') \in Seq(Sent)
    BY <2>1, SentTypes
  <2>. QED
    BY <2>2
<1>3. ~work[0] /\ up = << >> /\ NoActivations
  BY DEF Fresh, AtRest
<1>4. /\ pc'[0] = "send" /\ gen'[0].n = 0 /\ ~work'[0] /\ up' = << >>
      /\ \A s \in Followers : act'[s] = << >>
  BY <1>1, <1>3, SomeTypes DEF NewGen, NoActivations
<1>5. ASSUME NEW s \in Followers
      PROVE  /\ pc'[s] = pc[s] /\ gen'[s] = gen[s] /\ work'[s] = work[s] /\ tok'[s] = tok[s]
             /\ meta'[s] = meta[s] \o a
  <2>1. s \in Stages /\ s # 0
    BY StageFacts
  <2>. QED
    BY <1>1, <1>2, <2>1, SomeTypes DEF Broadcast
<1>6. ASSUME NEW s \in Followers
      PROVE  Reading(s)'
  <2>1. << >> \o a = a
    BY <1>2
  <2>2. a = Announcement(req)'
    BY <1>2 DEF Announcement, Message
  <2>3. CASE Fresh
    <3>1. pc[s] \in {"top", "prompt", "lost", "paused", "deaf"} /\ ~work[s] /\ meta[s] = << >>
      BY <2>3 DEF Fresh
    <3>2. /\ pc'[s] \in {"top", "prompt", "lost", "paused", "deaf"}
          /\ ~work'[s] /\ meta'[s] = Announcement(req)'
      BY <1>5, <2>1, <2>2, <3>1
    <3>3. pc'[s] \in {"top", "prompt"} => Ended(s, Announcement(req))'
      BY <3>2 DEF Ended
    <3>. QED
      BY <3>2, <3>3 DEF Reading, Over
  <2>4. CASE AtRest
    <3>1. Over(s, << >>)
      BY <2>4 DEF AtRest
    <3>2. CASE Ended(s, << >>)
      <4>1. pc'[s] \in {"top", "prompt"} /\ ~work'[s] /\ meta'[s] = Announcement(req)'
        BY <1>5, <2>1, <2>2, <3>2 DEF Ended
      <4>. QED
        BY <4>1 DEF Reading, Over, Ended
    <3>3. ASSUME NEW t \in Tokens, s \in Stems, Final(t), Pending(s, t, << >>)
          PROVE  Over(s, Announcement(req))'
      <4>1. (<<t>> \o << >>) \o a = <<t>> \o a
        BY <1>2, SentTypes
      <4>2. \/ work'[s] /\ meta'[s] = <<t>> \o Announcement(req)'
            \/ ~work'[s] /\ tok'[s] = t /\ meta'[s] = Announcement(req)'
        BY <1>5, <2>1, <2>2, <3>3, <4>1 DEF Pending
      <4>3. pc'[s] = "fb" /\ gen'[s] = [q |-> t.q, n |-> t.i - 1]
        BY <1>5, <3>3 DEF Pending
      <4>4. Pending(s, t, Announcement(req))'
        BY <4>2, <4>3 DEF Pending
      <4>. QED
        BY <3>3, <4>4 DEF Over, Final
    <3>. QED
      BY <3>1, <3>2, <3>3 DEF Over, Reading
  <2>. QED
    BY <2>3, <2>4
<1>7. \A s \in Followers : Behind(s, 0)'
  BY <1>6 DEF Behind
<1>. QED
  BY <1>4, <1>7, AtRootNext

(* A root in a request of its connections is not late. *)
LEMMA NotLate ==
  ASSUME ServingTypes, req # before, RootIsLate
  PROVE  FALSE
<1>1. gen[0].q = req /\ before \in 0..req /\ req \in Nat /\ gen[0].q <= before
  BY SomeTypes DEF ServingTypes, RootIsLate
<1>. QED
  BY <1>1

LEMMA RootForwardStep ==
  ASSUME ServingTypes, RootForward, Somewhere
  PROVE  AtStage(1)'
<1>1. /\ pc[0] = "send" /\ pc' = [pc EXCEPT ![0] = "fb"]
      /\ act' = [act EXCEPT ![1] = Append(@, Message("act", gen[0].q, gen[0].n + 1))]
      /\ work' = [work EXCEPT ![0] = TRUE] /\ tok' = [tok EXCEPT ![0] = Zero]
      /\ UNCHANGED <<req, gen, meta, up>>
  BY DEF RootForward, Goto, Listen
<1>2. AtRoot
  BY <1>1 DEF Somewhere, AtStage, Returning, Returned, AtRest
<1>3. PICK n \in Nat : n = gen[0].n
  BY SomeTypes DEF ServingTypes
<1>4. gen[0].q = req /\ 1 \in Followers
  BY <1>1, StageFacts DEF ServingTypes
<1>5. up = << >> /\ (\A s \in Followers : act[s] = << >>) /\ \A s \in Followers : Behind(s, n)
  BY <1>2, <1>3 DEF AtRoot, NoActivations
<1>6. pc'[0] = "fb" /\ gen'[0].n = n /\ work'[0] /\ up' = << >>
  BY <1>1, <1>3, <1>5, SomeTypes
<1>7. \A s \in Followers : act'[s] = IF s = 1 THEN <<Message("act", req', n + 1)>> ELSE << >>
  <2>. DEFINE m == Message("act", req, n + 1)
  <2>1. m = Message("act", gen[0].q, gen[0].n + 1) /\ m = Message("act", req', n + 1)
    BY <1>1, <1>3, <1>4
  <2>. HIDE DEF m
  <2>2. Append(act[1], m) = <<m>>
    <3>1. \A x : Append(<< >>, x) = <<x>>
      OBVIOUS
    <3>. QED
      BY <1>4, <1>5, <3>1
  <2>3. act' = [act EXCEPT ![1] = <<m>>]
    BY <1>1, <2>1, <2>2
  <2>4. \A s \in Followers : act'[s] = IF s = 1 THEN <<m>> ELSE act[s]
    BY <2>3, SomeTypes
  <2>. QED
    BY <1>5, <2>1, <2>4
<1>8. ASSUME NEW s \in Followers
      PROVE  IF s < 1 THEN Waiting(s, n)' ELSE Behind(s, n)'
  <2>1. s \in Stages /\ s # 0 /\ s \in Nat /\ ~(s < 1)
    BY StageFacts
  <2>2. Keeps(s)
    BY <1>1, <2>1, SomeTypes DEF Keeps
  <2>3. Behind(s, n)'
    BY <1>1, <1>5, <2>2, Kept
  <2>. QED
    BY <2>1, <2>3
<1>. QED
  BY <1>4, <1>6, <1>7, <1>8, AtStageNext

(* An activation and a token of the step the root is at. *)
LEMMA OfStepFacts ==
  ASSUME ServingTypes, req > 0, NEW n \in Nat, NEW m, m = Message("act", req, n + 1)
  PROVE  /\ m \in MessageOf({"act"}) /\ m.q = req /\ m.i = n + 1
         /\ \A eos \in BOOLEAN :
              Token(m, eos) \in Tokens /\ Token(m, eos).q = req /\ Token(m, eos).i = n + 1
<1>1. req \in 1..R /\ n + 1 \in Nat \ {0} /\ req \in Nat
  BY SomeTypes, ServingBounds
<1>. QED
  BY <1>1 DEF Message, MessageOf, Token, Tokens

(* The activation goes on to the next stage, or the leaf answers it.       *)
LEMMA StageStep ==
  ASSUME ServingTypes, req > 0, Somewhere, NEW s \in Followers, Step(s)
  PROVE  Somewhere'
<1>0. /\ s \in Stages /\ s # 0 /\ s \in Nat /\ 0 \in Stages /\ pc[s] = "act" /\ act[s] # << >>
      /\ req' = req /\ meta' = meta
  BY StageFacts DEF Step
<1>1. PICK n \in Nat : n = gen[0].n
  BY SomeTypes DEF ServingTypes
<1>2. AtStage(s)
  BY <1>0 DEF Somewhere, AtRoot, AtStage, Returning, Returned, AtRest, NoActivations
<1>3. PICK m : m = Message("act", req, n + 1)
  OBVIOUS
<1>4. /\ pc[0] = "fb" /\ work[0] /\ up = << >>
      /\ \A r \in Followers : act[r] = IF r = s THEN <<m>> ELSE << >>
      /\ \A r \in Followers : IF r < s THEN Waiting(r, n) ELSE Behind(r, n)
  BY <1>1, <1>2, <1>3 DEF AtStage
<1>5. Ready(s, n)
  <2>1. Behind(s, n) /\ ~Reading(s) /\ ~Pending(s, Message("tok", req, n), << >>)
    BY <1>0, <1>4 DEF Reading, Over, Ended, Pending
  <2>. QED
    BY <2>1 DEF Behind
<1>6. gen[s] = [q |-> req, n |-> n] /\ ~work[s] /\ meta[s] = << >> /\ gen[s].q = req /\ gen[s].n = n
  BY <1>5 DEF Ready
<1>7. /\ Head(act[s]) = m /\ Tail(act[s]) = << >>
      /\ m.q = req /\ m.i = n + 1 /\ m \in MessageOf({"act"})
  <2>1. act[s] = <<m>>
    BY <1>4
  <2>. QED
    BY <1>3, <2>1, OfStepFacts
<1>8. PICK rest : /\ rest = [act EXCEPT ![s] = << >>]
                  /\ \A r \in Followers : rest[r] = << >>
                  /\ rest = [r \in Followers |-> rest[r]]
  <2>. DEFINE rest == [act EXCEPT ![s] = << >>]
  <2>1. rest = [r \in Followers |-> rest[r]]
    BY SomeTypes
  <2>2. \A r \in Followers : rest[r] = << >>
    BY <1>4, SomeTypes
  <2>. QED
    BY <2>1, <2>2
<1>9. /\ Forward(s, m)
      /\ act' = IF s = Leaf THEN rest ELSE [rest EXCEPT ![s + 1] = Append(@, m)]
  BY <1>0, <1>6, <1>7, <1>8 DEF Step
<1>10. CASE s # Leaf
  <2>1. /\ pc' = [pc EXCEPT ![s] = "fb"] /\ work' = [work EXCEPT ![s] = TRUE]
        /\ tok' = [tok EXCEPT ![s] = Zero] /\ gen' = gen /\ up' = up
    BY <1>9, <1>10 DEF Forward, Listen, Goto
  <2>2. PICK l \in Followers : l = s + 1
    BY <1>10, StageFacts
  <2>3. \A r \in Followers : act'[r] = IF r = l THEN <<m>> ELSE << >>
    <3>1. \A x : Append(<< >>, x) = <<x>>
      OBVIOUS
    <3>2. act' = [rest EXCEPT ![l] = <<m>>]
      BY <1>8, <1>9, <1>10, <2>2, <3>1
    <3>. QED
      BY <1>8, <3>2
  <2>4. \A r \in Stages : r # s => Keeps(r)
    BY <1>0, <2>1, SomeTypes DEF Keeps
  <2>5. Waiting(s, n)'
    <3>1. pc'[s] = "fb" /\ work'[s]
      BY <1>0, <2>1, SomeTypes
    <3>. QED
      BY <1>0, <1>6, <2>1, <3>1 DEF Waiting
  <2>6. ASSUME NEW r \in Followers PROVE IF r < l THEN Waiting(r, n)' ELSE Behind(r, n)'
    <3>1. r \in Stages /\ r \in Nat
      BY StageFacts
    <3>2. CASE r = s
      BY <1>0, <2>2, <2>5, <3>2
    <3>3. CASE r # s /\ r < s
      <4>1. Waiting(r, n)'
        BY <1>0, <1>4, <2>4, <3>1, <3>3, Kept
      <4>. QED
        BY <1>0, <2>2, <3>1, <3>3, <4>1
    <3>4. CASE r # s /\ ~(r < s)
      <4>1. Behind(r, n)'
        BY <1>0, <1>4, <2>4, <3>1, <3>4, Kept
      <4>. QED
        BY <1>0, <2>2, <3>1, <3>4, <4>1
    <3>. QED
      BY <3>2, <3>3, <3>4
  <2>7. pc'[0] = "fb" /\ gen'[0].n = n /\ work'[0] /\ up' = << >>
    BY <1>0, <1>1, <1>4, <2>1, <2>4 DEF Keeps
  <2>8. m = Message("act", req', n + 1)
    BY <1>0, <1>3
  <2>9. AtStage(l)'
    BY <2>3, <2>6, <2>7, <2>8, AtStageNext
  <2>. QED
    BY <2>9 DEF Somewhere
<1>11. CASE s = Leaf
  <2>1. PICK eos \in BOOLEAN : Feedback(Token(m, eos)) /\ Count(s, Token(m, eos)) /\ UNCHANGED receivers
    BY <1>9, <1>11 DEF Forward
  <2>2. PICK t \in Tokens : t = Token(m, eos) /\ t.q = req /\ t.i = n + 1
    BY <1>3, OfStepFacts
  <2>3. up' = <<t>> /\ Count(s, t) /\ work' = work /\ tok' = tok
    BY <1>4, <2>1, <2>2 DEF Feedback, receivers
  <2>4. Complete(s, t) <=> Final(t)
    BY <1>6, <2>2 DEF Complete, Final
  <2>5. \A r \in Stages : r # s => Keeps(r)
    <3>1. \A r \in Stages : r # s => pc'[r] = pc[r] /\ gen'[r] = gen[r]
      BY <1>0, <2>3, CountTypes
    <3>. QED
      BY <1>0, <2>3, <3>1 DEF Keeps
  <2>6. Beyond(s, t)'
    <3>1. CASE Final(t)
      <4>1. Leave(s, "top") /\ "top" \in Labels
        BY <1>0, <2>3, <2>4, <3>1, LabelFacts DEF Count
      <4>2. pc'[s] = "top"
        BY <1>0, <4>1, LeaveTypes
      <4>3. Ended(s, << >>)'
        BY <1>0, <1>6, <2>3, <4>2 DEF Ended
      <4>. QED
        BY <3>1, <4>3 DEF Beyond, Final
    <3>2. CASE ~Final(t)
      <4>1. pc' = [pc EXCEPT ![s] = "act"] /\ gen' = [gen EXCEPT ![s].n = @ + 1]
        BY <1>0, <2>3, <2>4, <3>2 DEF Count, Goto
      <4>2. pc'[s] = "act" /\ gen'[s] = [gen[s] EXCEPT !.n = gen[s].n + 1]
        BY <1>0, <4>1, SomeTypes
      <4>3. [gen[s] EXCEPT !.n = gen[s].n + 1] = [q |-> req, n |-> t.i]
        BY <1>6, <2>2
      <4>4. Ready(s, t.i)'
        BY <1>0, <1>6, <2>3, <4>2, <4>3 DEF Ready
      <4>. QED
        BY <3>2, <4>4 DEF Beyond, Final
    <3>. QED
      BY <3>1, <3>2
  <2>7. ASSUME NEW r \in Stems PROVE Waiting(r, n)'
    <3>1. r \in Stages /\ r # s /\ r < s /\ r \in Followers
      BY <1>11, StageFacts
    <3>2. Waiting(r, n) /\ Keeps(r)
      BY <1>4, <2>5, <3>1
    <3>. QED
      BY <1>0, <3>2, Kept
  <2>8. \A r \in Followers : act'[r] = << >>
    BY <1>8, <1>9, <1>11
  <2>9. pc'[0] = "fb" /\ gen'[0].n = n /\ work'[0] /\ t.q = req' /\ t.i = n + 1
    BY <1>0, <1>1, <1>4, <2>2, <2>5 DEF Keeps
  <2>10. Beyond(Leaf, t)'
    <3>1. Leaf' = Leaf
      BY DEF Leaf
    <3>. QED
      BY <1>11, <2>6, <3>1
  <2>11. Returning(t)'
    BY <2>3, <2>7, <2>8, <2>9, <2>10, ReturningNext
  <2>. QED
    BY <2>11 DEF Somewhere
<1>. QED
  BY <1>10, <1>11

(* The root's receiver takes the token and hands it to the stems.          *)
LEMMA RootReceiveStep ==
  ASSUME ServingTypes, Somewhere, orphans = 0, RootReceive
  PROVE  Somewhere' /\ orphans' = 0
<1>0. 0 \in Stages /\ Leaf \in Followers /\ Leaf \in Stages /\ Leaf # 0 /\ Leaf \notin Stems
  BY StageFacts
<1>1. /\ up # << >> /\ tok' = [tok EXCEPT ![0] = Head(up)] /\ up' = Tail(up)
      /\ Broadcast(<<Head(up)>>, Stems)
      /\ work' = [work EXCEPT ![0] = FALSE] /\ orphans' = orphans
      /\ UNCHANGED <<pc, req, gen, act>>
  BY DEF RootReceive
<1>2. PICK t \in Tokens : Returning(t)
  BY <1>1 DEF Somewhere, AtRoot, AtStage, Returned, AtRest
<1>3. PICK n \in Nat : n = gen[0].n
  BY SomeTypes DEF ServingTypes
<1>4. /\ pc[0] = "fb" /\ up = <<t>> /\ t.q = req /\ t.i = n + 1
      /\ \A s \in Followers : act[s] = << >>
      /\ \A s \in Stems : Waiting(s, n)
      /\ Beyond(Leaf, t)
  BY <1>2, <1>3 DEF Returning, OfStep, NoActivations
<1>5. Head(up) = t /\ Tail(up) = << >>
  BY <1>4
<1>6. /\ pc'[0] = "fb" /\ gen'[0].n = n /\ ~work'[0] /\ tok'[0] = t /\ up' = << >>
      /\ \A s \in Followers : act'[s] = << >>
      /\ t.q = req' /\ t.i = n + 1
  BY <1>0, <1>1, <1>3, <1>4, <1>5, SomeTypes
<1>7. meta' = [s \in Followers |-> IF s \in Stems THEN meta[s] \o <<t>> ELSE meta[s]]
  BY <1>1, <1>5 DEF Broadcast
<1>8. ASSUME NEW s \in Stems PROVE Beyond(s, t)'
  <2>1. s \in Followers /\ s \in Stages /\ s # 0
    BY StageFacts
  <2>2. pc[s] = "fb" /\ gen[s] = [q |-> req, n |-> n] /\ work[s] /\ meta[s] = << >>
    BY <1>4 DEF Waiting
  <2>3. << >> \o <<t>> = <<t>> \o << >>
    OBVIOUS
  <2>4. meta'[s] = <<t>> \o << >>
    BY <1>7, <2>1, <2>2, <2>3
  <2>5. work'[s]
    BY <1>1, <2>1, <2>2, SomeTypes
  <2>6. n = t.i - 1
    BY <1>4
  <2>7. pc'[s] = "fb" /\ gen'[s] = [q |-> t.q, n |-> t.i - 1]
    BY <1>1, <1>4, <2>2, <2>6
  <2>8. Pending(s, t, << >>)'
    BY <2>4, <2>5, <2>7 DEF Pending
  <2>. QED
    BY <2>8 DEF Beyond
<1>9. Beyond(Leaf, t)'
  <2>1. meta'[Leaf] = meta[Leaf]
    BY <1>0, <1>7
  <2>2. work'[Leaf] = work[Leaf] /\ tok'[Leaf] = tok[Leaf]
    BY <1>0, <1>1, SomeTypes
  <2>3. Keeps(Leaf) /\ req' = req
    BY <1>1, <2>1, <2>2 DEF Keeps
  <2>4. PICK s \in Followers : s = Leaf
    BY <1>0
  <2>5. Beyond(s, t)'
    BY <1>4, <2>3, <2>4, Kept
  <2>. QED
    BY <2>4, <2>5
<1>10. \A s \in Followers : Beyond(s, t)'
  BY <1>8, <1>9, StageFacts
<1>11. Returned(t)'
  BY <1>6, <1>10, ReturnedNext
<1>. QED
  BY <1>1, <1>11 DEF Somewhere

(* The root uses its token, or drops the last one with its generator.      *)
LEMMA RootTakesStep ==
  ASSUME ServingTypes, req > 0, Somewhere, pc[0] = "fb", ~work[0], Accept(0),
         UNCHANGED <<req, meta, act, up, work>>,
         Count(0, tok[0]) \/ (Complete(0, tok[0]) /\ Leave(0, "idle"))
  PROVE  Somewhere' /\ foreign' = foreign
<1>0. 0 \in Stages /\ "idle" \in Labels /\ \A s \in Followers : s \in Stages /\ s # 0
  BY StageFacts, LabelFacts
<1>1. PICK t \in Tokens : Returned(t)
  BY DEF Somewhere, AtRoot, AtStage, Returning, AtRest
<1>2. PICK n \in Nat : n = gen[0].n
  BY SomeTypes DEF ServingTypes
<1>3. /\ tok[0] = t /\ t.q = req /\ t.i = n + 1 /\ up = << >> /\ gen[0].q = req
      /\ \A s \in Followers : act[s] = << >>
      /\ \A s \in Followers : Beyond(s, t)
  BY <1>1, <1>2 DEF Returned, OfStep, NoActivations, ServingTypes
<1>4. t.k = "tok" /\ t.q \in 1..R /\ t.i \in Nat \ {0} /\ t.eos \in BOOLEAN
      /\ t = [k |-> "tok", q |-> t.q, i |-> t.i, eos |-> t.eos]
  BY DEF Tokens
<1>5. foreign' = foreign /\ tok' = [tok EXCEPT ![0] = Zero]
  BY <1>2, <1>3 DEF Accept
<1>6. Complete(0, t) <=> Final(t)
  BY <1>2, <1>3 DEF Complete, Final
<1>7. \A r \in Stages : r # 0 => pc'[r] = pc[r] /\ gen'[r] = gen[r]
  <2>1. CASE Count(0, tok[0])
    BY <1>0, <2>1, CountTypes
  <2>2. CASE Leave(0, "idle")
    BY <1>0, <2>2, LeaveTypes
  <2>. QED
    BY <2>1, <2>2
<1>8. \A s \in Followers : Keeps(s)
  BY <1>0, <1>5, <1>7, SomeTypes DEF Keeps
<1>9. \A s \in Followers : Beyond(s, t)'
  BY <1>3, <1>8, Kept
<1>10. CASE Final(t)
  <2>1. Leave(0, "idle")
    BY <1>3, <1>6, <1>10 DEF Count
  <2>2. pc'[0] = "idle"
    BY <1>0, <2>1, LeaveTypes
  <2>3. ASSUME NEW s \in Followers PROVE Over(s, << >>)'
    <3>1. (s \in Stems /\ Pending(s, t, << >>)') \/ Ended(s, << >>)'
      BY <1>9, <1>10 DEF Beyond, Final
    <3>. QED
      BY <1>10, <3>1 DEF Over, Final
  <2>4. AtRest'
    BY <1>3, <2>2, <2>3, AtRestNext
  <2>. QED
    BY <1>5, <2>4 DEF Somewhere
<1>11. CASE ~Final(t)
  <2>1. pc' = [pc EXCEPT ![0] = "send"] /\ gen' = [gen EXCEPT ![0].n = @ + 1]
    BY <1>3, <1>6, <1>11 DEF Count, Goto
  <2>2. pc'[0] = "send" /\ gen'[0] = [gen[0] EXCEPT !.n = gen[0].n + 1]
    BY <1>0, <2>1, SomeTypes
  <2>3. gen'[0].n = t.i
    <3>1. gen[0] \in [q : Nat, n : Nat]
      BY <1>0, SomeTypes
    <3>. QED
      BY <1>2, <1>3, <2>2, <3>1
  <2>4. t = Message("tok", req', t.i) /\ ~t.eos
    BY <1>3, <1>4, <1>11 DEF Final, Message
  <2>5. ASSUME NEW s \in Followers PROVE Behind(s, t.i)'
    <3>1. PICK i \in Nat \ {0} : i = t.i
      BY <1>4
    <3>2. (s \in Stems /\ Pending(s, t, << >>)') \/ Ready(s, t.i)'
      BY <1>9, <1>11 DEF Beyond, Final
    <3>3. CASE Ready(s, t.i)'
      BY <3>3 DEF Behind
    <3>4. CASE s \in Stems /\ Pending(s, t, << >>)'
      <4>1. Pending(s, Message("tok", req, i), << >>)'
        BY <2>4, <3>1, <3>4 DEF Pending
      <4>2. ~Final(Message("tok", req', i))
        BY <1>11, <2>4, <3>1
      <4>3. Behind(s, i)'
        BY <3>1, <3>4, <4>1, <4>2 DEF Behind, Final
      <4>. QED
        BY <3>1, <4>3
    <3>. QED
      BY <3>2, <3>3, <3>4
  <2>6. AtRoot'
    BY <1>3, <2>2, <2>3, <2>5, AtRootNext
  <2>. QED
    BY <1>5, <2>6 DEF Somewhere
<1>. QED
  BY <1>10, <1>11

-----------------------------------------------------------------------------
(* As long as nobody gives up, the request is somewhere. *)

(* Before the first request on new connections only places change.         *)
LEMMA FreshKept ==
  ASSUME Fresh, \A s \in Followers : Keeps(s), UNCHANGED <<act, up>>, ~work'[0]
  PROVE  Fresh'
BY DEF Fresh, Keeps, NoActivations

LEMMA FreshAlone ==
  ASSUME ServingTypes, Fresh, NEW s \in Followers, Alone(s)
  PROVE  Fresh'
<1>1. /\ \A r \in Stages : r # s => Keeps(r)
      /\ UNCHANGED <<act, up>> /\ s \in Stages
  BY AloneKeeps, StageFacts
<1>2. pc[s] \in {"top", "prompt", "lost", "paused", "deaf"} /\ ~work[s] /\ meta[s] = << >>
  BY DEF Fresh
<1>3. Enter(s) \/ Pause(s)
  BY <1>2 DEF Alone, Read, StemReceive, Advance
<1>4. PICK label \in {"prompt", "paused"} : pc' = [pc EXCEPT ![s] = label]
  BY <1>3 DEF Enter, Pause, Goto
<1>5. meta' = meta /\ work' = work
  BY <1>3 DEF Enter, Pause, data, channels, receivers
<1>6. pc'[s] \in {"top", "prompt", "lost", "paused", "deaf"} /\ ~work'[s] /\ meta'[s] = << >>
  BY <1>1, <1>2, <1>4, <1>5, SomeTypes
<1>7. ~work'[0]
  BY <1>5 DEF Fresh
<1>. QED
  BY <1>1, <1>6, <1>7, StageFacts DEF Fresh, Keeps, NoActivations

LEMMA FreshStep ==
  ASSUME ServingTypes, Healthy, req = before, before' = before, ~broken',
         \/ Start \/ RootReceive \/ RootFails \/ Abandon
         \/ ~RootIsLate /\ RootForward
         \/ \E s \in Stages : (s = 0 \/ s \in Stems) /\ (Advance(s) \/ GiveUp(s))
         \/ \E s \in Followers : Read(s) \/ Step(s) \/ StepWithoutInput(s) \/ Enter(s) \/ Pause(s)
         \/ \E s \in Stems : StemReceive(s)
  PROVE  Healthy'
<1>1. orphans = 0 /\ (\A q \in foreign : q <= before) /\ Fresh /\ req \in Nat
  BY SomeTypes DEF Healthy
<1>2. /\ ~work[0] /\ up = << >>
      /\ \A s \in Followers : /\ pc[s] \in {"top", "prompt", "lost", "paused", "deaf"}
                              /\ ~work[s] /\ meta[s] = << >>
  BY <1>1 DEF Fresh
<1>3. CASE Start
  <2>1. req' = req + 1 /\ orphans' = orphans /\ foreign' = foreign
    BY <1>3 DEF Start, receivers
  <2>2. AtRoot'
    BY <1>1, <1>3, StartStep
  <2>3. req' # before'
    BY <1>1, <2>1
  <2>. QED
    BY <1>1, <2>1, <2>2, <2>3 DEF Healthy, Somewhere
<1>4. ~RootReceive
  BY <1>1, <1>2 DEF RootReceive
<1>5. ~(~RootIsLate /\ RootForward)
  <2>1. pc[0] = "send" => gen[0].q = before
    BY DEF ServingTypes
  <2>. QED
    BY <1>1, <2>1 DEF RootIsLate, RootForward
<1>6. ASSUME NEW s \in Stages, s = 0 \/ s \in Stems PROVE ~GiveUp(s)
  BY <1>2, <1>6, StageFacts DEF GiveUp
<1>7. ASSUME NEW s \in Followers
      PROVE  /\ ~Read(s) /\ ~Step(s) /\ ~StepWithoutInput(s) /\ ~StemReceive(s) /\ ~Advance(s)
  BY <1>2 DEF Read, Step, StepWithoutInput, StemReceive, Advance
<1>8. ASSUME NEW s \in Followers, Enter(s) \/ Pause(s)
      PROVE  Healthy'
  <2>1. Alone(s)
    BY <1>8 DEF Alone
  <2>2. UNCHANGED <<req, orphans, foreign>>
    BY <2>1, AloneKeeps
  <2>3. Fresh'
    BY <1>1, <2>1, FreshAlone
  <2>. QED
    BY <1>1, <2>2, <2>3 DEF Healthy
<1>9. CASE RootFails
  <2>1. Leave(0, "idle") /\ UNCHANGED <<req, meta, act, up, work, tok, orphans, foreign>>
    BY <1>9 DEF RootFails, channels, receivers
  <2>2. \A s \in Followers : pc'[s] = pc[s] /\ gen'[s] = gen[s]
    BY <2>1, SomeTypes, StageFacts, LabelFacts, LeaveTypes
  <2>3. Fresh'
    BY <1>1, <1>2, <2>1, <2>2, FreshKept DEF Keeps
  <2>. QED
    BY <1>1, <2>1, <2>3 DEF Healthy
<1>10. CASE Abandon \/ Advance(0)
  <2>1. /\ pc[0] = "fb" /\ Accept(0) /\ UNCHANGED <<req, meta, act, up, work, orphans>>
        /\ Leave(0, "idle") \/ Count(0, tok[0])
    BY <1>10 DEF Abandon, Advance, channels
  <2>2. \A s \in Followers : pc'[s] = pc[s] /\ gen'[s] = gen[s]
    <3>1. 0 \in Stages /\ "idle" \in Labels /\ \A s \in Followers : s \in Stages /\ s # 0
      BY StageFacts, LabelFacts
    <3>2. CASE Leave(0, "idle")
      BY <3>1, <3>2, LeaveTypes
    <3>3. CASE Count(0, tok[0])
      BY <3>1, <3>3, CountTypes
    <3>. QED
      BY <2>1, <3>2, <3>3
  <2>3. \A s \in Followers : tok'[s] = tok[s]
    BY <2>1, SomeTypes, StageFacts DEF Accept
  <2>4. Fresh'
    BY <1>1, <1>2, <2>1, <2>2, <2>3, FreshKept DEF Keeps
  <2>5. gen[0].q = before
    BY <2>1 DEF ServingTypes
  <2>6. \A q \in foreign' : q <= before'
    <3>1. foreign' = foreign \/ foreign' = foreign \union {gen[0].q}
      BY <2>1 DEF Accept
    <3>. QED
      BY <1>1, <2>5, <3>1
  <2>. QED
    BY <1>1, <2>1, <2>4, <2>6 DEF Healthy
<1>. QED
  BY <1>3, <1>4, <1>5, <1>6, <1>7, <1>8, <1>9, <1>10, StageFacts

LEMMA RequestStep ==
  ASSUME ServingTypes, Healthy, req # before, before' = before, ~broken',
         \/ Start \/ RootReceive \/ RootFails \/ Abandon
         \/ ~RootIsLate /\ RootForward
         \/ \E s \in Stages : (s = 0 \/ s \in Stems) /\ (Advance(s) \/ GiveUp(s))
         \/ \E s \in Followers : Read(s) \/ Step(s) \/ StepWithoutInput(s) \/ Enter(s) \/ Pause(s)
         \/ \E s \in Stems : StemReceive(s)
  PROVE  Healthy'
<1>1. orphans = 0 /\ (\A q \in foreign : q <= before) /\ Somewhere
  BY DEF Healthy
<1>2. req \in Nat /\ before \in Nat /\ before < req /\ req > 0
  <2>1. req \in Nat /\ before \in 0..req
    BY SomeTypes DEF ServingTypes
  <2>. QED
    BY <2>1
<1>3. CASE Start
  <2>1. req' = req + 1 /\ orphans' = orphans /\ foreign' = foreign
    BY <1>3 DEF Start, receivers
  <2>2. AtRest
    BY <1>1, <1>3 DEF Start, Somewhere, AtRoot, AtStage, Returning, Returned
  <2>3. AtRoot'
    BY <1>3, <2>2, StartStep
  <2>4. req' # before'
    BY <1>2, <2>1
  <2>. QED
    BY <1>1, <2>1, <2>3, <2>4 DEF Healthy, Somewhere
<1>4. CASE RootReceive
  <2>1. Somewhere' /\ orphans' = 0
    BY <1>1, <1>4, RootReceiveStep
  <2>2. UNCHANGED <<req, foreign>>
    BY <1>4 DEF RootReceive
  <2>. QED
    BY <1>1, <2>1, <2>2 DEF Healthy
<1>5. ~RootFails
  BY NotLate DEF RootFails
<1>6. CASE RootForward
  <2>1. AtStage(1)'
    BY <1>1, <1>6, RootForwardStep
  <2>2. Somewhere'
    BY <2>1, StageFacts DEF Somewhere
  <2>3. UNCHANGED <<req, orphans, foreign>>
    BY <1>6 DEF RootForward
  <2>. QED
    BY <1>1, <2>2, <2>3 DEF Healthy
<1>7. CASE Abandon \/ Advance(0)
  <2>1. /\ pc[0] = "fb" /\ ~work[0] /\ Accept(0)
        /\ UNCHANGED <<req, meta, act, up, work, orphans>>
        /\ Count(0, tok[0]) \/ (Complete(0, tok[0]) /\ Leave(0, "idle"))
    <3>1. CASE Advance(0)
      <4>1. /\ pc[0] = "fb" /\ ~work[0] /\ Accept(0) /\ Count(0, tok[0])
            /\ UNCHANGED <<req, meta, act, up, work, orphans>>
        BY <3>1 DEF Advance, channels
      <4>. QED
        BY <4>1
    <3>2. CASE Abandon
      <4>1. Complete(0, tok[0])
        BY <3>2 DEF Abandon
      <4>. QED
        BY <3>2, <4>1 DEF Abandon, channels
    <3>. QED
      BY <1>7, <3>1, <3>2
  <2>2. Somewhere' /\ foreign' = foreign
    BY <1>1, <1>2, <2>1, RootTakesStep
  <2>. QED
    BY <1>1, <2>1, <2>2 DEF Healthy
<1>8. \A s : ~GiveUp(s) /\ ~StepWithoutInput(s)
  BY DEF GiveUp, StepWithoutInput
<1>9. ASSUME NEW s \in Followers, Step(s)
      PROVE  Healthy'
  <2>1. Somewhere'
    BY <1>1, <1>2, <1>9, StageStep
  <2>2. UNCHANGED <<req, foreign>>
    BY <1>9 DEF Step
  <2>3. orphans' = orphans
    BY <1>9 DEF Step, Forward, receivers
  <2>. QED
    BY <1>1, <2>1, <2>2, <2>3 DEF Healthy
<1>10. ASSUME NEW s \in Followers, Alone(s)
       PROVE  Healthy'
  <2>1. Somewhere'
    BY <1>1, <1>2, <1>10, AloneStep
  <2>2. UNCHANGED <<req, orphans, foreign>>
    BY <1>10, AloneKeeps
  <2>. QED
    BY <1>1, <2>1, <2>2 DEF Healthy
<1>11. ASSUME NEW s \in Followers,
              Read(s) \/ Enter(s) \/ Pause(s) \/ (s \in Stems /\ (StemReceive(s) \/ Advance(s)))
       PROVE  Healthy'
  BY <1>10, <1>11 DEF Alone
<1>12. ASSUME NEW s \in Stages, s = 0 \/ s \in Stems, Advance(s) \/ GiveUp(s)
       PROVE  Healthy'
  BY <1>7, <1>8, <1>11, <1>12, StageFacts
<1>13. ASSUME NEW s \in Followers,
              Read(s) \/ Step(s) \/ StepWithoutInput(s) \/ Enter(s) \/ Pause(s)
       PROVE  Healthy'
  <2>1. CASE Read(s) \/ Enter(s) \/ Pause(s)
    BY <1>11, <2>1
  <2>2. CASE Step(s)
    BY <1>9, <2>2
  <2>. QED
    BY <1>8, <1>13, <2>1, <2>2
<1>14. ASSUME NEW s \in Stems, StemReceive(s)
       PROVE  Healthy'
  BY <1>11, <1>14, StageFacts
<1>15. CASE Abandon
  BY <1>7, <1>15
<1>. QED
  BY <1>3, <1>4, <1>5, <1>6, <1>12, <1>13, <1>14, <1>15

LEMMA HealthyStep ==
  ASSUME ServingTypes, broken \/ Healthy, [ServingNext]_servingVars
  PROVE  broken' \/ Healthy'
<1>1. CASE UNCHANGED servingVars
  <2>1. UNCHANGED <<pc, req, gen, meta, act, up, work, tok, orphans, broken, foreign, before>>
    BY <1>1 DEF servingVars, vars, channels, receivers
  <2>2. Healthy' <=> Healthy
    <3>1. \A s : Keeps(s)
      BY <2>1 DEF Keeps
    <3>2. /\ \A s : Over(s, << >>)' <=> Over(s, << >>)
          /\ \A s, n : Behind(s, n)' <=> Behind(s, n)
          /\ \A s, n : Waiting(s, n)' <=> Waiting(s, n)
          /\ \A s, t : Beyond(s, t)' <=> Beyond(s, t)
      BY <2>1, <3>1, Kept
    <3>3. Fresh' <=> Fresh
      BY <2>1 DEF Fresh, NoActivations
    <3>4. AtRoot' <=> AtRoot
      BY <2>1, <3>2 DEF AtRoot, NoActivations
    <3>5. ASSUME NEW l PROVE AtStage(l)' <=> AtStage(l)
      BY <2>1, <3>2 DEF AtStage, Message
    <3>6. ASSUME NEW t PROVE (Returning(t)' <=> Returning(t)) /\ (Returned(t)' <=> Returned(t))
      BY <2>1, <3>2 DEF Returning, Returned, NoActivations, OfStep
    <3>7. AtRest' <=> AtRest
      BY <2>1, <3>2 DEF AtRest, NoActivations
    <3>8. Somewhere' <=> Somewhere
      BY <3>4, <3>5, <3>6, <3>7 DEF Somewhere
    <3>. QED
      BY <2>1, <3>3, <3>8 DEF Healthy
  <2>. QED
    BY <2>1, <2>2
<1>2. CASE Reconfigure
  <2>1. /\ before' = req /\ req' = req /\ foreign' = foreign /\ orphans' = 0
        /\ \A q \in foreign : q \in Nat /\ q <= req
    BY <1>2, Reconnected, SomeTypes
  <2>2. /\ \A s \in Followers : /\ pc'[s] \in {"top", "prompt", "lost", "paused", "deaf"}
                                /\ ~work'[s] /\ meta'[s] = << >> /\ act'[s] = << >>
        /\ ~work'[0] /\ up' = << >>
    BY <1>2, Reconnected, StageFacts
  <2>3. Fresh'
    BY <2>2 DEF Fresh, NoActivations
  <2>. QED
    BY <2>1, <2>3 DEF Healthy
<1>3. CASE ServingNext /\ ~Reconfigure
  <2>1. /\ \/ Start \/ RootReceive \/ RootFails \/ Abandon
           \/ ~RootIsLate /\ RootForward
           \/ \E s \in Stages : (s = 0 \/ s \in Stems) /\ (Advance(s) \/ GiveUp(s))
           \/ \E s \in Followers : Read(s) \/ Step(s) \/ StepWithoutInput(s) \/ Enter(s) \/ Pause(s)
           \/ \E s \in Stems : StemReceive(s)
        /\ before' = before
    BY <1>3, StepsOf DEF RootFails, Enter, Pause, loopVars
  <2>2. broken => broken'
    BY <2>1 DEF Start, RootReceive, RootFails, Abandon, RootForward, Advance, GiveUp, Read, Step,
                StepWithoutInput, Enter, Pause, StemReceive, data
  <2>. QED
    BY <2>1, <2>2, FreshStep, RequestStep
<1>. QED
  BY <1>1, <1>2, <1>3

-----------------------------------------------------------------------------
(* The theorems. *)

LEMMA HealthyInit ==
  ASSUME ServingInit
  PROVE  Healthy
<1>1. /\ pc = [s \in Stages |-> IF s = 0 THEN "idle" ELSE "top"] /\ req = 0
      /\ meta = [s \in Followers |-> << >>] /\ act = [s \in Followers |-> << >>] /\ up = << >>
      /\ work = [s \in Stages |-> FALSE] /\ orphans = 0 /\ foreign = {} /\ before = 0
  BY DEF ServingInit, PipeInit
<1>2. \A s \in Followers : pc[s] = "top" /\ ~work[s] /\ meta[s] = << >> /\ act[s] = << >>
  BY <1>1, StageFacts
<1>3. ~work[0]
  BY <1>1, StageFacts
<1>4. Fresh
  BY <1>1, <1>2, <1>3 DEF Fresh, NoActivations
<1>. QED
  BY <1>1, <1>4 DEF Healthy

(* The invariant is one: it holds at first and every step keeps it.        *)
THEOREM ServingInvariant == ServingSpec => []ServingInv
<1>1. ServingInit => ServingInv
  BY TypesInit, HealthyInit DEF ServingInv
<1>2. ServingInv /\ [ServingNext]_servingVars => ServingInv'
  BY TypesStep, HealthyStep DEF ServingInv
<1>. QED
  BY <1>1, <1>2, PTL DEF ServingSpec

(* Messages, tokens and places have their types, and a receiver is under   *)
(* way only while its stage waits for a token.                             *)
THEOREM ServingTypesHold == ServingSpec => []ServingTypeOK
<1>1. ServingInv => ServingTypeOK
  <2>. SUFFICES ASSUME ServingTypes PROVE ServingTypeOK
    BY DEF ServingInv
  <2>1. ASSUME NEW s \in Followers, NEW i \in DOMAIN meta[s]
        PROVE  meta[s][i].k \in (IF s = Leaf THEN {"bs", "prompts", "lens"}
                                 ELSE {"bs", "prompts", "lens", "tok"})
    <3>1. meta[s] \in Seq(ForFollower(s))
      BY DEF ServingTypes
    <3>2. meta[s][i] \in ForFollower(s)
      BY <3>1, <2>1
    <3>. QED
      BY <3>2 DEF ForFollower, MessageOf
  <2>. QED
    BY <2>1 DEF ServingTypes, ServingTypeOK
<1>. QED
  BY <1>1, ServingInvariant, PTL

(* Unless a stage has given up or been left inside a request, the root     *)
(* takes exactly the tokens computed for the requests of these             *)
(* connections, each in its place, over any number of stages, requests and *)
(* reconfigurations.                                                       *)
THEOREM TokensAreOwn == ServingSpec => []HealthyTokens
<1>1. ServingInv => HealthyTokens
  BY DEF ServingInv, Healthy, HealthyTokens
<1>. QED
  BY <1>1, ServingInvariant, PTL

(* Under the same condition the sockets are empty when everybody is back   *)
(* at the prompt: each stage has counted its way out of the request.       *)
THEOREM NothingIsLeft == ServingSpec => []NoLeftovers
<1>1. ServingInv => NoLeftovers
  <2>. SUFFICES ASSUME Healthy, pc[0] = "idle",
                       \A s \in Followers : pc[s] \in {"top", "prompt", "paused"}
                PROVE  /\ up = << >>
                       /\ \A s \in Followers : meta[s] = << >> /\ act[s] = << >>
    BY DEF ServingInv, NoLeftovers
  <2>1. CASE Fresh
    BY <2>1 DEF Fresh, NoActivations
  <2>2. CASE Somewhere
    <3>1. AtRest
      BY <2>2 DEF Somewhere, AtRoot, AtStage, Returning, Returned
    <3>2. \A s \in Followers : Ended(s, << >>)
      BY <3>1 DEF AtRest, Over, Pending
    <3>. QED
      BY <3>1, <3>2 DEF AtRest, NoActivations, Ended
  <2>. QED
    BY <2>1, <2>2 DEF Healthy
<1>. QED
  BY <1>1, ServingInvariant, PTL
=============================================================================
