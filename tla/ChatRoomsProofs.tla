-------------------------- MODULE ChatRoomsProofs ---------------------------
(***************************************************************************)
(* Theorems about ChatRooms for every set of agents and conversations, every  *)
(* budget and extension.                                                    *)
(***************************************************************************)
EXTENDS ChatRooms, TLAPS

\* The fields of a transaction.
Sends == [at : {"idle", "begun", "looked"}, room : Rooms \cup {NoRoom},
          does : {"post", "escalate", "extend", "end"}, waits : BOOLEAN,
          saw : BOOLEAN, messages : Nat, satisfies : SUBSET Agents,
          wakes : SUBSET Agents, there : SUBSET Agents]

-----------------------------------------------------------------------------
(* What the parts of an action do to the transactions.                       *)

LEMMA NoSendTyped == NoSend \in Sends /\ NoSend.at = "idle"
BY DEF NoSend, Sends

\* A transaction that begins.
Opens(p, r) ==
  \E does \in {"post", "escalate", "extend", "end"}, waits \in BOOLEAN, saw \in BOOLEAN :
     Open(p, r, does, waits, saw)

LEMMA Opened ==
  ASSUME TypeOK, NEW p \in Posters, NEW r \in Rooms, Opens(p, r)
  PROVE  /\ send' \in [Posters -> Sends]
         /\ send'[p].at = "begun" /\ send'[p].room = r
         /\ send'[p].there = Waiters(r, p)
         /\ \A q \in Posters \ {p} : send'[q] = send[q]
<1>1. PICK does \in {"post", "escalate", "extend", "end"}, waits \in BOOLEAN, saw \in BOOLEAN :
        Open(p, r, does, waits, saw)
  BY DEF Opens
<1> DEFINE new == [NoSend EXCEPT !.at = "begun", !.room = r, !.does = does,
                                 !.waits = waits, !.saw = saw, !.there = Waiters(r, p)]
<1>2. Waiters(r, p) \in SUBSET Agents
  BY DEF Waiters
<1>3. new \in Sends /\ new.at = "begun" /\ new.room = r /\ new.there = Waiters(r, p)
  BY <1>2 DEF NoSend, Sends
<1>4. send' = [send EXCEPT ![p] = new] /\ send \in [Posters -> Sends]
  BY <1>1 DEF Open, TypeOK, Sends
<1> HIDE DEF new
<1> QED BY <1>3, <1>4

\* A transaction that has read the waits.
LEMMA Looked ==
  ASSUME TypeOK, NEW p \in Posters, Look(p)
  PROVE  /\ send[p].room \in Rooms
         /\ send' \in [Posters -> Sends]
         /\ send'[p].at = "looked" /\ send'[p].room = send[p].room
         /\ send'[p].does = send[p].does /\ send'[p].saw = send[p].saw
         /\ send'[p].there = send[p].there
         /\ send'[p].satisfies = Waiters(send[p].room, p)
         /\ \A q \in Posters \ {p} : send'[q] = send[q]
<1>1. send \in [Posters -> Sends] /\ send[p].room \in Rooms
  BY DEF TypeOK, Sends, Look
<1> DEFINE found == Waiters(send[p].room, p)
           woken == {a \in found : task[a] \in {"parked", "running"}}
           n == IF p = Ceo THEN count[send[p].room] + 1 ELSE 0
           new == [send[p] EXCEPT !.at = "looked", !.satisfies = found, !.wakes = woken,
                                  !.messages = n]
<1>2. found \in SUBSET Agents /\ woken \in SUBSET Agents
  BY DEF Waiters
<1>3. n \in Nat
  BY <1>1 DEF TypeOK
<1>4. send' = [send EXCEPT ![p] = new]
  BY <1>1 DEF Look
<1> HIDE DEF found, woken, n
<1>5. /\ new \in Sends /\ new.at = "looked" /\ new.room = send[p].room
      /\ new.does = send[p].does /\ new.saw = send[p].saw /\ new.there = send[p].there
      /\ new.satisfies = found
  BY <1>1, <1>2, <1>3 DEF Sends
<1> QED BY <1>1, <1>4, <1>5 DEF found

\* A transaction that commits.
LEMMA Settled ==
  ASSUME TypeOK, NEW p \in Posters, Settle(p)
  PROVE  /\ send' \in [Posters -> Sends]
         /\ send'[p] = NoSend
         /\ \A q \in Posters \ {p} :
              /\ send'[q].at = send[q].at /\ send'[q].room = send[q].room
              /\ send'[q].does = send[q].does /\ send'[q].saw = send[q].saw
              /\ send'[q].satisfies \subseteq send[q].satisfies
              /\ send'[q].there \subseteq send[q].there
              /\ \A a \in Agents \ {p} :
                   /\ a \in send[q].satisfies => a \in send'[q].satisfies
                   /\ a \in send[q].there => a \in send'[q].there
              /\ IF send[p].waits /\ send[p].does = "post" /\ send[q].room = send[p].room
                 THEN p \notin send'[q].there
                 ELSE send'[q] = send[q]
         /\ wait' \in [Agents -> [Rooms ->
                         {"none", "pending", "satisfied", "consumed", "expired"}]]
         /\ task' \in [Agents -> {"running", "parked", "queued", "failed"}]
         /\ \A a \in Agents, r \in Rooms :
              wait'[a][r] = "pending"
                => \/ wait[a][r] = "pending" /\ ~(r = send[p].room /\ a \in send[p].satisfies)
                   \/ a = p /\ send[p].waits /\ send[p].does = "post" /\ r = send[p].room
<1>0. wait' = [a \in Agents |-> [r \in Rooms |->
                IF r # send[p].room THEN wait[a][r]
                ELSE IF a = p /\ send[p].waits /\ send[p].does = "post" THEN "pending"
                ELSE IF a \in send[p].satisfies THEN "satisfied"
                ELSE wait[a][r]]]
  BY DEF Settle
<1> USE DEF Settle, TypeOK
<1>1. send \in [Posters -> Sends]
  BY DEF Sends
<1>2. send'[p] = NoSend /\ send' = [q \in Posters |-> send'[q]]
  OBVIOUS
<1>3. ASSUME NEW q \in Posters \ {p}
      PROVE  /\ send'[q] \in Sends
             /\ send'[q].at = send[q].at /\ send'[q].room = send[q].room
             /\ send'[q].does = send[q].does /\ send'[q].saw = send[q].saw
             /\ send'[q].satisfies \subseteq send[q].satisfies
             /\ send'[q].there \subseteq send[q].there
             /\ \A a \in Agents \ {p} :
                  /\ a \in send[q].satisfies => a \in send'[q].satisfies
                  /\ a \in send[q].there => a \in send'[q].there
             /\ IF send[p].waits /\ send[p].does = "post" /\ send[q].room = send[p].room
                THEN p \notin send'[q].there
                ELSE send'[q] = send[q]
  <2> DEFINE fewer == [send[q] EXCEPT !.satisfies = @ \ {p}, !.there = @ \ {p}]
             parks == send[p].waits /\ send[p].does = "post" /\ send[q].room = send[p].room
  <2>1. send'[q] = IF parks THEN fewer ELSE send[q]
    BY <1>3
  <2>2. /\ fewer \in Sends
        /\ fewer.at = send[q].at /\ fewer.room = send[q].room
        /\ fewer.does = send[q].does /\ fewer.saw = send[q].saw
        /\ fewer.satisfies = send[q].satisfies \ {p}
        /\ fewer.there = send[q].there \ {p}
    BY <1>1, <1>3 DEF Sends
  <2>3. send[q] \in Sends
    BY <1>1, <1>3
  <2> HIDE DEF fewer, parks
  <2>4. CASE parks
    BY <2>1, <2>2, <2>4 DEF parks
  <2>5. CASE ~parks
    BY <2>1, <2>3, <2>5 DEF parks
  <2> QED BY <2>4, <2>5
<1>4. send' \in [Posters -> Sends]
  BY <1>2, <1>3, NoSendTyped
<1>5. wait' \in [Agents -> [Rooms -> {"none", "pending", "satisfied", "consumed", "expired"}]]
  <2> DEFINE parks == send[p].waits /\ send[p].does = "post"
             States == {"none", "pending", "satisfied", "consumed", "expired"}
             row(a, r) == IF r # send[p].room THEN wait[a][r]
                          ELSE IF a = p /\ parks THEN "pending"
                          ELSE IF a \in send[p].satisfies THEN "satisfied"
                          ELSE wait[a][r]
  <2> HIDE DEF Settle, TypeOK
  <2>1. wait' = [a \in Agents |-> [r \in Rooms |-> row(a, r)]]
    BY <1>0
  <2>2. \A a \in Agents : \A r \in Rooms : wait[a][r] \in States
    BY DEF TypeOK
  <2> HIDE DEF parks
  <2>3. \A a \in Agents : \A r \in Rooms : row(a, r) \in States
    BY <2>2
  <2> HIDE DEF row, States
  <2>4. wait' \in [Agents -> [Rooms -> States]]
    BY <2>1, <2>3
  <2> QED BY <2>4 DEF States
<1>6. task' \in [Agents -> {"running", "parked", "queued", "failed"}]
  <2> DEFINE parks == send[p].waits /\ send[p].does = "post"
  <2>1. task' = [a \in Agents |-> IF a = p /\ parks THEN "parked"
                                 ELSE IF a \in send[p].wakes THEN "queued" ELSE task[a]]
    OBVIOUS
  <2>2. task \in [Agents -> {"running", "parked", "queued", "failed"}]
    OBVIOUS
  <2> HIDE DEF parks, Settle, TypeOK
  <2> QED BY <2>1, <2>2
<1>7. ASSUME NEW a \in Agents, NEW r \in Rooms, wait'[a][r] = "pending"
      PROVE  \/ wait[a][r] = "pending" /\ ~(r = send[p].room /\ a \in send[p].satisfies)
             \/ a = p /\ send[p].waits /\ send[p].does = "post" /\ r = send[p].room
  <2> HIDE DEF Settle, TypeOK
  <2> QED BY <1>0, <1>7
<1> QED BY <1>2, <1>3, <1>4, <1>5, <1>6, <1>7

-----------------------------------------------------------------------------
(* Types.                                                                   *)

\* A review that is at work counts among the reviews of its conversation.
Reviewing == send[Ceo].at # "idle" => reviews[send[Ceo].room] > 0

TalkInv == TypeOK /\ Reviewing

LEMMA TalkInit == Init => TalkInv
<1> SUFFICES ASSUME Init PROVE TalkInv
  OBVIOUS
<1>1. Budget \in Nat
  BY BoundsAssumption
<1>2. send \in [Posters -> Sends] /\ \A p \in Posters : send[p].at = "idle"
  BY NoSendTyped DEF Init
<1>3. TypeOK
  BY <1>1, <1>2 DEF Init, TypeOK, Sends
<1> QED BY <1>2, <1>3 DEF TalkInv, Reviewing, Posters

LEMMA TalkStep == TalkInv /\ [Next]_vars => TalkInv'
<1> SUFFICES ASSUME TalkInv, [Next]_vars PROVE TalkInv'
  OBVIOUS
<1>0. TypeOK /\ Reviewing /\ Ceo \in Posters /\ Founder \in Posters /\ Agents \subseteq Posters
  BY DEF TalkInv, Posters
<1> USE DEF TalkInv, talk
<1>1. ASSUME NEW a \in Agents, NEW r \in Rooms, NEW waits \in BOOLEAN, Begin(a, r, waits)
      PROVE  TalkInv'
  <2> DEFINE does == IF count[r] >= budget[r] /\ "no_ceo" \notin happens
                     THEN "escalate" ELSE "post"
  <2>1. /\ does \in {"post", "escalate", "extend", "end"} /\ Open(a, r, does, waits, FALSE)
        /\ a \in Posters /\ a # Ceo
    BY <1>0, <1>1, PostersAssumption DEF Begin
  <2> HIDE DEF does
  <2>0. Opens(a, r)
    BY <2>1, Zenon DEF Opens
  <2>2. /\ send' \in [Posters -> Sends] /\ send'[a].room = r
        /\ \A q \in Posters \ {a} : send'[q] = send[q]
    BY <1>0, <2>0, <2>1, Opened
  <2>3. TypeOK'
    BY <1>0, <1>1, <2>2 DEF TypeOK, Sends, Begin
  <2> QED BY <1>0, <1>1, <2>1, <2>2, <2>3 DEF Reviewing, Begin
<1>2. ASSUME NEW a \in Agents, NEW r \in Rooms, Consume(a, r) PROVE TalkInv'
  BY <1>2 DEF TypeOK, Reviewing, Consume
<1>3. ASSUME NEW a \in Agents, Resume(a) PROVE TalkInv'
  BY <1>3 DEF TypeOK, Reviewing, Resume
<1>4. ASSUME NEW r \in Rooms, FounderBegins(r) PROVE TalkInv'
  <2>1. Open(Founder, r, "post", FALSE, FALSE)
    BY <1>4 DEF FounderBegins
  <2>0. Opens(Founder, r)
    BY <2>1 DEF Opens
  <2>2. /\ send' \in [Posters -> Sends] /\ send'[Founder].room = r
        /\ \A q \in Posters \ {Founder} : send'[q] = send[q]
    BY <1>0, <2>0, Opened
  <2>3. TypeOK'
    BY <1>0, <1>4, <2>2 DEF TypeOK, Sends, FounderBegins
  <2> QED BY <1>0, <1>4, <2>2, <2>3, PostersAssumption DEF Reviewing, FounderBegins
<1>5. ASSUME NEW r \in Rooms, NEW does \in {"extend", "end"}, CeoBegins(r, does) PROVE TalkInv'
  <2>1. /\ Open(Ceo, r, does, FALSE, paused[r]) /\ paused[r] \in BOOLEAN
        /\ does \in {"post", "escalate", "extend", "end"}
    BY <1>0, <1>5 DEF CeoBegins, TypeOK
  <2>0. Opens(Ceo, r)
    BY <2>1, Zenon DEF Opens
  <2>2. /\ send' \in [Posters -> Sends] /\ send'[Ceo].room = r
        /\ \A q \in Posters \ {Ceo} : send'[q] = send[q]
    BY <1>0, <2>0, Opened
  <2>3. TypeOK'
    BY <1>0, <1>5, <2>2 DEF TypeOK, Sends, CeoBegins
  <2> QED BY <1>0, <1>5, <2>2, <2>3 DEF Reviewing, CeoBegins
<1>6. ASSUME NEW r \in Rooms, ReviewEnds(r) PROVE TalkInv'
  BY <1>0, <1>6 DEF TypeOK, Reviewing, ReviewEnds
<1>7. ASSUME NEW p \in Posters, Look(p) PROVE TalkInv'
  <2>1. TypeOK'
    <3>1. \A q \in Posters : send'[q].at # "idle" => send'[q].room \in Rooms
      BY <1>0, <1>7, Looked DEF TypeOK
    <3> QED BY <1>0, <1>7, <3>1, Looked DEF TypeOK, Sends, Look
  <2>2. \/ send[Ceo].at # "idle" /\ send'[Ceo].room = send[Ceo].room
        \/ send'[Ceo].at = "idle"
    BY <1>0, <1>7, Looked DEF Look
  <2> QED BY <1>0, <1>7, <2>1, <2>2 DEF Reviewing, Look
\* A commit that leaves the reviews of the CEO's conversation alone, or adds one.
<1>8. ASSUME NEW p \in Posters, Settle(p), send[p].at = "looked",
             UNCHANGED <<budget, closed, happens>>,
             count' \in [Rooms -> Nat], paused' \in [Rooms -> BOOLEAN],
             reviews' \in [Rooms -> Nat], \A r \in Rooms : reviews'[r] >= reviews[r]
      PROVE  TalkInv'
  <2>1. TypeOK'
    <3>1. \A q \in Posters : send'[q].at # "idle" => send'[q].room \in Rooms
      BY <1>0, <1>8, Settled, NoSendTyped DEF TypeOK
    <3> QED BY <1>0, <1>8, <3>1, Settled DEF TypeOK, Sends
  <2>2. send'[Ceo].at # "idle" => send[Ceo].at # "idle" /\ send'[Ceo].room = send[Ceo].room
    BY <1>0, <1>8, Settled, NoSendTyped
  <2>3. Reviewing'
    <3> SUFFICES ASSUME send'[Ceo].at # "idle" PROVE reviews'[send'[Ceo].room] > 0
      BY DEF Reviewing
    <3>1. send[Ceo].room \in Rooms /\ reviews[send[Ceo].room] > 0
      BY <1>0, <2>2 DEF TypeOK, Reviewing
    <3>2. \A x, y \in Nat : y > 0 /\ x >= y => x > 0
      OBVIOUS
    <3> QED BY <1>0, <1>8, <2>2, <3>1, <3>2 DEF TypeOK
  <2> QED BY <2>1, <2>3
<1>9. ASSUME NEW p \in Posters, Post(p) PROVE TalkInv'
  <2>1. send[p].room \in Rooms
    BY <1>0, <1>9 DEF TypeOK, Post
  <2>2. count' \in [Rooms -> Nat]
    BY <1>0, <1>9, <2>1 DEF TypeOK, Post
  <2>3. \A r \in Rooms : reviews'[r] >= reviews[r]
    BY <1>0, <1>9 DEF TypeOK, Post
  <2> QED BY <1>0, <1>8, <1>9, <2>2, <2>3 DEF TypeOK, Post
<1>10. ASSUME NEW p \in Agents, Escalate(p) PROVE TalkInv'
  <2>1. p \in Posters /\ send[p].room \in Rooms
    BY <1>0, <1>10 DEF TypeOK, Escalate
  <2>2. paused' \in [Rooms -> BOOLEAN] /\ count' \in [Rooms -> Nat]
    BY <1>0, <1>10, <2>1 DEF TypeOK, Escalate
  <2>3. reviews' \in [Rooms -> Nat] /\ \A r \in Rooms : reviews'[r] >= reviews[r]
    BY <1>0, <1>10, <2>1 DEF TypeOK, Escalate
  <2> QED BY <1>8, <1>10, <2>1, <2>2, <2>3 DEF Escalate
<1>11. CASE Rule
  <2> DEFINE r == send[Ceo].room
  <2>1. r \in Rooms /\ reviews[r] \in Nat /\ reviews[r] > 0 /\ send[Ceo].messages \in Nat
    BY <1>0, <1>11 DEF TypeOK, Reviewing, Rule
  <2>2. /\ count' = [count EXCEPT ![r] = @ + 1]
        /\ budget' = [budget EXCEPT ![r] =
                        IF send[Ceo].does = "extend" THEN send[Ceo].messages + More ELSE @]
        /\ closed' = [closed EXCEPT ![r] = @ \/ send[Ceo].does = "end"]
        /\ paused' = [paused EXCEPT ![r] = @ /\ ~send[Ceo].saw]
        /\ reviews' = [reviews EXCEPT ![r] = @ - 1]
        /\ Settle(Ceo) /\ happens' = happens
    BY <1>11 DEF Rule
  <2> HIDE DEF r
  <2>3. reviews' \in [Rooms -> Nat] /\ count' \in [Rooms -> Nat]
    BY <1>0, <2>1, <2>2 DEF TypeOK
  <2>4. More \in Nat
    BY BoundsAssumption
  <2>5. budget' \in [Rooms -> Nat]
    BY <1>0, <2>1, <2>2, <2>4 DEF TypeOK
  <2>6. paused' \in [Rooms -> BOOLEAN] /\ closed' \in [Rooms -> BOOLEAN]
    BY <1>0, <2>1, <2>2 DEF TypeOK
  <2>7. \A q \in Posters : send'[q].at # "idle" => send'[q].room \in Rooms
    BY <1>0, <2>2, Settled, NoSendTyped DEF TypeOK
  <2>8. TypeOK'
    BY <1>0, <2>2, <2>3, <2>5, <2>6, <2>7, Settled DEF TypeOK, Sends
  <2>9. send'[Ceo].at = "idle"
    BY <1>0, <2>2, Settled, NoSendTyped
  <2> QED BY <2>8, <2>9 DEF Reviewing
<1>12. ASSUME NEW a \in Agents, ReapOrphan(a) PROVE TalkInv'
  BY <1>12 DEF TypeOK, Reviewing, ReapOrphan
<1>13. ASSUME NEW a \in Agents, NEW r \in Rooms, Reap(a, r) PROVE TalkInv'
  BY <1>13 DEF TypeOK, Reviewing, Reap
<1>14. CASE UNCHANGED vars
  BY <1>14 DEF TypeOK, Reviewing, vars
<1> QED BY <1>1, <1>2, <1>3, <1>4, <1>5, <1>6, <1>7, <1>9, <1>10, <1>11, <1>12, <1>13, <1>14
    DEF Next, AgentSteps, CeoSteps, Commits, Reaper

\* The conversations, the waits and the transactions keep their types, whatever overlaps.
THEOREM TypeCorrect == Spec => []TypeOK
BY TalkInit, TalkStep, PTL DEF Spec, TalkInv

-----------------------------------------------------------------------------
(* Paused conversations.                                                     *)

\* While reviews rule, a pause has a review that can still lift it, and a ruling that did
\* not read the pause is not the only one left: it will not lift it.
PauseInv ==
    "ceo_quits" \notin happens
      => /\ \A r \in Rooms : paused[r] /\ ~closed[r] => reviews[r] > 0
         /\ \A r \in Rooms :
              /\ send[Ceo].at # "idle" /\ send[Ceo].room = r /\ ~send[Ceo].saw
              /\ paused[r] /\ ~closed[r]
              => reviews[r] > 1

LEMMA PauseInit == Init => PauseInv
BY DEF Init, PauseInv

\* A step that leaves the pauses, the reviews and the CEO's transaction alone.
LEMMA PauseKept ==
  ASSUME PauseInv, UNCHANGED <<paused, closed, reviews, happens>>,
         \/ send'[Ceo].at = "idle"
         \/ /\ send'[Ceo].at = send[Ceo].at /\ send'[Ceo].room = send[Ceo].room
            /\ send'[Ceo].saw = send[Ceo].saw
         \/ /\ send[Ceo].at # "idle" /\ send'[Ceo].room = send[Ceo].room
            /\ send'[Ceo].saw = send[Ceo].saw
  PROVE  PauseInv'
BY DEF PauseInv

LEMMA PauseStep == TalkInv /\ PauseInv /\ [Next]_vars => PauseInv'
<1> SUFFICES ASSUME TalkInv, PauseInv, [Next]_vars PROVE PauseInv'
  OBVIOUS
<1>0. TypeOK /\ Reviewing /\ Ceo \in Posters /\ Founder \in Posters /\ Agents \subseteq Posters
      /\ Ceo \notin Agents /\ Ceo # Founder
  BY PostersAssumption DEF TalkInv, Posters
<1> USE DEF talk
<1>1. ASSUME NEW a \in Agents, NEW r \in Rooms, NEW waits \in BOOLEAN, Begin(a, r, waits)
      PROVE  PauseInv'
  <2>1. send'[Ceo] = send[Ceo]
    BY <1>0, <1>1 DEF Begin, Open, TypeOK
  <2> QED BY <1>1, <2>1, PauseKept DEF Begin
<1>2. ASSUME NEW a \in Agents, NEW r \in Rooms, Consume(a, r) PROVE PauseInv'
  BY <1>2, PauseKept DEF Consume
<1>3. ASSUME NEW a \in Agents, Resume(a) PROVE PauseInv'
  BY <1>3, PauseKept DEF Resume
<1>4. ASSUME NEW r \in Rooms, FounderBegins(r) PROVE PauseInv'
  <2>1. send'[Ceo] = send[Ceo]
    BY <1>0, <1>4 DEF FounderBegins, Open, TypeOK
  <2> QED BY <1>4, <2>1, PauseKept DEF FounderBegins
<1>5. ASSUME NEW r \in Rooms, NEW does \in {"extend", "end"}, CeoBegins(r, does) PROVE PauseInv'
  <2>1. send'[Ceo].room = r /\ (send'[Ceo].saw <=> paused[r])
    BY <1>0, <1>5 DEF CeoBegins, Open, TypeOK, NoSend
  <2>2. UNCHANGED <<paused, closed, reviews, happens>>
    BY <1>5 DEF CeoBegins
  <2> QED BY <2>1, <2>2 DEF PauseInv
\* The only review that can end is one of a closed conversation.
<1>6. ASSUME NEW r \in Rooms, ReviewEnds(r) PROVE PauseInv'
  <2>1. UNCHANGED <<paused, closed, send, happens>> /\ send[Ceo].at = "idle"
    BY <1>6 DEF ReviewEnds
  <2>2. "ceo_quits" \in happens \/ closed[r]
    BY <1>6 DEF ReviewEnds
  <2>3. \A q \in Rooms : q # r => reviews'[q] = reviews[q]
    BY <1>0, <1>6 DEF ReviewEnds, TypeOK
  <2> QED BY <2>1, <2>2, <2>3 DEF PauseInv
<1>7. ASSUME NEW p \in Posters, Look(p) PROVE PauseInv'
  <2>1. \/ /\ send[Ceo].at # "idle" /\ send'[Ceo].room = send[Ceo].room
           /\ send'[Ceo].saw = send[Ceo].saw
        \/ send'[Ceo] = send[Ceo]
    BY <1>0, <1>7, Looked DEF Look
  <2> QED BY <1>7, <2>1, PauseKept DEF Look
<1>8. ASSUME NEW p \in Posters, Post(p) PROVE PauseInv'
  <2>1. \/ send'[Ceo].at = "idle"
        \/ /\ send'[Ceo].at = send[Ceo].at /\ send'[Ceo].room = send[Ceo].room
           /\ send'[Ceo].saw = send[Ceo].saw
    BY <1>0, <1>8, Settled, NoSendTyped DEF Post
  <2> QED BY <1>8, <2>1, PauseKept DEF Post
\* A second pause comes with a second review.
<1>9. ASSUME NEW p \in Agents, Escalate(p) PROVE PauseInv'
  <2> DEFINE r == send[p].room
  <2>1. r \in Rooms
    BY <1>0, <1>9 DEF TypeOK, Escalate
  <2>2. /\ send'[Ceo].at = send[Ceo].at /\ send'[Ceo].room = send[Ceo].room
        /\ send'[Ceo].saw = send[Ceo].saw
    BY <1>0, <1>9, Settled DEF Escalate
  <2>3. /\ \A q \in Rooms : q # r => reviews'[q] = reviews[q] /\ paused'[q] = paused[q]
        /\ reviews'[r] = reviews[r] + 1 /\ reviews[r] \in Nat
        /\ UNCHANGED <<closed, happens>>
    BY <1>0, <1>9, <2>1 DEF Escalate, TypeOK
  <2>4. send[Ceo].at # "idle" /\ send[Ceo].room = r => reviews[r] > 0
    BY <1>0 DEF Reviewing
  <2> HIDE DEF r
  <2>5. /\ reviews'[r] > 0
        /\ send[Ceo].at # "idle" /\ send[Ceo].room = r => reviews'[r] > 1
    BY <2>1, <2>3, <2>4
  <2> QED BY <2>2, <2>3, <2>5 DEF PauseInv
<1>10. CASE Rule
  <2> DEFINE r == send[Ceo].room
  <2>1. r \in Rooms /\ send[Ceo].at # "idle"
    BY <1>0, <1>10 DEF TypeOK, Rule
  <2>2. send'[Ceo].at = "idle"
    BY <1>0, <1>10, Settled, NoSendTyped DEF Rule
  <2>3. /\ \A q \in Rooms : q # r => /\ reviews'[q] = reviews[q] /\ paused'[q] = paused[q]
                                     /\ closed'[q] = closed[q]
        /\ reviews'[r] = reviews[r] - 1 /\ reviews[r] \in Nat /\ happens' = happens
    BY <1>0, <1>10, <2>1 DEF Rule, TypeOK
  <2>4. (paused'[r] => paused[r] /\ ~send[Ceo].saw) /\ (closed[r] => closed'[r])
    BY <1>0, <1>10, <2>1 DEF Rule, TypeOK
  <2>5. "ceo_quits" \notin happens /\ paused'[r] /\ ~closed'[r] => reviews[r] > 1
    BY <2>1, <2>4 DEF PauseInv
  <2> HIDE DEF r
  <2>6. "ceo_quits" \notin happens /\ paused'[r] /\ ~closed'[r] => reviews'[r] > 0
    BY <2>3, <2>5
  <2> QED BY <2>1, <2>2, <2>3, <2>6 DEF PauseInv
<1>11. ASSUME NEW a \in Agents, ReapOrphan(a) PROVE PauseInv'
  BY <1>11, PauseKept DEF ReapOrphan
<1>12. ASSUME NEW a \in Agents, NEW r \in Rooms, Reap(a, r) PROVE PauseInv'
  BY <1>12, PauseKept DEF Reap
<1>13. CASE UNCHANGED vars
  BY <1>13, PauseKept DEF vars
<1> QED BY <1>1, <1>2, <1>3, <1>4, <1>5, <1>6, <1>7, <1>8, <1>9, <1>10, <1>11, <1>12, <1>13
    DEF Next, AgentSteps, CeoSteps, Commits, Reaper

\* As long as reviews rule, no conversation is left paused without a review that can
\* still lift the pause, whatever escalations and rulings overlap.
THEOREM PausesAreReviewed == Spec => []PausedIsReviewed
<1>1. PauseInv => PausedIsReviewed
  BY DEF PauseInv, PausedIsReviewed
<1> QED BY TalkInit, TalkStep, PauseInit, PauseStep, <1>1, PTL DEF Spec

-----------------------------------------------------------------------------
(* Replies.                                                                  *)

\* A transaction wakes others only; once it has read the waits, whoever waited when it
\* began is among those it will satisfy, or waits no longer.
WakeInv ==
    \A p \in Posters :
      /\ \A a \in send[p].there : a \in Agents /\ a # p
      /\ send[p].at = "looked"
           => \A a \in send[p].there :
                a \in send[p].satisfies \/ wait[a][send[p].room] # "pending"

LEMMA WakeInit == Init => WakeInv
BY DEF Init, WakeInv, NoSend

\* A step in which nobody begins to wait.
LEMMA WakeKept ==
  ASSUME TypeOK, WakeInv, send' = send,
         \A a \in Agents, r \in Rooms : wait'[a][r] = "pending" => wait[a][r] = "pending"
  PROVE  WakeInv'
BY DEF WakeInv, TypeOK

LEMMA WakeOpened ==
  ASSUME TypeOK, WakeInv, NEW p \in Posters, NEW r \in Rooms, Opens(p, r), wait' = wait
  PROVE  WakeInv'
<1>1. /\ send'[p].at = "begun" /\ send'[p].there = Waiters(r, p)
      /\ \A q \in Posters \ {p} : send'[q] = send[q]
  BY Opened
<1>2. \A a \in Waiters(r, p) : a \in Agents /\ a # p
  BY DEF Waiters
<1> QED BY <1>1, <1>2 DEF WakeInv

\* A commit satisfies the waits its transaction had found; the wait it may open is one
\* no other transaction has found.
LEMMA WakeSettled ==
  ASSUME TypeOK, WakeInv, NEW p \in Posters, send[p].at = "looked", Settle(p)
  PROVE  /\ WakeInv'
         /\ \A a \in send[p].there : wait'[a][send[p].room] # "pending"
<1>0. send[p].room \in Rooms /\ \A q \in Posters : send[q].at # "idle" => send[q].room \in Rooms
  BY DEF TypeOK
<1> DEFINE s == send[p]
<1>1. /\ send'[p] = NoSend
      /\ \A a \in Agents, r \in Rooms :
           wait'[a][r] = "pending"
             => \/ wait[a][r] = "pending" /\ ~(r = s.room /\ a \in s.satisfies)
                \/ a = p /\ s.waits /\ s.does = "post" /\ r = s.room
  BY Settled
<1>2. ASSUME NEW a \in s.there PROVE wait'[a][s.room] # "pending"
  BY <1>0, <1>1, <1>2 DEF WakeInv
<1>3. ASSUME NEW q \in Posters \ {p}
      PROVE  /\ \A a \in send'[q].there : a \in Agents /\ a # q
             /\ send'[q].at = "looked"
                  => \A a \in send'[q].there :
                       a \in send'[q].satisfies \/ wait'[a][send'[q].room] # "pending"
  <2>1. /\ send'[q].at = send[q].at /\ send'[q].room = send[q].room
        /\ send'[q].there \subseteq send[q].there
        /\ \A a \in Agents \ {p} : a \in send[q].satisfies => a \in send'[q].satisfies
        /\ IF s.waits /\ s.does = "post" /\ send[q].room = s.room
           THEN p \notin send'[q].there ELSE send'[q] = send[q]
    BY <1>3, Settled
  <2>2. \A a \in send'[q].there : a \in Agents /\ a # q
    BY <1>3, <2>1 DEF WakeInv
  <2>3. ASSUME send'[q].at = "looked", NEW a \in send'[q].there,
               wait'[a][send'[q].room] = "pending"
        PROVE  a \in send'[q].satisfies
    <3>1. a \in Agents /\ a \in send[q].there /\ send[q].room \in Rooms
      BY <1>0, <1>3, <2>1, <2>2, <2>3
    <3>2. wait[a][send[q].room] = "pending" \/ (a = p /\ p \notin send'[q].there)
      BY <1>1, <2>1, <2>3, <3>1
    <3>3. a \in send[q].satisfies
      BY <1>3, <2>1, <2>3, <3>1, <3>2 DEF WakeInv
    <3> QED BY <2>1, <2>3, <3>1, <3>3
  <2> QED BY <2>2, <2>3
<1>4. NoSend.at = "idle" /\ NoSend.there = {}
  BY DEF NoSend
<1> QED BY <1>1, <1>2, <1>3, <1>4 DEF WakeInv

LEMMA WakeStep == TalkInv /\ WakeInv /\ [Next]_vars => WakeInv'
<1> SUFFICES ASSUME TalkInv, WakeInv, [Next]_vars PROVE WakeInv'
  OBVIOUS
<1>0. TypeOK /\ Ceo \in Posters /\ Founder \in Posters /\ Agents \subseteq Posters
  BY DEF TalkInv, Posters
<1>1. ASSUME NEW a \in Agents, NEW r \in Rooms, NEW waits \in BOOLEAN, Begin(a, r, waits)
      PROVE  WakeInv'
  <2> DEFINE does == IF count[r] >= budget[r] /\ "no_ceo" \notin happens
                     THEN "escalate" ELSE "post"
  <2>1. /\ does \in {"post", "escalate", "extend", "end"} /\ Open(a, r, does, waits, FALSE)
        /\ wait' = wait
    BY <1>1 DEF Begin
  <2> HIDE DEF does
  <2>2. Opens(a, r)
    BY <2>1, Zenon DEF Opens
  <2> QED BY <1>0, <2>1, <2>2, WakeOpened
<1>2. ASSUME NEW a \in Agents, NEW r \in Rooms, Consume(a, r) PROVE WakeInv'
  <2>1. send' = send /\ \A b \in Agents, q \in Rooms : wait'[b][q] = "pending" => wait[b][q] = "pending"
    BY <1>0, <1>2 DEF Consume, TypeOK
  <2> QED BY <1>0, <2>1, WakeKept
<1>3. ASSUME NEW a \in Agents, Resume(a) PROVE WakeInv'
  BY <1>0, <1>3, WakeKept DEF Resume
<1>4. ASSUME NEW r \in Rooms, FounderBegins(r) PROVE WakeInv'
  <2>1. Open(Founder, r, "post", FALSE, FALSE) /\ wait' = wait
    BY <1>4 DEF FounderBegins
  <2>2. Opens(Founder, r)
    BY <2>1 DEF Opens
  <2> QED BY <1>0, <2>1, <2>2, WakeOpened
<1>5. ASSUME NEW r \in Rooms, NEW does \in {"extend", "end"}, CeoBegins(r, does) PROVE WakeInv'
  <2>1. /\ Open(Ceo, r, does, FALSE, paused[r]) /\ paused[r] \in BOOLEAN
        /\ does \in {"post", "escalate", "extend", "end"} /\ wait' = wait
    BY <1>0, <1>5 DEF CeoBegins, TypeOK
  <2>2. Opens(Ceo, r)
    BY <2>1, Zenon DEF Opens
  <2> QED BY <1>0, <2>1, <2>2, WakeOpened
<1>6. ASSUME NEW r \in Rooms, ReviewEnds(r) PROVE WakeInv'
  BY <1>0, <1>6, WakeKept DEF ReviewEnds
\* What it reads as waiting then is what it will satisfy.
<1>7. ASSUME NEW p \in Posters, Look(p) PROVE WakeInv'
  <2>1. /\ send'[p].room = send[p].room /\ send'[p].there = send[p].there
        /\ send'[p].satisfies = Waiters(send[p].room, p) /\ wait' = wait
        /\ \A q \in Posters \ {p} : send'[q] = send[q]
    BY <1>0, <1>7, Looked DEF Look
  <2>2. \A a \in send[p].there :
          a \in Waiters(send[p].room, p) \/ wait[a][send[p].room] # "pending"
    BY DEF Waiters, WakeInv
  <2> QED BY <2>1, <2>2 DEF WakeInv
<1>8. ASSUME NEW p \in Posters, Post(p) PROVE WakeInv'
  BY <1>0, <1>8, WakeSettled DEF Post
<1>9. ASSUME NEW p \in Agents, Escalate(p) PROVE WakeInv'
  BY <1>0, <1>9, WakeSettled DEF Escalate
<1>10. CASE Rule
  BY <1>0, <1>10, WakeSettled DEF Rule
<1>11. ASSUME NEW a \in Agents, ReapOrphan(a) PROVE WakeInv'
  BY <1>0, <1>11, WakeKept DEF ReapOrphan
<1>12. ASSUME NEW a \in Agents, NEW r \in Rooms, Reap(a, r) PROVE WakeInv'
  <2>1. send' = send /\ \A b \in Agents, q \in Rooms : wait'[b][q] = "pending" => wait[b][q] = "pending"
    BY <1>0, <1>12 DEF Reap, TypeOK
  <2> QED BY <1>0, <2>1, WakeKept
<1>13. CASE UNCHANGED vars
  BY <1>0, <1>13, WakeKept DEF vars
<1> QED BY <1>1, <1>2, <1>3, <1>4, <1>5, <1>6, <1>7, <1>8, <1>9, <1>10, <1>11, <1>12, <1>13
    DEF Next, AgentSteps, CeoSteps, Commits, Reaper

\* Only a commit of p ends a transaction of p that has read the waits.
LEMMA Ends ==
  ASSUME TalkInv, WakeInv, [Next]_vars, NEW p \in Posters,
         send[p].at = "looked", send'[p].at = "idle"
  PROVE  \A a \in send[p].there : wait'[a][send[p].room] # "pending"
<1>0. TypeOK /\ Ceo \in Posters /\ Founder \in Posters /\ Agents \subseteq Posters
  BY DEF TalkInv, Posters
<1>1. ASSUME send' = send PROVE FALSE
  BY <1>1
<1>2. ASSUME NEW q \in Posters, NEW r \in Rooms, NEW does, NEW waits, NEW saw,
             send[q].at = "idle", Open(q, r, does, waits, saw)
      PROVE  FALSE
  BY <1>0, <1>2 DEF Open, TypeOK
<1>3. ASSUME NEW q \in Posters, send[q].at = "looked", Settle(q)
      PROVE  \A a \in send[p].there : wait'[a][send[p].room] # "pending"
  <2>1. q = p
    BY <1>0, <1>3, Settled
  <2> QED BY <1>0, <1>3, <2>1, WakeSettled
<1>4. ASSUME NEW q \in Posters, Look(q) PROVE FALSE
  BY <1>0, <1>4, Looked DEF Look
<1>5. CASE \E q \in Posters : send[q].at = "looked" /\ Settle(q)
  BY <1>3, <1>5
<1>6. ASSUME NEW a \in Agents, NEW r \in Rooms, NEW waits \in BOOLEAN, Begin(a, r, waits)
      PROVE  FALSE
  BY <1>0, <1>2, <1>6 DEF Begin
<1>7. ASSUME NEW r \in Rooms, FounderBegins(r) PROVE FALSE
  BY <1>0, <1>2, <1>7 DEF FounderBegins
<1>8. ASSUME NEW r \in Rooms, NEW does \in {"extend", "end"}, CeoBegins(r, does) PROVE FALSE
  BY <1>0, <1>2, <1>8 DEF CeoBegins
<1>9. CASE \E q \in Posters : Commits(q)
  BY <1>0, <1>4, <1>5, <1>9 DEF Commits, Post, Escalate, Rule
<1>10. CASE \E a \in Agents : AgentSteps(a)
  BY <1>1, <1>6, <1>10 DEF AgentSteps, Consume, Resume
<1>11. CASE \E r \in Rooms : CeoSteps(r) \/ FounderBegins(r)
  BY <1>1, <1>7, <1>8, <1>11 DEF CeoSteps, ReviewEnds
<1>12. CASE Reaper
  BY <1>1, <1>12 DEF Reaper, ReapOrphan, Reap
<1>13. CASE UNCHANGED vars
  BY <1>1, <1>13 DEF vars
<1> QED BY <1>9, <1>10, <1>11, <1>12, <1>13 DEF Next

\* Whoever waited in a conversation when another's post or escalation began no longer
\* waits there when that commits, whatever transactions overlap.
THEOREM PostsWake == Spec => LaterPostsWake
<1>1. TalkInv /\ WakeInv /\ [Next]_vars
      => [\A p \in Posters :
            send[p].at = "looked" /\ send'[p].at = "idle"
              => \A a \in send[p].there : wait'[a][send[p].room] # "pending"]_vars
  BY Ends
<1> QED BY TalkInit, TalkStep, WakeInit, WakeStep, <1>1, PTL DEF Spec, LaterPostsWake
=============================================================================
