-------------------------- MODULE Requests_proofs --------------------------
(***************************************************************************)
(* Whatever the clients do, and however long the table is, no request of a *)
(* peer is answered twice.  The invariant is inductive once it says that   *)
(* ids are handed out in increasing order: an id stored or answered is at  *)
(* most issued, so the next one is new to the table and to sent.           *)
(***************************************************************************)
EXTENDS Requests, TLAPS

\* What the channel and the history hold when n requests have been issued.
Message(n) == [index : Index, answers : 1..n]
Answer(n)  == [answers : 1..n, id : 1..n]

RequestsInv ==
    /\ issued \in Nat
    /\ requests \in [Index -> 0..issued]
    /\ num_requests \in Index
    /\ network_recv \in Seq(Message(issued))
    /\ unanswered \subseteq [index : Index, id : 1..issued]
    /\ sent \in Seq(Answer(issued))
    /\ AnsweredAtMostOnce

-----------------------------------------------------------------------------
\* The elements of a sequence over S are in S, and it is one over any larger set.
LEMMA SeqElements ==
    ASSUME NEW S, NEW T, S \subseteq T, NEW s \in Seq(S)
    PROVE  s \in Seq(T) /\ \A k \in 1..Len(s) : s[k] \in S
OBVIOUS

\* What Append does to the length and the elements.
LEMMA AppendElements ==
    ASSUME NEW S, NEW s \in Seq(S), NEW e \in S
    PROVE  /\ Append(s, e) \in Seq(S) /\ Len(Append(s, e)) = Len(s) + 1
           /\ Append(s, e)[Len(s) + 1] = e
           /\ \A k \in 1..Len(s) : Append(s, e)[k] = s[k]
OBVIOUS

\* The head and the tail of a sequence over S.
LEMMA HeadTail ==
    ASSUME NEW S, NEW s \in Seq(S), s # <<>>
    PROVE  Head(s) \in S /\ Tail(s) \in Seq(S)
OBVIOUS

\* The counter stays an index of the table, whatever the number of slots.
LEMMA CounterInRange ==
    ASSUME NEW n \in Index
    PROVE  fetch_add(n) \in Index /\ fetch_sub(n) \in Index
BY RequestsAssumption, Z3 DEF fetch_add, fetch_sub, Index

-----------------------------------------------------------------------------
\* A request is received: its id is new.
LEMMA ReceivedInv ==
    ASSUME RequestsInv, request_received
    PROVE  RequestsInv'
<1>1. issued \in Nat /\ requests \in [Index -> 0..issued] /\ num_requests \in Index
  BY DEF RequestsInv
<1>2. issued' = issued + 1 /\ network_recv' = network_recv /\ sent' = sent
  BY DEF request_received
<1>3. requests' = [requests EXCEPT ![num_requests] = issued + 1]
  BY DEF request_received
<1>4. requests' \in [Index -> 0..issued']
  BY <1>1, <1>2, <1>3
<1>5. num_requests' \in Index
  BY <1>1, CounterInRange DEF request_received
<1>6. network_recv' \in Seq(Message(issued'))
  <2>1. Message(issued) \subseteq Message(issued')
    BY <1>1, <1>2 DEF Message
  <2>2. network_recv \in Seq(Message(issued))
    BY DEF RequestsInv
  <2>3. network_recv \in Seq(Message(issued'))
    BY <2>1, <2>2, SeqElements, Zenon
  <2> QED
    BY <1>2, <2>3
<1>7. sent \in Seq(Answer(issued)) /\ \A k \in 1..Len(sent) : sent[k] \in Answer(issued)
  <2>1. sent \in Seq(Answer(issued))
    BY DEF RequestsInv
  <2> QED
    BY <2>1, SeqElements, Zenon
<1>8. sent' \in Seq(Answer(issued'))
  <2>1. Answer(issued) \subseteq Answer(issued')
    BY <1>1, <1>2 DEF Answer
  <2>2. sent \in Seq(Answer(issued'))
    BY <2>1, <1>7, SeqElements, Zenon
  <2> QED
    BY <1>2, <2>2
<1>9. unanswered' \subseteq [index : Index, id : 1..issued']
  <2>1. unanswered \subseteq [index : Index, id : 1..issued]
    BY DEF RequestsInv
  <2>2. unanswered' = unanswered \cup {[index |-> num_requests, id |-> issued + 1]}
    BY DEF request_received
  <2> QED
    BY <1>1, <1>2, <2>1, <2>2
<1>10. AnsweredAtMostOnce'
  <2>1. \A k \in 1..Len(sent) : sent[k].id \in 1..issued
    BY <1>7 DEF Answer
  <2>2. \A i \in Index : requests'[i] = IF i = num_requests THEN issued + 1 ELSE requests[i]
    BY <1>1, <1>3
  <2>3. AnsweredAtMostOnce
    BY DEF RequestsInv
  <2>4. \A k \in 1..Len(sent), i \in Index : requests'[i] # sent[k].id
    BY <1>1, <2>1, <2>2, <2>3 DEF AnsweredAtMostOnce
  <2>5. \A i, j \in Index : requests'[i] = requests'[j] /\ requests'[i] # None => i = j
    BY <1>1, <2>2, <2>3 DEF AnsweredAtMostOnce
  <2> QED
    BY <1>2, <2>3, <2>4, <2>5 DEF AnsweredAtMostOnce
<1>11. issued' \in Nat
  BY <1>1, <1>2
<1> QED
  BY <1>4, <1>5, <1>6, <1>8, <1>9, <1>10, <1>11 DEF RequestsInv

\* A client answers: the message names an index of the table.
LEMMA RespondInv ==
    ASSUME RequestsInv, NEW r \in unanswered, NEW client, rpc_response(r, client)
    PROVE  RequestsInv'
<1>1. UNCHANGED <<requests, num_requests, issued, sent>> /\ unanswered' \subseteq unanswered
  BY DEF rpc_response
<1>2. 0 \in Index
  BY RequestsAssumption DEF Index
<1>3. r.index \in Index /\ r.id \in 1..issued
  <2>1. r \in [index : Index, id : 1..issued]
    BY DEF RequestsInv
  <2> QED
    BY <2>1
<1>4. PICK m \in Message(issued) :
        m = [index |-> IF client = "rpc_response" THEN 0 ELSE r.index, answers |-> r.id]
  <2>1. [index |-> IF client = "rpc_response" THEN 0 ELSE r.index, answers |-> r.id]
          \in Message(issued)
    BY <1>2, <1>3 DEF Message
  <2> QED
    BY <2>1, Zenon
<1>5. network_recv' = Append(network_recv, m)
  BY <1>4 DEF rpc_response
<1>6. network_recv \in Seq(Message(issued))
  BY DEF RequestsInv
<1>7. network_recv' \in Seq(Message(issued))
  BY <1>4, <1>5, <1>6, AppendElements, Zenon
<1>8. AnsweredAtMostOnce'
  BY <1>1 DEF RequestsInv, AnsweredAtMostOnce
<1> QED
  BY <1>1, <1>7, <1>8 DEF RequestsInv

\* A response is sent: the id it goes to leaves the table.
LEMMA SendInv ==
    ASSUME RequestsInv, send_response
    PROVE  RequestsInv'
<1>1. issued \in Nat /\ requests \in [Index -> 0..issued] /\ num_requests \in Index
  BY DEF RequestsInv
<1>2. network_recv \in Seq(Message(issued)) /\ network_recv # <<>>
  BY DEF RequestsInv, send_response
<1>3. PICK m \in Message(issued) : m = Head(network_recv)
  BY <1>2, HeadTail, Zenon
<1>4. network_recv' \in Seq(Message(issued))
  <2>1. network_recv' = Tail(network_recv)
    BY DEF send_response
  <2> QED
    BY <1>2, <2>1, HeadTail, Zenon
<1>5. UNCHANGED <<unanswered, issued>>
  BY DEF send_response
<1>6. m.index \in Index /\ m.answers \in 1..issued
  BY <1>3 DEF Message
<1>7. requests' = [requests EXCEPT ![m.index] = None]
  BY <1>3 DEF send_response, cleared
<1>8. requests' \in [Index -> 0..issued]
  BY <1>1, <1>6, <1>7 DEF None
<1>9. AnsweredAtMostOnce
  BY DEF RequestsInv
<1>10. CASE requests[m.index] = None
  <2>1. UNCHANGED <<num_requests, sent>>
    BY <1>3, <1>10 DEF send_response
  <2>2. requests' = requests
    BY <1>1, <1>7, <1>10
  <2> QED
    BY <1>4, <1>5, <2>1, <2>2 DEF RequestsInv, AnsweredAtMostOnce
<1>11. CASE requests[m.index] # None
  <2>1. PICK answer \in Answer(issued) :
          answer = [answers |-> m.answers, id |-> requests[m.index]]
    <3>1. requests[m.index] \in 1..issued
      BY <1>1, <1>6, <1>11 DEF None
    <3>2. [answers |-> m.answers, id |-> requests[m.index]] \in Answer(issued)
      BY <1>6, <3>1 DEF Answer
    <3> QED
      BY <3>2, Zenon
  <2>2. num_requests' = fetch_sub(num_requests) /\ sent' = Append(sent, answer)
    BY <1>3, <1>11, <2>1 DEF send_response
  <2>3. num_requests' \in Index
    BY <1>1, <2>2, CounterInRange
  <2>4. sent \in Seq(Answer(issued)) /\ \A k \in 1..Len(sent) : sent[k] \in Answer(issued)
    <3>1. sent \in Seq(Answer(issued))
      BY DEF RequestsInv
    <3> QED
      BY <3>1, SeqElements, Zenon
  <2>5. /\ sent' \in Seq(Answer(issued)) /\ Len(sent') = Len(sent) + 1
        /\ sent'[Len(sent) + 1] = answer
        /\ \A k \in 1..Len(sent) : sent'[k] = sent[k]
    <3>1. sent' = Append(sent, answer)
      BY <2>2
    <3>2. sent \in Seq(Answer(issued))
      BY <2>4
    <3>3. PICK S : S = Answer(issued)
      OBVIOUS
    <3>4. sent \in Seq(S) /\ answer \in S
      BY <2>1, <3>2, <3>3
    <3> QED
      BY <3>1, <3>3, <3>4
  <2>6. Len(sent) \in Nat
    BY <2>4
  <2>7. answer.id = requests[m.index] /\ answer.id \in 1..issued
    BY <2>1 DEF Answer
  <2>8. \A k \in 1..Len(sent) : sent[k].id # answer.id /\ sent[k].id \in 1..issued
    BY <1>6, <1>9, <2>4, <2>7 DEF AnsweredAtMostOnce, Answer
  <2>9. \A j, k \in 1..Len(sent) : sent[j].id = sent[k].id => j = k
    BY <1>9 DEF AnsweredAtMostOnce
  <2>10. \A j, k \in 1..Len(sent') : sent'[j].id = sent'[k].id => j = k
    BY <2>5, <2>6, <2>8, <2>9
  <2>11. \A i \in Index : requests'[i] = IF i = m.index THEN None ELSE requests[i]
    BY <1>1, <1>7
  <2>12. ASSUME NEW k \in 1..Len(sent'), NEW i \in Index
         PROVE  requests'[i] # sent'[k].id
    <3>1. CASE k = Len(sent) + 1
      BY <1>6, <1>9, <2>5, <2>7, <2>11, <3>1 DEF AnsweredAtMostOnce, None
    <3>2. CASE k \in 1..Len(sent)
      BY <1>9, <2>5, <2>8, <2>11, <3>2 DEF AnsweredAtMostOnce, None
    <3> QED
      BY <2>5, <2>6, <3>1, <3>2
  <2>13. \A i, j \in Index : requests'[i] = requests'[j] /\ requests'[i] # None => i = j
    BY <1>9, <2>11 DEF AnsweredAtMostOnce
  <2>14. AnsweredAtMostOnce'
    BY <2>10, <2>12, <2>13 DEF AnsweredAtMostOnce
  <2> QED
    BY <1>1, <1>4, <1>5, <1>8, <2>3, <2>5, <2>14 DEF RequestsInv
<1> QED
  BY <1>10, <1>11

-----------------------------------------------------------------------------
\* The table, the channel and the counter are well formed and no request is
\* stored, or answered, twice: at every moment of every behaviour.
THEOREM RequestsInvariant == Spec => []RequestsInv
<1>1. Init => RequestsInv
  <2> SUFFICES ASSUME Init PROVE RequestsInv
    OBVIOUS
  <2>1. 0 \in Index
    BY RequestsAssumption DEF Index
  <2>2. sent = <<>> /\ network_recv = <<>>
    BY DEF Init
  <2>3. sent \in Seq(Answer(issued)) /\ network_recv \in Seq(Message(issued))
    BY <2>2
  <2>4. AnsweredAtMostOnce
    BY <2>2 DEF Init, AnsweredAtMostOnce, None
  <2> QED
    BY <2>1, <2>3, <2>4 DEF Init, RequestsInv, None
<1>2. RequestsInv /\ [Next]_vars => RequestsInv'
  <2> SUFFICES ASSUME RequestsInv, [Next]_vars PROVE RequestsInv'
    OBVIOUS
  <2>1. CASE request_received
    BY <2>1, ReceivedInv
  <2>2. CASE \E r \in unanswered, client \in Client : rpc_response(r, client)
    BY <2>2, RespondInv
  <2>3. CASE send_response
    BY <2>3, SendInv
  <2>4. CASE UNCHANGED vars
    BY <2>4 DEF vars, RequestsInv, AnsweredAtMostOnce
  <2> QED
    BY <2>1, <2>2, <2>3, <2>4 DEF Next
<1> QED
  BY <1>1, <1>2, PTL DEF Spec

\* SendResponse, whatever index it names and however often the client repeats
\* itself, never answers a request of a peer again.
THEOREM RequestsAnsweredAtMostOnce == Spec => []AnsweredAtMostOnce
<1>1. RequestsInv => AnsweredAtMostOnce
  BY DEF RequestsInv
<1> QED
  BY <1>1, RequestsInvariant, PTL

\* The table, the counter and the messages under way stay in range, the
\* counter wrapping around included.
THEOREM RequestsTypeCorrect == Spec => []RequestsTypeOK
<1>1. RequestsInv => RequestsTypeOK
  <2> SUFFICES ASSUME RequestsInv PROVE RequestsTypeOK
    OBVIOUS
  <2>1. network_recv \in Seq(Message(issued))
    BY DEF RequestsInv
  <2>2. \A k \in 1..Len(network_recv) : network_recv[k] \in Message(issued)
    BY <2>1, SeqElements, Zenon
  <2>3. \A k \in 1..Len(network_recv) : network_recv[k].index \in Index
    BY <2>2 DEF Message
  <2>4. \A r \in unanswered : r.index \in Index /\ r.id \in 1..issued
    BY DEF RequestsInv
  <2> QED
    BY <2>3, <2>4 DEF RequestsInv, RequestsTypeOK
<1> QED
  BY <1>1, RequestsInvariant, PTL
=============================================================================
