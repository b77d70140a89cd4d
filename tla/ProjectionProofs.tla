-------------------------- MODULE ProjectionProofs --------------------------
(***************************************************************************)
(* Proofs about the database and the events that it is made of, whatever   *)
(* the constants are.                                                      *)
(*                                                                         *)
(* The events in the queue are news of rows.  What holds at any moment is  *)
(* that each row will be right when its last news has been projected; it   *)
(* is stated once, as EndsIn, for balances, positions and statuses alike,  *)
(* and it survives an event that leaves the queue and events that join it. *)
(*                                                                         *)
(* The ledger of trades and the depth of the book do not depend on the     *)
(* order in which events are projected. What holds at any moment is that   *)
(* the rows of trades, with those that the pending events will add, sum up *)
(* to what each order has sold, and that what a client knows, with what a  *)
(* match has said so far, is the depth of every level but the one that the *)
(* match is busy with.                                                     *)
(***************************************************************************)
EXTENDS ProjectionProperties, EngineProofs

-----------------------------------------------------------------------------
(* Sequences *)

LEMMA SequenceLength ==
  ASSUME NEW s, IsSequence(s)
  PROVE  Len(s) \in Nat /\ DOMAIN s = 1..Len(s)
BY LenProperties DEF IsSequence

LEMMA SequenceIn ==
  ASSUME NEW S, NEW s \in Seq(S)
  PROVE  IsSequence(s)
<1>1. Len(s) \in Nat /\ DOMAIN s = 1..Len(s) /\ s \in [1..Len(s) -> S]
  BY LenProperties
<1>2. s \in [1..Len(s) -> {s[k] : k \in DOMAIN s}]
  BY <1>1
<1> QED
  BY <1>1, <1>2, SeqDef DEF IsSequence

LEMMA JoinedSequences ==
  ASSUME NEW s, NEW t, IsSequence(s), IsSequence(t)
  PROVE  /\ IsSequence(s \o t)
         /\ Len(s \o t) = Len(s) + Len(t)
         /\ \A k \in 1..Len(s) : (s \o t)[k] = s[k]
         /\ \A k \in 1..Len(t) : (s \o t)[Len(s) + k] = t[k]
<1> DEFINE S == {s[k] : k \in DOMAIN s} \cup {t[k] : k \in DOMAIN t}
<1>1. s \in Seq(S) /\ t \in Seq(S)
  <2>1. s \in Seq({s[k] : k \in DOMAIN s}) /\ t \in Seq({t[k] : k \in DOMAIN t})
    BY DEF IsSequence
  <2>2. {s[k] : k \in DOMAIN s} \subseteq S /\ {t[k] : k \in DOMAIN t} \subseteq S
    OBVIOUS
  <2> HIDE DEF S
  <2> QED
    BY <2>1, <2>2, SeqMonotonic
<1>2. Len(s) \in Nat /\ Len(t) \in Nat
  BY SequenceLength
<1> HIDE DEF S
<1>3. /\ s \o t \in Seq(S) /\ Len(s \o t) = Len(s) + Len(t)
      /\ \A i \in 1 .. Len(s) + Len(t) : (s \o t)[i] = IF i <= Len(s) THEN s[i] ELSE t[i - Len(s)]
  BY <1>1, ConcatProperties
<1>4. IsSequence(s \o t)
  BY <1>3, SequenceIn
<1>5. \A k \in 1..Len(s) : (s \o t)[k] = s[k]
  BY <1>2, <1>3
<1>6. \A k \in 1..Len(t) : (s \o t)[Len(s) + k] = t[k]
  <2> TAKE k \in 1..Len(t)
  <2>1. Len(s) + k \in 1 .. Len(s) + Len(t) /\ ~(Len(s) + k <= Len(s)) /\ Len(s) + k - Len(s) = k
    BY <1>2
  <2> QED
    BY <1>3, <2>1
<1> QED
  BY <1>3, <1>4, <1>5, <1>6

LEMMA HeadAndTail ==
  ASSUME NEW s, IsSequence(s), s # <<>>
  PROVE  /\ Len(s) \in Nat \ {0} /\ Head(s) = s[1]
         /\ IsSequence(Tail(s)) /\ Len(Tail(s)) = Len(s) - 1
         /\ \A k \in 1..(Len(s) - 1) : Tail(s)[k] = s[k + 1]
<1> DEFINE S == {s[k] : k \in DOMAIN s}
<1>1. s \in Seq(S)
  BY DEF IsSequence
<1> HIDE DEF S
<1>2. /\ Tail(s) \in Seq(S) /\ Len(Tail(s)) = Len(s) - 1
      /\ \A i \in 1 .. Len(Tail(s)) : Tail(s)[i] = s[i + 1]
  BY <1>1, HeadTailProperties
<1>3. Len(s) \in Nat \ {0}
  BY <1>1, LenProperties, EmptySeq
<1>4. Head(s) = s[1]
  BY <1>1, <1>3
<1>5. IsSequence(Tail(s))
  BY <1>2, SequenceIn
<1>6. \A k \in 1..(Len(s) - 1) : Tail(s)[k] = s[k + 1]
  BY <1>2
<1> QED
  BY <1>2, <1>3, <1>4, <1>5, <1>6

LEMMA AppendedSequence ==
  ASSUME NEW s, IsSequence(s), NEW e
  PROVE  /\ IsSequence(Append(s, e)) /\ Len(Append(s, e)) = Len(s) + 1
         /\ Append(s, e)[Len(s) + 1] = e
         /\ \A k \in 1..Len(s) : Append(s, e)[k] = s[k]
<1> DEFINE S == {s[k] : k \in DOMAIN s} \cup {e}
<1>1. s \in Seq(S)
  <2>1. s \in Seq({s[k] : k \in DOMAIN s}) /\ {s[k] : k \in DOMAIN s} \subseteq S
    BY DEF IsSequence
  <2> HIDE DEF S
  <2> QED
    BY <2>1, SeqMonotonic
<1>2. e \in S
  OBVIOUS
<1> HIDE DEF S
<1>3. /\ Append(s, e) \in Seq(S) /\ Len(Append(s, e)) = Len(s) + 1
      /\ \A k \in 1..Len(s) : Append(s, e)[k] = s[k]
      /\ Append(s, e)[Len(s) + 1] = e
  BY <1>1, <1>2, AppendProperties, LenProperties
<1> QED
  BY <1>3, SequenceIn

-----------------------------------------------------------------------------
(* News *)

\* m more pieces of news follow the first n.
Longer(news, more, n, m) ==
  /\ n \in Nat /\ m \in Nat /\ DOMAIN news = 1..n /\ DOMAIN more = 1..(n + m)
  /\ \A k \in 1..n : more[k] = news[k]

\* They say nothing of x that is not in S.
SaysIn(S, x, more, n, m) ==
  \A k \in 1..m : x \in DOMAIN more[n + k] => more[n + k][x] \in S

Mentions(x, more, n, m) == \E k \in 1..m : x \in DOMAIN more[n + k]

\* Events that join the queue: what they say of x is in S, and if they say
\* nothing the events before them have the last word.
LEMMA EndsAfterMore ==
  ASSUME NEW S, NEW x, NEW row, NEW n, NEW m, NEW news, NEW more,
         Longer(news, more, n, m), SaysIn(S, x, more, n, m),
         Mentions(x, more, n, m) \/ EndsIn(S, news, x, row)
  PROVE  EndsIn(S, more, x, row)
<1> USE DEF Longer, SaysIn, Mentions
<1>1. \A k \in 1..m : n + k \in 1..(n + m) /\ n + k > n
  OBVIOUS
<1>2. \A k \in 1..(n + m) : k \in 1..n \/ (k - n \in 1..m /\ n + (k - n) = k)
  OBVIOUS
<1>3. ASSUME \A k \in DOMAIN more : x \notin DOMAIN more[k]
      PROVE  row \in S
  <2>1. EndsIn(S, news, x, row)
    BY <1>1, <1>3
  <2>2. \A k \in DOMAIN news : x \notin DOMAIN news[k]
    BY <1>3
  <2> QED
    BY <2>1, <2>2 DEF EndsIn
<1>4. ASSUME NEW k \in DOMAIN more, x \in DOMAIN more[k],
             \A j \in DOMAIN more : j > k => x \notin DOMAIN more[j]
      PROVE  more[k][x] \in S
  <2>1. CASE k \in 1..n
    <3>1. \A j \in 1..m : n + j > k /\ n + j \in DOMAIN more
      BY <1>1, <2>1
    <3>2. EndsIn(S, news, x, row)
      BY <1>4, <3>1
    <3>3. k \in DOMAIN news /\ x \in DOMAIN news[k] /\ more[k] = news[k]
      BY <1>4, <2>1
    <3>4. \A j \in DOMAIN news : j > k => x \notin DOMAIN news[j]
      <4>1. \A j \in 1..n : j \in DOMAIN more /\ more[j] = news[j]
        OBVIOUS
      <4> QED
        BY <1>4, <4>1
    <3> QED
      BY <3>2, <3>3, <3>4 DEF EndsIn
  <2>2. CASE k - n \in 1..m /\ n + (k - n) = k
    BY <1>4, <2>2
  <2> QED
    BY <1>2, <1>4, <2>1, <2>2
<1> QED
  BY <1>3, <1>4 DEF EndsIn

\* The n pieces of news that follow the first one.
Shorter(news, rest, n) ==
  /\ n \in Nat /\ DOMAIN news = 1..(n + 1) /\ DOMAIN rest = 1..n
  /\ \A k \in 1..n : rest[k] = news[k + 1]

\* The first event of the queue becomes the row.
LEMMA EndsAfterFirst ==
  ASSUME NEW S, NEW x, NEW row, NEW new, NEW n, NEW news, NEW rest,
         Shorter(news, rest, n),
         new = (IF x \in DOMAIN news[1] THEN news[1][x] ELSE row),
         EndsIn(S, news, x, row)
  PROVE  EndsIn(S, rest, x, new)
<1> USE DEF Shorter
<1>1. 1 \in DOMAIN news /\ \A k \in 1..n : k + 1 \in DOMAIN news /\ k + 1 > 1
  OBVIOUS
<1>2. \A j \in DOMAIN news : j = 1 \/ (j - 1 \in 1..n /\ (j - 1) + 1 = j)
  OBVIOUS
<1>3. ASSUME \A k \in DOMAIN rest : x \notin DOMAIN rest[k]
      PROVE  new \in S
  <2>1. \A j \in DOMAIN news : j > 1 => x \notin DOMAIN news[j]
    BY <1>2, <1>3
  <2>2. CASE x \in DOMAIN news[1]
    BY <1>1, <2>1, <2>2 DEF EndsIn
  <2>3. CASE x \notin DOMAIN news[1]
    <3>1. \A j \in DOMAIN news : x \notin DOMAIN news[j]
      BY <1>2, <2>1, <2>3
    <3> QED
      BY <2>3, <3>1 DEF EndsIn
  <2> QED
    BY <2>2, <2>3
<1>4. ASSUME NEW k \in DOMAIN rest, x \in DOMAIN rest[k],
             \A j \in DOMAIN rest : j > k => x \notin DOMAIN rest[j]
      PROVE  rest[k][x] \in S
  <2>1. k + 1 \in DOMAIN news /\ rest[k] = news[k + 1]
    OBVIOUS
  <2>2. ASSUME NEW j \in DOMAIN news, j > k + 1 PROVE x \notin DOMAIN news[j]
    <3>1. j - 1 \in 1..n /\ (j - 1) + 1 = j /\ j - 1 > k
      BY <2>2
    <3> QED
      BY <1>4, <3>1
  <2> QED
    BY <1>4, <2>1, <2>2 DEF EndsIn
<1> QED
  BY <1>3, <1>4 DEF EndsIn
-----------------------------------------------------------------------------
(* What the events say *)

LEMMA OtherNews ==
  ASSUME NEW e
  PROVE  /\ e.event \notin {"balance.updated", "account.updated"} => DOMAIN BalanceNews(e) = {}
         /\ e.event # "account.updated" => DOMAIN PositionNews(e) = {}
         /\ e.event \notin {"order.accepted", "order.rejected", "order.cancelled"} =>
              DOMAIN StatusNews(e) = {}
<1>1. e.event \notin {"balance.updated", "account.updated"} => DOMAIN BalanceNews(e) = {}
  BY DEF BalanceNews
<1>2. e.event # "account.updated" => DOMAIN PositionNews(e) = {}
  BY DEF PositionNews
<1>3. e.event \notin {"order.accepted", "order.rejected", "order.cancelled"} =>
        DOMAIN StatusNews(e) = {}
  BY DEF StatusNews
<1> QED
  BY <1>1, <1>2, <1>3

LEMMA BalanceDraftNews ==
  ASSUME NEW user
  PROVE  /\ BalanceDraft(user).event = "balance.updated"
         /\ DOMAIN BalanceNews(BalanceDraft(user)) = {user}
         /\ BalanceNews(BalanceDraft(user))[user] = WalletRow(accounts'[user].bal)
BY DEF BalanceDraft, BalanceNews

LEMMA AccountDraftsNews ==
  ASSUME NEW users
  PROVE  /\ AccountDrafts(users).event = "account.updated"
         /\ DOMAIN BalanceNews(AccountDrafts(users)) = users
         /\ DOMAIN PositionNews(AccountDrafts(users)) = users
         /\ \A u \in users :
              /\ BalanceNews(AccountDrafts(users))[u] = WalletRow(accounts'[u].bal)
              /\ PositionNews(AccountDrafts(users))[u] = PositionRow(accounts'[u].pos)
<1> DEFINE e     == AccountDrafts(users)
           row(u) == [user |-> u, account |-> accounts'[u]]
           of(u)  == CHOOSE a \in e.accounts : a.user = u
<1>1. e.event = "account.updated" /\ e.accounts = {row(u) : u \in users}
  BY DEF AccountDrafts
<1>2. \A u : row(u).user = u /\ row(u).account = accounts'[u]
  OBVIOUS
<1> HIDE DEF e, row
<1>3. {a.user : a \in e.accounts} = users
  BY <1>1, <1>2
<1>4. \A u \in users : of(u).account = accounts'[u]
  <2> TAKE u \in users
  <2>1. row(u) \in e.accounts /\ row(u).user = u
    BY <1>1, <1>2
  <2>2. of(u) \in e.accounts /\ of(u).user = u
    BY <2>1
  <2> HIDE DEF of
  <2>3. PICK v \in users : of(u) = row(v)
    BY <1>1, <2>2
  <2> QED
    BY <1>2, <2>2, <2>3
<1>5. BalanceNews(e) = [u \in users |-> WalletRow(of(u).account.bal)]
  BY <1>1, <1>3 DEF BalanceNews
<1>6. PositionNews(e) = [u \in users |-> PositionRow(of(u).account.pos)]
  BY <1>1, <1>3 DEF PositionNews
<1> HIDE DEF of
<1> QED
  BY <1>1, <1>5, <1>6, <1>4 DEF e

LEMMA StatusOf ==
  ASSUME NEW e
  PROVE  /\ e.event = "order.accepted" =>
              DOMAIN StatusNews(e) = {e.order} /\ StatusNews(e)[e.order] = RowStatus(e.status)
         /\ e.event = "order.rejected" =>
              DOMAIN StatusNews(e) = {e.order} /\ StatusNews(e)[e.order] = "REJECTED"
         /\ e.event = "order.cancelled" =>
              DOMAIN StatusNews(e) = {e.order} /\ StatusNews(e)[e.order] = "CANCELLED"
<1>1. e.event = "order.accepted" => StatusNews(e) = [id \in {e.order} |-> RowStatus(e.status)]
  BY DEF StatusNews
<1>2. e.event = "order.rejected" => StatusNews(e) = [id \in {e.order} |-> "REJECTED"]
  BY DEF StatusNews
<1>3. e.event = "order.cancelled" => StatusNews(e) = [id \in {e.order} |-> "CANCELLED"]
  BY DEF StatusNews
<1> QED
  BY <1>1, <1>2, <1>3

-----------------------------------------------------------------------------
(* Publishing *)

Emitted == IF taker' = NoTaker THEN outs' ELSE <<>>

LEMMA EmptyIsSequence == IsSequence(<<>>) /\ Len(<<>>) = 0
BY EmptySeq DEF IsSequence

\* The queue after the events of a step joined it.
LEMMA Published ==
  ASSUME IsSequence(queue), published \in Nat, IsSequence(Emitted), Emit
  PROVE  /\ Len(Emitted) \in Nat /\ DOMAIN Emitted = 1..Len(Emitted)
         /\ IsSequence(queue') /\ Len(queue') = Len(queue) + Len(Emitted)
         /\ \A k \in 1..Len(queue) : queue'[k] = queue[k]
         /\ \A k \in 1..Len(Emitted) :
              queue'[Len(queue) + k] = [id |-> published + k, event |-> Emitted[k]]
         /\ published' = published + Len(Emitted)
         /\ UNCHANGED <<wallets, positions, processed, unacked, putOff>>
<1> DEFINE new == [k \in DOMAIN Emitted |-> [id |-> published + k, event |-> Emitted[k]]]
<1>1. /\ queue' = queue \o new
      /\ published' = published + Len(Emitted)
      /\ UNCHANGED <<wallets, positions, processed, unacked, putOff>>
  BY DEF Emit, Emitted
<1>2. Len(Emitted) \in Nat /\ DOMAIN Emitted = 1..Len(Emitted)
  BY SequenceLength
<1> HIDE DEF Emitted
<1>3. DOMAIN new = 1..Len(Emitted)
      /\ \A k \in 1..Len(Emitted) : new[k] = [id |-> published + k, event |-> Emitted[k]]
  BY <1>2
<1>4. new \in [1..Len(Emitted) -> {new[k] : k \in DOMAIN new}]
  BY <1>2
<1>5. IsSequence(new) /\ Len(new) = Len(Emitted)
  <2> HIDE DEF new
  <2>1. new \in Seq({new[k] : k \in DOMAIN new})
    BY <1>2, <1>4, SeqDef
  <2>2. Len(new) \in Nat /\ DOMAIN new = 1..Len(new)
    BY <2>1, LenProperties
  <2> QED
    BY <1>2, <1>3, <2>1, <2>2 DEF IsSequence
<1> HIDE DEF new
<1>6. /\ IsSequence(queue \o new) /\ Len(queue \o new) = Len(queue) + Len(new)
      /\ \A k \in 1..Len(queue) : (queue \o new)[k] = queue[k]
      /\ \A k \in 1..Len(new) : (queue \o new)[Len(queue) + k] = new[k]
  BY <1>5, JoinedSequences
<1>7. \A k \in 1..Len(Emitted) :
        queue'[Len(queue) + k] = [id |-> published + k, event |-> Emitted[k]]
  BY <1>1, <1>3, <1>5, <1>6
<1> QED
  BY <1>1, <1>2, <1>5, <1>6, <1>7

\* What the events of a step must say for the rows to follow: the present value,
\* of everyone whose value changed or waited to be reported.
BalancesTold ==
  /\ \A k \in DOMAIN Emitted : \A u \in DOMAIN BalanceNews(Emitted[k]) :
       BalanceNews(Emitted[k])[u] = WalletRow(accounts'[u].bal)
  /\ \A u \in Users \ Unreported' :
       \/ \E k \in DOMAIN Emitted : u \in DOMAIN BalanceNews(Emitted[k])
       \/ u \notin Unreported /\ WalletRow(accounts'[u].bal) = WalletRow(accounts[u].bal)

PositionsTold ==
  /\ \A k \in DOMAIN Emitted : \A u \in DOMAIN PositionNews(Emitted[k]) :
       PositionNews(Emitted[k])[u] = PositionRow(accounts'[u].pos)
  /\ \A u \in Users \ Unreported' :
       \/ \E k \in DOMAIN Emitted : u \in DOMAIN PositionNews(Emitted[k])
       \/ u \notin Unreported /\ PositionRow(accounts'[u].pos) = PositionRow(accounts[u].pos)

Gone == {"PARTIALLYFILLED", "FILLED", "CANCELLED", "REJECTED"}

StatusesTold ==
  \A id \in DOMAIN orders' \ Undecided' : Resting(id)' = {} =>
    /\ \A k \in DOMAIN Emitted :
         id \in DOMAIN StatusNews(Emitted[k]) => StatusNews(Emitted[k])[id] \in Gone
    /\ \/ \E k \in DOMAIN Emitted : id \in DOMAIN StatusNews(Emitted[k])
       \/ /\ id \in DOMAIN orders \ Undecided /\ Resting(id) = {}
          /\ orders'[id].status = orders[id].status

Deposited ==
  \A u \in Users : UnderWay(u)' = {} =>
    UnderWay(u) = {} \/ \E k \in DOMAIN Emitted : u \in DOMAIN BalanceNews(Emitted[k])

LEMMA WalletsEmitted ==
  ASSUME IsSequence(queue), published \in Nat, IsSequence(Emitted), Emit,
         WalletInv, BalancesTold, Deposited
  PROVE  WalletInv'
<1> DEFINE news == [k \in DOMAIN queue |-> BalanceNews(queue[k].event)]
           more == [k \in DOMAIN queue' |-> BalanceNews(queue'[k].event)]
           n    == Len(queue)
           m    == Len(Emitted)
<1>1. /\ n \in Nat /\ m \in Nat /\ DOMAIN Emitted = 1..m
      /\ DOMAIN queue = 1..n /\ DOMAIN queue' = 1..(n + m)
      /\ \A k \in 1..n : queue'[k] = queue[k]
      /\ \A k \in 1..m : queue'[n + k] = [id |-> published + k, event |-> Emitted[k]]
      /\ wallets' = wallets
  BY Published, SequenceLength
<1>2. DOMAIN news = 1..n /\ DOMAIN more = 1..(n + m)
  BY <1>1
<1>3. \A k \in 1..n : more[k] = news[k]
  BY <1>1
<1>4. \A k \in 1..m : more[n + k] = BalanceNews(Emitted[k])
  <2> HIDE DEF n, m
  <2> TAKE k \in 1..m
  <2>1. n + k \in 1..(n + m)
    BY <1>1
  <2>2. queue'[n + k] = [id |-> published + k, event |-> Emitted[k]]
    BY <1>1
  <2>3. n + k \in DOMAIN queue' /\ queue'[n + k].event = Emitted[k]
    BY <1>1, <2>1, <2>2
  <2> QED
    BY <2>3
<1> SUFFICES ASSUME NEW u \in Users \ Unreported', UnderWay(u)' = {}
             PROVE  EndsIn({WalletRow(accounts'[u].bal)}, more, u, wallets[u])
  BY <1>1 DEF WalletInv
<1>5. \A k \in 1..m : u \in DOMAIN BalanceNews(Emitted[k]) =>
        BalanceNews(Emitted[k])[u] \in {WalletRow(accounts'[u].bal)}
  BY <1>1 DEF BalancesTold
<1>6. \/ \E k \in 1..m : u \in DOMAIN BalanceNews(Emitted[k])
      \/ EndsIn({WalletRow(accounts'[u].bal)}, news, u, wallets[u])
  <2>1. CASE \E k \in DOMAIN Emitted : u \in DOMAIN BalanceNews(Emitted[k])
    BY <1>1, <2>1
  <2>2. CASE /\ u \notin Unreported /\ WalletRow(accounts'[u].bal) = WalletRow(accounts[u].bal)
             /\ UnderWay(u) = {}
    <3>1. EndsIn({WalletRow(accounts[u].bal)}, news, u, wallets[u])
      BY <2>2 DEF WalletInv
    <3> QED
      BY <2>2, <3>1
  <2> QED
    BY <2>1, <2>2 DEF BalancesTold, Deposited
<1> HIDE DEF news, more, n, m
<1> DEFINE S   == {WalletRow(accounts'[u].bal)}
           row == wallets[u]
<1>7. /\ Longer(news, more, n, m) /\ SaysIn(S, u, more, n, m)
      /\ Mentions(u, more, n, m) \/ EndsIn(S, news, u, row)
  BY <1>1, <1>2, <1>3, <1>4, <1>5, <1>6 DEF Longer, SaysIn, Mentions
<1> HIDE DEF S, row
<1>8. EndsIn(S, more, u, row)
  BY <1>7, EndsAfterMore
<1> QED
  BY <1>8 DEF S, row

LEMMA PositionsEmitted ==
  ASSUME IsSequence(queue), published \in Nat, IsSequence(Emitted), Emit,
         PositionInv, PositionsTold
  PROVE  PositionInv'
<1> DEFINE news == [k \in DOMAIN queue |-> PositionNews(queue[k].event)]
           more == [k \in DOMAIN queue' |-> PositionNews(queue'[k].event)]
           n    == Len(queue)
           m    == Len(Emitted)
<1>1. /\ n \in Nat /\ m \in Nat /\ DOMAIN Emitted = 1..m
      /\ DOMAIN queue = 1..n /\ DOMAIN queue' = 1..(n + m)
      /\ \A k \in 1..n : queue'[k] = queue[k]
      /\ \A k \in 1..m : queue'[n + k] = [id |-> published + k, event |-> Emitted[k]]
      /\ positions' = positions
  BY Published, SequenceLength
<1>2. DOMAIN news = 1..n /\ DOMAIN more = 1..(n + m)
  BY <1>1
<1>3. \A k \in 1..n : more[k] = news[k]
  BY <1>1
<1>4. \A k \in 1..m : more[n + k] = PositionNews(Emitted[k])
  <2> HIDE DEF n, m
  <2> TAKE k \in 1..m
  <2>1. n + k \in 1..(n + m)
    BY <1>1
  <2>2. queue'[n + k] = [id |-> published + k, event |-> Emitted[k]]
    BY <1>1
  <2>3. n + k \in DOMAIN queue' /\ queue'[n + k].event = Emitted[k]
    BY <1>1, <2>1, <2>2
  <2> QED
    BY <2>3
<1> SUFFICES ASSUME NEW u \in Users \ Unreported'
             PROVE  EndsIn({PositionRow(accounts'[u].pos)}, more, u, positions[u])
  BY <1>1 DEF PositionInv
<1>5. \A k \in 1..m : u \in DOMAIN PositionNews(Emitted[k]) =>
        PositionNews(Emitted[k])[u] \in {PositionRow(accounts'[u].pos)}
  BY <1>1 DEF PositionsTold
<1>6. \/ \E k \in 1..m : u \in DOMAIN PositionNews(Emitted[k])
      \/ EndsIn({PositionRow(accounts'[u].pos)}, news, u, positions[u])
  <2>1. CASE \E k \in DOMAIN Emitted : u \in DOMAIN PositionNews(Emitted[k])
    BY <1>1, <2>1
  <2>2. CASE u \notin Unreported /\ PositionRow(accounts'[u].pos) = PositionRow(accounts[u].pos)
    <3>1. EndsIn({PositionRow(accounts[u].pos)}, news, u, positions[u])
      BY <2>2 DEF PositionInv
    <3> QED
      BY <2>2, <3>1
  <2> QED
    BY <2>1, <2>2 DEF PositionsTold
<1> HIDE DEF news, more, n, m
<1> DEFINE S   == {PositionRow(accounts'[u].pos)}
           row == positions[u]
<1>7. /\ Longer(news, more, n, m) /\ SaysIn(S, u, more, n, m)
      /\ Mentions(u, more, n, m) \/ EndsIn(S, news, u, row)
  BY <1>1, <1>2, <1>3, <1>4, <1>5, <1>6 DEF Longer, SaysIn, Mentions
<1> HIDE DEF S, row
<1>8. EndsIn(S, more, u, row)
  BY <1>7, EndsAfterMore
<1> QED
  BY <1>8 DEF S, row

LEMMA StatusesEmitted ==
  ASSUME IsSequence(queue), published \in Nat, IsSequence(Emitted), Emit,
         GoneInv, StatusesTold
  PROVE  GoneInv'
<1> DEFINE news == [k \in DOMAIN queue |-> StatusNews(queue[k].event)]
           more == [k \in DOMAIN queue' |-> StatusNews(queue'[k].event)]
           n    == Len(queue)
           m    == Len(Emitted)
<1>1. /\ n \in Nat /\ m \in Nat /\ DOMAIN Emitted = 1..m
      /\ DOMAIN queue = 1..n /\ DOMAIN queue' = 1..(n + m)
      /\ \A k \in 1..n : queue'[k] = queue[k]
      /\ \A k \in 1..m : queue'[n + k] = [id |-> published + k, event |-> Emitted[k]]
  BY Published, SequenceLength
<1>2. DOMAIN news = 1..n /\ DOMAIN more = 1..(n + m)
  BY <1>1
<1>3. \A k \in 1..n : more[k] = news[k]
  BY <1>1
<1>4. \A k \in 1..m : more[n + k] = StatusNews(Emitted[k])
  <2> HIDE DEF n, m
  <2> TAKE k \in 1..m
  <2>1. n + k \in 1..(n + m)
    BY <1>1
  <2>2. queue'[n + k] = [id |-> published + k, event |-> Emitted[k]]
    BY <1>1
  <2>3. n + k \in DOMAIN queue' /\ queue'[n + k].event = Emitted[k]
    BY <1>1, <2>1, <2>2
  <2> QED
    BY <2>3
<1> SUFFICES ASSUME NEW id \in DOMAIN orders' \ Undecided', Resting(id)' = {}
             PROVE  EndsIn(Gone, more, id, orders'[id].status)
  BY <1>1 DEF GoneInv, Gone
<1>5. /\ \A k \in 1..m : id \in DOMAIN StatusNews(Emitted[k]) => StatusNews(Emitted[k])[id] \in Gone
      /\ \/ \E k \in 1..m : id \in DOMAIN StatusNews(Emitted[k])
         \/ /\ id \in DOMAIN orders \ Undecided /\ Resting(id) = {}
            /\ orders'[id].status = orders[id].status
  BY <1>1 DEF StatusesTold
<1>6. \/ \E k \in 1..m : id \in DOMAIN StatusNews(Emitted[k])
      \/ EndsIn(Gone, news, id, orders'[id].status)
  <2>1. CASE \E k \in 1..m : id \in DOMAIN StatusNews(Emitted[k])
    BY <2>1
  <2>2. CASE /\ id \in DOMAIN orders \ Undecided /\ Resting(id) = {}
             /\ orders'[id].status = orders[id].status
    <3>1. EndsIn(Gone, news, id, orders[id].status)
      BY <2>2 DEF GoneInv, Gone
    <3> QED
      BY <2>2, <3>1
  <2> QED
    BY <1>5, <2>1, <2>2
<1> HIDE DEF news, more, n, m
<1> DEFINE S   == Gone
           row == orders'[id].status
<1>7. /\ Longer(news, more, n, m) /\ SaysIn(S, id, more, n, m)
      /\ Mentions(id, more, n, m) \/ EndsIn(S, news, id, row)
  BY <1>1, <1>2, <1>3, <1>4, <1>5, <1>6 DEF Longer, SaysIn, Mentions
<1> HIDE DEF S, row
<1>8. EndsIn(S, more, id, row)
  BY <1>7, EndsAfterMore
<1> QED
  BY <1>8 DEF S, row

-----------------------------------------------------------------------------
(* The commands that do not match, one by one *)

LEMMA OneElement ==
  ASSUME NEW s, NEW a, s = <<a>>
  PROVE  IsSequence(s) /\ DOMAIN s = {1} /\ s[1] = a /\ ToSet(s) = {a}
<1>1. s \in Seq({a}) /\ DOMAIN s = {1} /\ s[1] = a
  OBVIOUS
<1> QED
  BY <1>1, SequenceIn DEF ToSet

LEMMA TwoElements ==
  ASSUME NEW s, NEW a, NEW b, s = <<a, b>>
  PROVE  IsSequence(s) /\ DOMAIN s = {1, 2} /\ s[1] = a /\ s[2] = b /\ ToSet(s) = {a, b}
<1>1. s \in Seq({a, b}) /\ DOMAIN s = {1, 2} /\ s[1] = a /\ s[2] = b
  OBVIOUS
<1> QED
  BY <1>1, SequenceIn DEF ToSet

LEMMA ThreeElements ==
  ASSUME NEW s, NEW a, NEW b, NEW c, s = <<a, b, c>>
  PROVE  IsSequence(s) /\ DOMAIN s = {1, 2, 3} /\ s[1] = a /\ s[2] = b /\ s[3] = c
<1>1. s \in Seq({a, b, c})
  OBVIOUS
<1>2. DOMAIN s = {1, 2, 3} /\ s[1] = a /\ s[2] = b /\ s[3] = c
  OBVIOUS
<1> QED
  BY <1>1, <1>2, SequenceIn

\* What a step must do to the events for the invariant to survive.
Told == IsSequence(Emitted) /\ QuietInv' /\ BalancesTold /\ PositionsTold /\ StatusesTold

\* Between commands everything has been reported.
LEMMA IdleReported ==
  ASSUME Idle, taker' = taker
  PROVE  /\ Unreported = {} /\ Unreported' = {} /\ Undecided = {} /\ Undecided' = {}
         /\ Idle' /\ Emitted = outs'
BY DEF Idle, Unreported, Undecided, Emitted

LEMMA IdleQuiet ==
  ASSUME Idle', IsSequence(outs')
  PROVE  QuietInv'
BY DEF QuietInv

\* The book stays, and what is said of orders is that they are gone.
LEMMA BookKept ==
  ASSUME Idle, UNCHANGED <<taker, bids, asks>>,
         \A k \in DOMAIN Emitted : \A id \in DOMAIN StatusNews(Emitted[k]) :
           StatusNews(Emitted[k])[id] \in Gone,
         \A id \in DOMAIN orders' :
           \/ id \in DOMAIN orders /\ orders'[id].status = orders[id].status
           \/ \E k \in DOMAIN Emitted : id \in DOMAIN StatusNews(Emitted[k])
  PROVE  StatusesTold
<1>1. \A id : Resting(id)' = Resting(id)
  BY DEF Resting
<1>2. Undecided = {}
  BY IdleReported
<1> QED
  BY <1>1, <1>2 DEF StatusesTold

\* Nothing is said of balances and positions, and they have not changed.
LEMMA AccountsKept ==
  ASSUME Idle, UNCHANGED <<taker, accounts>>,
         \A k \in DOMAIN Emitted :
           Emitted[k].event \notin {"balance.updated", "account.updated"}
  PROVE  BalancesTold /\ PositionsTold
<1>1. Unreported = {}
  BY IdleReported
<1>2. \A k \in DOMAIN Emitted :
        DOMAIN BalanceNews(Emitted[k]) = {} /\ DOMAIN PositionNews(Emitted[k]) = {}
  BY OtherNews
<1> QED
  BY <1>1, <1>2 DEF BalancesTold, PositionsTold

\* The balance of one user changes and is told.
LEMMA BalanceKept ==
  ASSUME Inv, Idle, taker' = taker, NEW user \in Users, NEW b,
         accounts' = [accounts EXCEPT ![user].bal = b],
         NEW at \in DOMAIN Emitted, Emitted[at] = BalanceDraft(user),
         \A k \in DOMAIN Emitted \ {at} :
           Emitted[k].event \notin {"balance.updated", "account.updated"}
  PROVE  BalancesTold /\ PositionsTold
<1>1. Unreported = {} /\ accounts \in [Users -> Account]
  BY IdleReported DEF Inv, TypeOK
<1>2. \A u \in Users : u # user => accounts'[u] = accounts[u]
  BY <1>1
<1>3. \A u \in Users : accounts'[u].pos = accounts[u].pos
  BY <1>1 DEF Account
<1>4. \A k \in DOMAIN Emitted \ {at} : DOMAIN BalanceNews(Emitted[k]) = {}
  BY OtherNews
<1>5. /\ DOMAIN BalanceNews(Emitted[at]) = {user}
      /\ BalanceNews(Emitted[at])[user] = WalletRow(accounts'[user].bal)
      /\ Emitted[at].event = "balance.updated"
  BY BalanceDraftNews
<1>6. \A k \in DOMAIN Emitted : DOMAIN PositionNews(Emitted[k]) = {}
  BY <1>5, OtherNews
<1>7. BalancesTold
  BY <1>1, <1>2, <1>4, <1>5 DEF BalancesTold
<1>8. PositionsTold
  BY <1>1, <1>3, <1>6 DEF PositionsTold
<1> QED
  BY <1>7, <1>8

LEMMA CreditTold ==
  ASSUME Inv, NEW user \in Users, NEW amount, CreditUser(user, amount), UNCHANGED orders
  PROVE  Told
<1> DEFINE e == BalanceDraft(user)
           b == Credit(accounts[user].bal, amount)
<1>1. /\ Idle /\ UNCHANGED <<taker, bids, asks>>
      /\ accounts' = [accounts EXCEPT ![user].bal = b]
      /\ outs' = <<e>>
  BY DEF CreditUser
<1>2. Idle' /\ Emitted = <<e>>
  BY <1>1, IdleReported
<1>3. e.event = "balance.updated"
  BY BalanceDraftNews
<1> HIDE DEF e, b
<1>4. IsSequence(Emitted) /\ DOMAIN Emitted = {1} /\ Emitted[1] = e
  BY <1>2, OneElement
<1>5. QuietInv'
  BY <1>1, <1>2, <1>4, IdleQuiet
<1>6. BalancesTold /\ PositionsTold
  BY <1>1, <1>4, BalanceKept DEF e
<1>7. \A k \in DOMAIN Emitted : DOMAIN StatusNews(Emitted[k]) = {}
  BY <1>3, <1>4, OtherNews
<1>8. StatusesTold
  BY <1>1, <1>7, BookKept
<1> QED
  BY <1>4, <1>5, <1>6, <1>8 DEF Told

\* A command that only answers with a rejection.
LEMMA RejectionTold ==
  ASSUME Idle, UNCHANGED <<taker, bids, asks, accounts>>,
         NEW order, NEW user, outs' = <<Rejection(order, user)>>,
         \A id \in DOMAIN orders' :
           id # order => id \in DOMAIN orders /\ orders'[id].status = orders[id].status
  PROVE  Told
<1> DEFINE e == Rejection(order, user)
<1>1. Idle' /\ Emitted = <<e>>
  BY IdleReported
<1>2. e.event = "order.rejected" /\ e.order = order
  BY DEF Rejection
<1> HIDE DEF e
<1>3. IsSequence(Emitted) /\ DOMAIN Emitted = {1} /\ Emitted[1] = e
  BY <1>1, OneElement
<1>4. QuietInv'
  BY <1>1, <1>3, IdleQuiet DEF e
<1>5. BalancesTold /\ PositionsTold
  BY <1>2, <1>3, AccountsKept
<1>6. DOMAIN StatusNews(e) = {order} /\ StatusNews(e)[order] = "REJECTED"
  BY <1>2, StatusOf
<1>7. StatusesTold
  BY <1>3, <1>6, BookKept DEF Gone
<1> QED
  BY <1>3, <1>4, <1>5, <1>7 DEF Told

\* A price that is dropped.
LEMMA NothingTold ==
  ASSUME Idle, UNCHANGED <<taker, bids, asks, accounts, orders>>, outs' = <<>>
  PROVE  Told
<1>1. Idle' /\ Emitted = <<>>
  BY IdleReported
<1>2. IsSequence(Emitted) /\ DOMAIN Emitted = {}
  BY <1>1, EmptyIsSequence, EmptySeq
<1>3. QuietInv'
  BY <1>1, <1>2, IdleQuiet
<1>4. BalancesTold /\ PositionsTold
  BY <1>2, AccountsKept
<1>5. StatusesTold
  BY <1>2, BookKept
<1> QED
  BY <1>2, <1>3, <1>4, <1>5 DEF Told

\* A new index price: those it liquidated are told, and nothing of a row
\* changes for the others.
LEMMA MarkKeepsRows ==
  ASSUME NEW a \in Account, NEW mark
  PROVE  /\ MarkToMarket(a, mark).bal = a.bal
         /\ PositionRow(MarkToMarket(a, mark).pos) = PositionRow(a.pos)
BY DEF MarkToMarket, PositionRow, Account, Position

LEMMA IndexPriceTold ==
  ASSUME Inv, NEW seq, NEW price, IndexPrice(seq, price), UNCHANGED orders
  PROVE  Told
<1> DEFINE hit == {u \in Users : IsLiquidatable(accounts[u].pos, price)}
           liq == [event |-> "position.liquidated", users |-> hit, price |-> price]
           e   == AccountDrafts(hit)
<1>1. /\ Idle /\ UNCHANGED <<taker, bids, asks>>
      /\ outs' = IF hit = {} THEN <<>> ELSE <<liq, e>>
      /\ \A u \in Users : u \notin hit => accounts'[u] = MarkToMarket(accounts[u], price)
  BY DEF IndexPrice
<1>2. hit \subseteq Users /\ liq.event = "position.liquidated"
  OBVIOUS
<1> HIDE DEF hit, liq, e
<1>3. Unreported = {} /\ Idle' /\ Emitted = outs'
  BY <1>1, IdleReported
<1>4. accounts \in [Users -> Account]
  BY DEF Inv, TypeOK
<1>5. \A u \in Users : u \notin hit =>
        accounts'[u].bal = accounts[u].bal /\ PositionRow(accounts'[u].pos) = PositionRow(accounts[u].pos)
  BY <1>1, <1>4, MarkKeepsRows
<1>6. CASE hit = {}
  <2>1. IsSequence(Emitted) /\ DOMAIN Emitted = {}
    BY <1>1, <1>3, <1>6, EmptyIsSequence, EmptySeq
  <2>2. QuietInv' /\ StatusesTold
    BY <1>1, <1>3, <2>1, IdleQuiet, BookKept
  <2>3. BalancesTold /\ PositionsTold
    BY <1>3, <1>5, <1>6, <2>1 DEF BalancesTold, PositionsTold
  <2> QED
    BY <2>1, <2>2, <2>3 DEF Told
<1>7. CASE hit # {}
  <2>1. /\ IsSequence(Emitted) /\ DOMAIN Emitted = {1, 2}
        /\ Emitted[1] = liq /\ Emitted[2] = e
    BY <1>1, <1>3, <1>7, TwoElements
  <2>2. /\ e.event = "account.updated"
        /\ DOMAIN BalanceNews(e) = hit /\ DOMAIN PositionNews(e) = hit
        /\ \A u \in hit : /\ BalanceNews(e)[u] = WalletRow(accounts'[u].bal)
                          /\ PositionNews(e)[u] = PositionRow(accounts'[u].pos)
    BY AccountDraftsNews DEF e
  <2>3. /\ DOMAIN BalanceNews(liq) = {} /\ DOMAIN PositionNews(liq) = {}
        /\ DOMAIN StatusNews(liq) = {} /\ DOMAIN StatusNews(e) = {}
    BY <1>2, <2>2, OtherNews
  <2>4. QuietInv' /\ StatusesTold
    BY <1>1, <1>3, <2>1, <2>3, IdleQuiet, BookKept
  <2>5. BalancesTold
    BY <1>3, <1>5, <2>1, <2>2, <2>3 DEF BalancesTold
  <2>6. PositionsTold
    BY <1>3, <1>5, <2>1, <2>2, <2>3 DEF PositionsTold
  <2> QED
    BY <2>1, <2>4, <2>5, <2>6 DEF Told
<1> QED
  BY <1>6, <1>7

\* An order that is cancelled leaves the book and is told.
LEMMA CancelTold ==
  ASSUME Inv, NEW user \in Users, NEW id, NEW side \in Sides, NEW price,
         CancelOrder(user, id, side, price), UNCHANGED orders
  PROVE  Told
<1>1. PICK o \in RestingOrders(Levels(side)) :
        /\ RestingOrders(Levels(side)') = RestingOrders(Levels(side)) \ {o}
        /\ o.id = id /\ Refunded(user, o)
  BY CancelEffect
<1>2. Idle /\ taker' = taker /\ \A other \in Sides \ {side} : Levels(other)' = Levels(other)
  BY CancelEffect
<1>3. PICK delta, cancelled :
        /\ outs' = <<delta, BalanceDraft(user), cancelled>>
        /\ delta.event = "orderbook.delta"
        /\ cancelled.event = "order.cancelled" /\ cancelled.order = id
  BY DEF CancelOrder, DeltaDraft
<1> DEFINE e == BalanceDraft(user)
<1>4. e.event = "balance.updated"
  BY BalanceDraftNews
<1> HIDE DEF e
<1>5. /\ IsSequence(Emitted) /\ DOMAIN Emitted = {1, 2, 3}
      /\ Emitted[1] = delta /\ Emitted[2] = e /\ Emitted[3] = cancelled
  <2>1. Emitted = <<delta, e, cancelled>>
    BY <1>2, <1>3, IdleReported DEF e
  <2> QED
    BY <2>1, ThreeElements
<1>6. QuietInv'
  BY <1>2, <1>5, IdleReported, IdleQuiet
<1>7. BalancesTold /\ PositionsTold
  <2>1. accounts' = [accounts EXCEPT ![user].bal = Release(accounts[user].bal, o.margin)]
    BY <1>1 DEF Refunded
  <2>2. 2 \in DOMAIN Emitted /\ Emitted[2] = BalanceDraft(user)
    BY <1>5 DEF e
  <2>3. \A k \in DOMAIN Emitted \ {2} : Emitted[k].event \notin {"balance.updated", "account.updated"}
    BY <1>3, <1>5
  <2> QED
    BY <1>2, <2>1, <2>2, <2>3, BalanceKept
<1>8. /\ DOMAIN StatusNews(delta) = {} /\ DOMAIN StatusNews(e) = {}
      /\ DOMAIN StatusNews(cancelled) = {id} /\ StatusNews(cancelled)[id] = "CANCELLED"
  BY <1>3, <1>4, OtherNews, StatusOf
<1>9. \A x : x # id => Resting(x)' = Resting(x)
  <2> TAKE x
  <2> HAVE x # id
  <2>1. RestingOrders(bids)' = RestingOrders(bids) \/ RestingOrders(bids)' = RestingOrders(bids) \ {o}
    BY <1>1, <1>2, SidesOfBook
  <2>2. RestingOrders(asks)' = RestingOrders(asks) \/ RestingOrders(asks)' = RestingOrders(asks) \ {o}
    BY <1>1, <1>2, SidesOfBook
  <2> QED
    BY <1>1, <2>1, <2>2 DEF Resting
<1>10. StatusesTold
  BY <1>2, <1>5, <1>8, <1>9, IdleReported DEF StatusesTold, Gone
<1> QED
  BY <1>5, <1>6, <1>7, <1>10 DEF Told

-----------------------------------------------------------------------------
(* Matching *)

LEMMA BeginMatchTold ==
  ASSUME Inv, Rows, NEW o \in OrderInput, BeginMatch(o),
         NEW row, orders' = Append(orders, row)
  PROVE  Told
<1>1. /\ Idle /\ UNCHANGED <<bids, asks>>
      /\ accounts' = [accounts EXCEPT ![o.user].bal = Lock(@, o.margin)]
      /\ taker'.id = orderCount + 1 /\ taker'.order = o
      /\ taker'.affected = {o.user} /\ taker'.reports = <<>>
      /\ outs' = <<>>
  BY DEF BeginMatch
<1>2. orderCount \in Nat /\ accounts \in [Users -> Account]
  BY HorizonType DEF Inv, TypeOK
<1>3. taker' # NoTaker /\ ~Idle'
  BY <1>1, <1>2 DEF NoTaker, Idle
<1>4. IsSequence(Emitted) /\ DOMAIN Emitted = {} /\ IsSequence(outs') /\ DOMAIN outs' = {}
  BY <1>1, <1>3, EmptyIsSequence, EmptySeq DEF Emitted
<1>5. DOMAIN taker'.reports = {}
  BY <1>1, EmptySeq
<1>6. QuietInv'
  BY <1>1, <1>3, <1>4, <1>5 DEF QuietInv
<1>7. Unreported' = {o.user} /\ Unreported = {} /\ Undecided = {} /\ orderCount + 1 \in Undecided'
  BY <1>1, <1>3 DEF Unreported, Undecided, Idle
<1>8. BalancesTold /\ PositionsTold
  <2>1. \A u \in Users \ {o.user} : accounts'[u] = accounts[u]
    BY <1>1, <1>2
  <2> QED
    BY <1>4, <1>7, <2>1 DEF BalancesTold, PositionsTold
<1>9. StatusesTold
  <2>1. IsSequence(orders) /\ Len(orders) = orderCount /\ DOMAIN orders = 1..orderCount
    BY SequenceLength DEF Rows
  <2>2. /\ Len(Append(orders, row)) = orderCount + 1
        /\ IsSequence(Append(orders, row))
        /\ \A k \in 1..orderCount : Append(orders, row)[k] = orders[k]
    BY <2>1, AppendedSequence
  <2>3. DOMAIN orders' = 1..(orderCount + 1)
    BY <2>2, SequenceLength
  <2>4. \A id \in DOMAIN orders' \ Undecided' :
          id \in DOMAIN orders \ Undecided /\ orders'[id].status = orders[id].status
    BY <1>2, <1>7, <2>1, <2>2, <2>3
  <2>5. \A id : Resting(id)' = Resting(id)
    BY <1>1 DEF Resting
  <2> QED
    BY <1>4, <2>4, <2>5 DEF StatusesTold
<1> QED
  BY <1>4, <1>6, <1>8, <1>9 DEF Told

LEMMA JoinedSets ==
  ASSUME NEW s, NEW t, IsSequence(s), IsSequence(t)
  PROVE  IsSequence(s \o t) /\ ToSet(s \o t) = ToSet(s) \cup ToSet(t)
<1>1. /\ IsSequence(s \o t) /\ Len(s \o t) = Len(s) + Len(t)
      /\ \A k \in 1..Len(s) : (s \o t)[k] = s[k]
      /\ \A k \in 1..Len(t) : (s \o t)[Len(s) + k] = t[k]
  BY JoinedSequences
<1>2. /\ Len(s) \in Nat /\ DOMAIN s = 1..Len(s)
      /\ Len(t) \in Nat /\ DOMAIN t = 1..Len(t)
      /\ DOMAIN (s \o t) = 1..(Len(s) + Len(t))
  BY <1>1, SequenceLength
<1>3. \A e \in ToSet(s) : e \in ToSet(s \o t)
  BY <1>1, <1>2 DEF ToSet
<1>4. ASSUME NEW e \in ToSet(t) PROVE e \in ToSet(s \o t)
  <2>1. PICK k \in 1..Len(t) : t[k] = e
    BY <1>2, <1>4 DEF ToSet
  <2>2. Len(s) + k \in 1..(Len(s) + Len(t)) /\ (s \o t)[Len(s) + k] = e
    BY <1>1, <1>2, <2>1
  <2> QED
    BY <1>2, <2>2 DEF ToSet
<1>5. ASSUME NEW e \in ToSet(s \o t) PROVE e \in ToSet(s) \cup ToSet(t)
  <2>1. PICK k \in 1..(Len(s) + Len(t)) : (s \o t)[k] = e
    BY <1>2, <1>5 DEF ToSet
  <2>2. CASE k <= Len(s)
    BY <1>1, <1>2, <2>1, <2>2 DEF ToSet
  <2>3. CASE k > Len(s)
    <3>1. k - Len(s) \in 1..Len(t) /\ Len(s) + (k - Len(s)) = k
      BY <1>2, <2>3
    <3>2. t[k - Len(s)] = e
      BY <1>1, <2>1, <3>1
    <3> QED
      BY <1>2, <3>1, <3>2 DEF ToSet
  <2> QED
    BY <1>2, <2>2, <2>3
<1> QED
  BY <1>1, <1>3, <1>4, <1>5

\* An iteration of the loop adds its trade and its delta to what the command
\* will say, and nothing of the accounts yet: whom it touched is to be reported.
LEMMA FillTold ==
  ASSUME Inv, Rows, QuietInv, Fill, UNCHANGED orders
  PROVE  Told
<1>1. ~Idle /\ taker \in TakerState /\ taker.id = orderCount /\ orderCount \in Nat \ {0}
  <2>1. ~Idle
    BY DEF Fill
  <2>2. taker \in TakerState
    BY <2>1 DEF Idle, Inv, TypeOK
  <2>3. taker.id = orderCount /\ orderCount > 0
    BY <2>1 DEF Inv, TakerInv
  <2> QED
    BY <2>1, <2>2, <2>3, HorizonType
<1>2. PICK side \in Sides : side = Opposite(taker.order.side)
  BY DEF Sides, Opposite
<1>3. PICK maker \in RestingOrders(Levels(side)) :
        \E after : Filled(side, maker, after) /\ Settled(maker, after)
  BY <1>2, FillEffect
<1> DEFINE report == MakerReport(maker, Least(taker.remaining, maker.remaining))
<1>4. report.order = maker.id /\ report.status \in {"PARTIAL", "FILLED"}
  BY DEF MakerReport
<1> HIDE DEF report
<1>5. /\ taker'.id = taker.id /\ taker'.order = taker.order
      /\ taker'.affected = taker.affected \cup {maker.user}
      /\ taker'.reports = Append(taker.reports, report)
  BY <1>1, <1>3 DEF Filled, TakerState, report
<1>6. ~Idle' /\ Emitted = <<>>
  BY <1>1, <1>5 DEF Idle, NoTaker, Emitted
<1>7. IsSequence(Emitted) /\ DOMAIN Emitted = {}
  BY <1>6, EmptyIsSequence, EmptySeq
<1>8. IsSequence(taker.reports) /\ Len(taker.reports) \in Nat /\ DOMAIN taker.reports = 1..Len(taker.reports)
  BY <1>1, SequenceIn, SequenceLength DEF TakerState
<1>9. /\ DOMAIN taker'.reports = 1..(Len(taker.reports) + 1)
      /\ taker'.reports[Len(taker.reports) + 1] = report
      /\ \A i \in 1..Len(taker.reports) : taker'.reports[i] = taker.reports[i]
  BY <1>5, <1>8, AppendedSequence, SequenceLength
<1>10. IsSequence(outs') /\ \A k \in DOMAIN outs' : outs'[k].event \in {"trade.executed", "orderbook.delta"}
  <2> DEFINE level     == Head(Levels(Opposite(taker.order.side)))
             first     == Head(level.orders)
             quantity  == Least(taker.remaining, first.remaining)
             part      == RoundDiv(quantity * first.margin, first.remaining)
             served    == AfterFill(level.orders, FillMaker(first, quantity, part))
             levels    == SetOrders(Levels(Opposite(taker.order.side)), 1, served)
             done      == served = <<>> \/ quantity = taker.remaining
             trade     == [event |-> "trade.executed", maker |-> first.id, taker |-> taker.id,
                           makerUser |-> first.user, takerUser |-> taker.order.user,
                           price |-> first.price, quantity |-> quantity, side |-> taker.order.side]
             delta     == DeltaDraft(Opposite(taker.order.side), level.price, levels)
             more      == IF done THEN <<delta>> ELSE <<>>
  <2>1. outs' = outs \o <<trade>> \o more /\ trade.event = "trade.executed"
    BY DEF Fill
  <2>2. delta.event = "orderbook.delta"
    BY DEF DeltaDraft
  <2> HIDE DEF delta, trade, done
  <2>3. IsSequence(outs) /\ \A k \in DOMAIN outs : outs[k].event \in {"trade.executed", "orderbook.delta"}
    BY <1>1 DEF QuietInv
  <2>4. IsSequence(<<trade>>) /\ ToSet(<<trade>>) = {trade}
    BY OneElement
  <2>5. IsSequence(more) /\ \A e \in ToSet(more) : e.event = "orderbook.delta"
    <3>1. CASE done
      <4>1. more = <<delta>>
        BY <3>1
      <4> QED
        BY <2>2, <4>1, OneElement
    <3>2. CASE ~done
      <4>1. more = <<>>
        BY <3>2
      <4> QED
        BY <4>1, EmptyIsSequence, EmptySeq DEF ToSet
    <3> QED
      BY <3>1, <3>2
  <2> HIDE DEF more
  <2>6. IsSequence(outs \o <<trade>>) /\ ToSet(outs \o <<trade>>) = ToSet(outs) \cup {trade}
    BY <2>3, <2>4, JoinedSets
  <2>7. IsSequence(outs') /\ ToSet(outs') = ToSet(outs) \cup {trade} \cup ToSet(more)
    BY <2>1, <2>5, <2>6, JoinedSets
  <2>8. \A e \in ToSet(outs') : e.event \in {"trade.executed", "orderbook.delta"}
    BY <2>1, <2>3, <2>5, <2>7 DEF ToSet
  <2> QED
    BY <2>7, <2>8 DEF ToSet
<1>11. QuietInv'
  <2>1. \A i \in DOMAIN taker.reports : taker.reports[i].status \in {"PARTIAL", "FILLED"}
    BY <1>1 DEF QuietInv
  <2>2. \A i \in DOMAIN taker'.reports : taker'.reports[i].status \in {"PARTIAL", "FILLED"}
    BY <1>4, <1>8, <1>9, <2>1
  <2>3. taker'.order.user \in taker'.affected
    BY <1>1, <1>5 DEF QuietInv
  <2> QED
    BY <1>10, <2>2, <2>3 DEF QuietInv
<1>12. Unreported = taker.affected /\ Unreported' = taker.affected \cup {maker.user}
  BY <1>1, <1>5, <1>6 DEF Unreported
<1>13. BalancesTold /\ PositionsTold
  <2>1. taker.order.user \in taker.affected
    BY <1>1 DEF QuietInv
  <2>2. \A u \in Users : u # maker.user /\ u # taker.order.user => accounts'[u] = accounts[u]
    <3>1. accounts \in [Users -> Account]
      BY DEF Inv, TypeOK
    <3> QED
      BY <1>3, <3>1 DEF Settled
  <2>3. \A u \in Users \ Unreported' : u \notin Unreported /\ accounts'[u] = accounts[u]
    BY <1>12, <2>1, <2>2
  <2> QED
    BY <1>7, <2>3 DEF BalancesTold, PositionsTold
<1>14. maker.id \in Undecided' /\ Undecided \subseteq Undecided'
  <2>1. /\ Undecided = {taker.id} \cup {taker.reports[i].order : i \in DOMAIN taker.reports}
        /\ Undecided' = {taker'.id} \cup {taker'.reports[i].order : i \in DOMAIN taker'.reports}
    BY <1>1, <1>6 DEF Undecided
  <2>2. Len(taker.reports) + 1 \in DOMAIN taker'.reports
    BY <1>8, <1>9
  <2>3. \A i \in DOMAIN taker.reports : i \in DOMAIN taker'.reports /\ taker'.reports[i] = taker.reports[i]
    BY <1>8, <1>9
  <2> QED
    BY <1>4, <1>5, <1>9, <2>1, <2>2, <2>3
<1>15. \A x : x # maker.id => Resting(x)' = Resting(x)
  <2> TAKE x
  <2> HAVE x # maker.id
  <2>1. PICK after :
        /\ after.id = maker.id
        /\ RestingOrders(Levels(side)') =
             (RestingOrders(Levels(side)) \ {maker}) \cup {o \in {after} : o.remaining > 0}
        /\ \A other \in Sides \ {side} : Levels(other)' = Levels(other)
    BY <1>3 DEF Filled
  <2>2. \A s \in Sides : \A o : o.id = x =>
          (o \in RestingOrders(Levels(s)') <=> o \in RestingOrders(Levels(s)))
    BY <2>1
  <2> QED
    BY <2>2, SidesOfBook DEF Resting
<1>16. StatusesTold
  BY <1>7, <1>14, <1>15 DEF StatusesTold
<1> QED
  BY <1>7, <1>11, <1>13, <1>16 DEF Told

\* The events that close a match: what was said before, perhaps a level, every
\* maker's report, the accounts of everyone it touched and the taker's report.
LEMMA ClosingSets ==
  ASSUME Inv, QuietInv, ~Idle, NEW status
  PROVE  /\ IsSequence(Closing(status))
         /\ ToSet(Closing(status)) =
              ToSet(taker.reports) \cup {AccountDrafts(taker.affected), TakerReport(status)}
<1>1. IsSequence(taker.reports)
  BY SequenceIn DEF Inv, TypeOK, TakerState, Idle
<1> DEFINE last == <<AccountDrafts(taker.affected), TakerReport(status)>>
<1>2. /\ IsSequence(last)
      /\ ToSet(last) = {AccountDrafts(taker.affected), TakerReport(status)}
  BY TwoElements
<1>3. Closing(status) = taker.reports \o last
  BY DEF Closing
<1> HIDE DEF last
<1> QED
  BY <1>1, <1>2, <1>3, JoinedSets

\* Whatever the last status is, the events that close a match say what they must
\* if an order that is said to be open rests.
LEMMA ClosingTold ==
  ASSUME Inv, QuietInv, ~Idle, Idle', UNCHANGED orders,
         NEW before, IsSequence(before),
         \A e \in ToSet(before) : e.event \in {"trade.executed", "orderbook.delta"},
         NEW status, status \in Status, outs' = before \o Closing(status),
         NEW t, t = taker.id, status = "OPEN" => Resting(t)' # {},
         \A x : Resting(x) \subseteq Resting(x)',
         \A u \in Users : u # taker.order.user => accounts'[u] = accounts[u]
  PROVE  Told
<1> DEFINE drafts == AccountDrafts(taker.affected)
           own    == TakerReport(status)
<1>1. /\ IsSequence(Emitted) /\ IsSequence(outs')
      /\ ToSet(Emitted) = ToSet(before) \cup ToSet(taker.reports) \cup {drafts, own}
  BY ClosingSets, JoinedSets DEF Emitted, Idle
<1>2. /\ drafts.event = "account.updated"
      /\ DOMAIN BalanceNews(drafts) = taker.affected
      /\ DOMAIN PositionNews(drafts) = taker.affected
      /\ \A u \in taker.affected :
           /\ BalanceNews(drafts)[u] = WalletRow(accounts'[u].bal)
           /\ PositionNews(drafts)[u] = PositionRow(accounts'[u].pos)
  BY AccountDraftsNews
<1>3. own.event = "order.accepted" /\ own.order = taker.id /\ own.status = status
  BY DEF TakerReport
<1> HIDE DEF drafts, own
<1>4. \A e \in ToSet(taker.reports) : e.event = "order.accepted" /\ e.status \in {"PARTIAL", "FILLED"}
  <2>1. taker.reports \in Seq(Report)
    BY DEF Inv, TypeOK, TakerState, Idle
  <2>2. \A i \in DOMAIN taker.reports : taker.reports[i] \in Report
    BY <2>1
  <2>3. \A i \in DOMAIN taker.reports : taker.reports[i].event = "order.accepted"
    BY <2>2 DEF Report
  <2> QED
    BY <2>3 DEF QuietInv, ToSet
<1>5. \A e \in ToSet(Emitted) \ {drafts} : DOMAIN BalanceNews(e) = {} /\ DOMAIN PositionNews(e) = {}
  <2> TAKE e \in ToSet(Emitted) \ {drafts}
  <2>1. e.event \in {"trade.executed", "orderbook.delta", "order.accepted"}
    BY <1>1, <1>3, <1>4
  <2> QED
    BY <2>1, OtherNews
<1>6. Unreported = taker.affected /\ Unreported' = {} /\ Undecided' = {}
      /\ Undecided = {taker.id} \cup {taker.reports[i].order : i \in DOMAIN taker.reports}
  BY DEF Unreported, Undecided
<1>7. PICK at \in DOMAIN Emitted : Emitted[at] = drafts
  BY <1>1 DEF ToSet
<1>8. \A k \in DOMAIN Emitted : Emitted[k] \in ToSet(Emitted)
  BY DEF ToSet
<1>9. \A u \in Users \ taker.affected : accounts'[u] = accounts[u]
  BY DEF QuietInv
<1>10. BalancesTold
  BY <1>2, <1>5, <1>6, <1>7, <1>8, <1>9 DEF BalancesTold
<1>11. PositionsTold
  BY <1>2, <1>5, <1>6, <1>7, <1>8, <1>9 DEF PositionsTold
<1>12. QuietInv'
  BY <1>1, IdleQuiet
<1>13. ASSUME NEW id \in DOMAIN orders' \ Undecided', Resting(id)' = {}
       PROVE  /\ \A k \in DOMAIN Emitted :
                   id \in DOMAIN StatusNews(Emitted[k]) => StatusNews(Emitted[k])[id] \in Gone
              /\ \/ \E k \in DOMAIN Emitted : id \in DOMAIN StatusNews(Emitted[k])
                 \/ /\ id \in DOMAIN orders \ Undecided /\ Resting(id) = {}
                    /\ orders'[id].status = orders[id].status
  <2>1. ASSUME NEW e \in ToSet(Emitted), id \in DOMAIN StatusNews(e)
        PROVE  StatusNews(e)[id] \in Gone
    <3>1. CASE e \in ToSet(before)
      BY <2>1, <3>1, OtherNews
    <3>2. CASE e \in ToSet(taker.reports)
      <4>1. StatusNews(e)[id] = RowStatus(e.status)
        BY <1>4, <2>1, <3>2, StatusOf
      <4> QED
        BY <1>4, <3>2, <4>1 DEF RowStatus, Gone
    <3>3. CASE e = drafts
      BY <1>2, <2>1, <3>3, OtherNews
    <3>4. CASE e = own
      <4>1. id = t /\ StatusNews(e)[id] = RowStatus(status)
        BY <1>3, <2>1, <3>4, StatusOf
      <4>2. status # "OPEN"
        BY <1>13, <4>1
      <4> QED
        BY <4>1, <4>2 DEF RowStatus, Gone, Status
    <3> QED
      BY <1>1, <2>1, <3>1, <3>2, <3>3, <3>4
  <2>2. CASE id \in Undecided
    <3>1. PICK e \in ToSet(Emitted) : e.event = "order.accepted" /\ e.order = id
      <4>1. CASE id = taker.id
        BY <1>1, <1>3, <4>1
      <4>2. CASE id # taker.id
        <5>1. PICK i \in DOMAIN taker.reports : taker.reports[i].order = id
          BY <1>6, <2>2, <4>2
        <5>2. taker.reports[i] \in ToSet(taker.reports)
          BY <5>1 DEF ToSet
        <5> QED
          BY <1>1, <1>4, <5>1, <5>2
      <4> QED
        BY <4>1, <4>2
    <3>2. id \in DOMAIN StatusNews(e)
      BY <3>1, StatusOf
    <3>3. \E k \in DOMAIN Emitted : Emitted[k] = e
      BY <3>1 DEF ToSet
    <3> QED
      BY <1>8, <2>1, <3>2, <3>3
  <2>3. CASE id \notin Undecided
    BY <1>8, <1>13, <2>1, <2>3
  <2> QED
    BY <2>2, <2>3
<1>14. StatusesTold
  BY <1>13 DEF StatusesTold
<1> QED
  BY <1>1, <1>10, <1>11, <1>12, <1>14 DEF Told

LEMMA EndMatchTold ==
  ASSUME Inv, QuietInv, EndMatch, UNCHANGED orders
  PROVE  Told
<1>1. ~Idle /\ Idle' /\ taker.order.side \in Sides
  BY TakerSides DEF EndMatch, Idle
<1>2. PICK side \in Sides : side = taker.order.side
  BY <1>1
<1> DEFINE limit == taker.order.type = "LIMIT" /\ taker.remaining > 0
<1>3. \/ /\ limit
         /\ \E rest \in Older(orderCount + 1) :
              /\ rest.id = taker.id
              /\ RestingOrders(Levels(side)') = RestingOrders(Levels(side)) \cup {rest}
         /\ \A other \in Sides \ {side} : Levels(other)' = Levels(other)
      \/ ~limit /\ UNCHANGED <<bids, asks>>
  BY <1>2, EndMatchEffect
<1>4. IsSequence(outs) /\ \A e \in ToSet(outs) : e.event \in {"trade.executed", "orderbook.delta"}
  BY <1>1 DEF QuietInv, ToSet
<1>5. \A x : Resting(x) \subseteq Resting(x)'
  <2> TAKE x
  <2>1. \A s \in Sides : RestingOrders(Levels(s)) \subseteq RestingOrders(Levels(s)')
    BY <1>3, SidesOfBook
  <2> QED
    BY <2>1, SidesOfBook DEF Resting
<1> HIDE DEF limit
<1>6. PICK t : t = taker.id
  OBVIOUS
<1>7. limit => Resting(t)' # {}
  <2> HAVE limit
  <2>1. PICK rest \in RestingOrders(Levels(side)') : rest.id = t
    BY <1>3, <1>6
  <2> QED
    BY <2>1, SidesOfBook DEF Resting
<1>8. \A u \in Users : u # taker.order.user => accounts'[u] = accounts[u]
  <2>1. accounts \in [Users -> Account]
    BY DEF Inv, TypeOK
  <2> QED
    BY <2>1 DEF EndMatch
<1>9. taker.order.type = "LIMIT" \/ taker.order.type = "MARKET"
  <2>1. taker.order \in OrderInput
    BY <1>1 DEF Inv, TypeOK, Idle, TakerState
  <2> QED
    BY <2>1, OrderInputType
<1>10. CASE limit
  <2> DEFINE delta  == DeltaDraft(taker.order.side, taker.order.price,
                         InsertResting(Levels(taker.order.side),
                           [id |-> taker.id, user |-> taker.order.user, side |-> taker.order.side,
                            price |-> taker.order.price, quantity |-> taker.remaining,
                            remaining |-> taker.remaining, leverage |-> taker.order.leverage,
                            margin |-> MarginShare(taker.order, taker.remaining)]))
             before == outs \o <<delta>>
             status == Partly("OPEN")
  <2>1. outs' = before \o Closing(status)
    BY <1>10 DEF EndMatch, limit
  <2>2. delta.event = "orderbook.delta"
    BY DEF DeltaDraft
  <2>3. status \in Status
    BY DEF Partly, Status
  <2> HIDE DEF delta, status
  <2>4. IsSequence(<<delta>>) /\ ToSet(<<delta>>) = {delta}
    BY OneElement
  <2>5. IsSequence(before) /\ ToSet(before) = ToSet(outs) \cup {delta}
    BY <1>4, <2>4, JoinedSets
  <2> HIDE DEF before
  <2>6. \A e \in ToSet(before) : e.event \in {"trade.executed", "orderbook.delta"}
    BY <1>4, <2>2, <2>5
  <2> QED
    BY <1>1, <1>5, <1>7, <1>8, <1>10, <1>6, <2>1, <2>3, <2>5, <2>6, ClosingTold
<1>11. CASE ~limit
  <2>1. PICK status \in {"PARTIAL", "CANCELLED", "FILLED"} : outs' = outs \o Closing(status)
    BY <1>9, <1>11 DEF EndMatch, Partly, limit
  <2>2. status \in Status /\ status # "OPEN"
    BY DEF Status
  <2> QED
    BY <1>1, <1>4, <1>5, <1>8, <1>6, <2>1, <2>2, ClosingTold
<1> QED
  BY <1>10, <1>11

-----------------------------------------------------------------------------
(* Events that join the queue *)

LEMMA StreamEmitted ==
  ASSUME StreamInv, IsSequence(Emitted), Emit
  PROVE  StreamInv'
<1> DEFINE n == Len(queue)
           m == Len(Emitted)
<1>1. /\ IsSequence(queue) /\ published \in Nat /\ n <= published
      /\ \A k \in DOMAIN queue : queue[k].id = published - n + k
      /\ processed = 1..(published - n)
      /\ \A d \in unacked : d.id \in processed
      /\ putOff = 0
  BY DEF StreamInv
<1>2. n \in Nat /\ DOMAIN queue = 1..n
  BY <1>1, SequenceLength
<1>3. /\ m \in Nat /\ IsSequence(queue') /\ Len(queue') = n + m
      /\ \A k \in 1..n : queue'[k] = queue[k]
      /\ \A k \in 1..m : queue'[n + k] = [id |-> published + k, event |-> Emitted[k]]
      /\ published' = published + m
      /\ UNCHANGED <<processed, unacked, putOff>>
  BY <1>1, Published
<1> HIDE DEF n, m
<1>4. DOMAIN queue' = 1..(n + m)
  BY <1>3, SequenceLength
<1>5. ASSUME NEW k \in DOMAIN queue' PROVE queue'[k].id = published' - Len(queue') + k
  <2>1. published' - Len(queue') = published - n
    BY <1>1, <1>2, <1>3
  <2>2. CASE k \in 1..n
    BY <1>1, <1>2, <1>3, <2>1, <2>2
  <2>3. CASE k \notin 1..n
    <3>1. k - n \in 1..m /\ n + (k - n) = k
      BY <1>2, <1>3, <1>4, <2>3
    <3>2. PICK j \in 1..m : k = n + j
      BY <3>1
    <3>3. queue'[k].id = published + j
      <4>1. queue'[n + j] = [id |-> published + j, event |-> Emitted[j]]
        BY <1>3
      <4> QED
        BY <3>2, <4>1
    <3> QED
      BY <1>1, <1>2, <1>3, <2>1, <3>2, <3>3
  <2> QED
    BY <2>2, <2>3
<1>6. published' - Len(queue') = published - n /\ Len(queue') <= published' /\ published' \in Nat
  BY <1>1, <1>2, <1>3
<1> QED
  BY <1>1, <1>3, <1>5, <1>6 DEF StreamInv

\* A step of the engine whose events say what they must.
LEMMA ToldInv ==
  ASSUME ProjectionInv, Told, Emit, Deposited, Rows'
  PROVE  ProjectionInv'
<1>1. IsSequence(queue) /\ published \in Nat /\ IsSequence(Emitted)
  BY DEF ProjectionInv, StreamInv, Told
<1>2. StreamInv'
  BY <1>1, StreamEmitted DEF ProjectionInv
<1>3. WalletInv' /\ PositionInv' /\ GoneInv'
  BY <1>1, WalletsEmitted, PositionsEmitted, StatusesEmitted DEF ProjectionInv, Told
<1> QED
  BY <1>2, <1>3 DEF ProjectionInv, Told

-----------------------------------------------------------------------------
(* Events that are projected *)

LEMMA ExceptSequence ==
  ASSUME NEW s, IsSequence(s), NEW i, NEW v
  PROVE  /\ IsSequence([s EXCEPT ![i] = v]) /\ Len([s EXCEPT ![i] = v]) = Len(s)
         /\ DOMAIN [s EXCEPT ![i] = v] = DOMAIN s
<1> DEFINE S == {s[k] : k \in DOMAIN s} \cup {v}
           t == [s EXCEPT ![i] = v]
<1>1. Len(s) \in Nat /\ DOMAIN s = 1..Len(s) /\ s \in [1..Len(s) -> S]
  <2>1. s \in Seq({s[k] : k \in DOMAIN s})
    BY DEF IsSequence
  <2>2. Len(s) \in Nat /\ DOMAIN s = 1..Len(s) /\ s \in [1..Len(s) -> {s[k] : k \in DOMAIN s}]
    BY <2>1, LenProperties
  <2> QED
    BY <2>2
<1>2. v \in S
  OBVIOUS
<1> HIDE DEF S
<1>3. t \in [1..Len(s) -> S] /\ DOMAIN t = DOMAIN s
  BY <1>1, <1>2
<1>4. t \in Seq(S)
  BY <1>1, <1>3, SeqDef
<1> HIDE DEF t
<1>5. Len(t) \in Nat /\ DOMAIN t = 1..Len(t) /\ IsSequence(t)
  BY <1>4, LenProperties, SequenceIn
<1>6. Len(t) = Len(s)
  BY <1>1, <1>3, <1>5
<1> QED
  BY <1>3, <1>5, <1>6 DEF t

Columns == {"user", "quantity", "status", "filledQuantity"}

\* The row of one order is written.
LEMMA RowWritten ==
  ASSUME Rows, NEW order, NEW row, DOMAIN row = Columns,
         orders' = [orders EXCEPT ![order] = row],
         order \in DOMAIN orders =>
           row.user = orders[order].user /\ row.quantity = orders[order].quantity
  PROVE  /\ IsSequence(orders') /\ Len(orders') = Len(orders) /\ DOMAIN orders' = DOMAIN orders
         /\ \A id \in DOMAIN orders :
              /\ DOMAIN orders'[id] = Columns /\ orders'[id].user = orders[id].user
              /\ orders'[id].quantity = orders[id].quantity
         /\ \A id \in DOMAIN orders :
              orders'[id].status = IF id = order THEN row.status ELSE orders[id].status
<1>1. IsSequence(orders) /\ \A id \in DOMAIN orders : DOMAIN orders[id] = Columns
  BY DEF Rows, Columns
<1>2. IsSequence(orders') /\ Len(orders') = Len(orders) /\ DOMAIN orders' = DOMAIN orders
  BY <1>1, ExceptSequence
<1>3. \A id \in DOMAIN orders : orders'[id] = IF id = order THEN row ELSE orders[id]
  BY <1>1 DEF IsSequence
<1> QED
  BY <1>1, <1>2, <1>3

\* What an event makes of the rows is what it is news of.
LEMMA EventApplied ==
  ASSUME Rows, NEW e, ApplyEvent(e)
  PROVE  /\ DOMAIN wallets' = Users /\ DOMAIN positions' = Users
         /\ \A u \in Users :
              /\ wallets'[u] = IF u \in DOMAIN BalanceNews(e) THEN BalanceNews(e)[u] ELSE wallets[u]
              /\ positions'[u] =
                   IF u \in DOMAIN PositionNews(e) THEN PositionNews(e)[u] ELSE positions[u]
         /\ IsSequence(orders') /\ Len(orders') = Len(orders) /\ DOMAIN orders' = DOMAIN orders
         /\ \A id \in DOMAIN orders :
              /\ DOMAIN orders'[id] = Columns /\ orders'[id].user = orders[id].user
              /\ orders'[id].quantity = orders[id].quantity
              /\ orders'[id].status =
                   IF id \in DOMAIN StatusNews(e) THEN StatusNews(e)[id] ELSE orders[id].status
<1> DEFINE OrdersKept == orders' = orders /\ DOMAIN StatusNews(e) = {}
           RowsKept   == UNCHANGED <<wallets, positions>>
                         /\ DOMAIN BalanceNews(e) = {} /\ DOMAIN PositionNews(e) = {}
           Balances   == \A u \in Users : wallets'[u] =
                           IF u \in DOMAIN BalanceNews(e) THEN BalanceNews(e)[u] ELSE wallets[u]
           Positions  == \A u \in Users : positions'[u] =
                           IF u \in DOMAIN PositionNews(e) THEN PositionNews(e)[u] ELSE positions[u]
           Statuses   == /\ IsSequence(orders') /\ Len(orders') = Len(orders) /\ DOMAIN orders' = DOMAIN orders
                         /\ \A id \in DOMAIN orders :
                              /\ DOMAIN orders'[id] = Columns /\ orders'[id].user = orders[id].user
                              /\ orders'[id].quantity = orders[id].quantity
                              /\ orders'[id].status =
                                   IF id \in DOMAIN StatusNews(e) THEN StatusNews(e)[id]
                                   ELSE orders[id].status
           Tables     == DOMAIN wallets' = Users /\ DOMAIN positions' = Users
<1>1. /\ DOMAIN wallets = Users /\ DOMAIN positions = Users /\ IsSequence(orders)
      /\ \A id \in DOMAIN orders : DOMAIN orders[id] = Columns
  BY DEF Rows, Columns
<1>2. ASSUME OrdersKept PROVE Statuses
  BY <1>1, <1>2
<1>3. ASSUME RowsKept PROVE Balances /\ Positions /\ Tables
  BY <1>1, <1>3
<1>4. CASE OrderAccepted(e)
  <2> DEFINE row == [orders[e.order] EXCEPT !.status = RowStatus(e.status), !.filledQuantity = e.filled]
  <2>1. e.event = "order.accepted" /\ UNCHANGED <<wallets, positions>>
        /\ orders' = [orders EXCEPT ![e.order] = row]
    BY <1>4 DEF OrderAccepted
  <2>2. RowsKept
    BY <2>1, OtherNews
  <2>3. DOMAIN StatusNews(e) = {e.order} /\ StatusNews(e)[e.order] = RowStatus(e.status)
    BY <2>1, StatusOf
  <2>4. Statuses
    <3>1. CASE e.order \in DOMAIN orders
      <4>1. /\ DOMAIN row = Columns /\ row.user = orders[e.order].user
            /\ row.quantity = orders[e.order].quantity /\ row.status = RowStatus(e.status)
        BY <1>1, <3>1 DEF Columns
      <4> HIDE DEF row
      <4>2. /\ IsSequence(orders') /\ Len(orders') = Len(orders) /\ DOMAIN orders' = DOMAIN orders
            /\ \A id \in DOMAIN orders :
                 /\ DOMAIN orders'[id] = Columns /\ orders'[id].user = orders[id].user
                 /\ orders'[id].quantity = orders[id].quantity
            /\ \A id \in DOMAIN orders :
                 orders'[id].status = IF id = e.order THEN row.status ELSE orders[id].status
        BY <2>1, <4>1, RowWritten
      <4> QED
        BY <2>3, <4>1, <4>2
    <3>2. CASE e.order \notin DOMAIN orders
      <4>1. orders' = orders
        BY <1>1, <2>1, <3>2 DEF IsSequence
      <4> QED
        BY <1>1, <2>3, <3>2, <4>1
    <3> QED
      BY <3>1, <3>2
  <2> QED
    BY <1>3, <2>2, <2>4
<1>5. ASSUME NEW status, DOMAIN StatusNews(e) = {e.order}, StatusNews(e)[e.order] = status,
             SetStatus(e.order, status)
      PROVE  Statuses
  <2> DEFINE row == [orders[e.order] EXCEPT !.status = status]
  <2>1. orders' = [orders EXCEPT ![e.order] = row]
    BY <1>5 DEF SetStatus
  <2>2. CASE e.order \in DOMAIN orders
    <3>1. /\ DOMAIN row = Columns /\ row.user = orders[e.order].user
          /\ row.quantity = orders[e.order].quantity /\ row.status = status
      BY <1>1, <2>2 DEF Columns
    <3> HIDE DEF row
    <3> QED
      BY <1>5, <2>1, <3>1, RowWritten
  <2>3. CASE e.order \notin DOMAIN orders
    <3>1. orders' = orders
      BY <1>1, <2>1, <2>3 DEF IsSequence
    <3> QED
      BY <1>1, <1>5, <2>3, <3>1
  <2> QED
    BY <2>2, <2>3
<1>6. CASE OrderRejected(e) \/ OrderCancelled(e)
  <2>1. e.event \in {"order.rejected", "order.cancelled"} /\ UNCHANGED <<wallets, positions>>
        /\ SetStatus(e.order, IF e.event = "order.rejected" THEN "REJECTED" ELSE "CANCELLED")
    BY <1>6 DEF OrderRejected, OrderCancelled
  <2>2. RowsKept
    BY <2>1, OtherNews
  <2>3. Statuses
    BY <1>5, <2>1, StatusOf
  <2> QED
    BY <1>3, <2>2, <2>3
<1>7. CASE TradeExecuted(e) \/ OtherEvent(e)
  <2>1. e.event \in {"trade.executed", "orderbook.delta", "position.liquidated"}
        /\ UNCHANGED <<orders, wallets, positions>>
    BY <1>7 DEF TradeExecuted, OtherEvent
  <2> QED
    BY <1>2, <1>3, <2>1, OtherNews
<1>8. CASE BalanceUpdated(e)
  <2>1. e.event = "balance.updated" /\ UNCHANGED <<orders, positions>>
        /\ wallets' = [wallets EXCEPT ![e.user] = WalletRow(e.bal)]
    BY <1>8 DEF BalanceUpdated
  <2>2. BalanceNews(e) = [u \in {e.user} |-> WalletRow(e.bal)]
    BY <2>1 DEF BalanceNews
  <2>3. DOMAIN PositionNews(e) = {} /\ DOMAIN StatusNews(e) = {}
    BY <2>1, OtherNews
  <2>4. Balances /\ Positions /\ Tables
    BY <1>1, <2>1, <2>2, <2>3
  <2> QED
    BY <1>2, <2>1, <2>3, <2>4
<1>9. CASE AccountsUpdated(e)
  <2> DEFINE of(u)   == (CHOOSE a \in e.accounts : a.user = u).account
             changed == {a.user : a \in e.accounts}
  <2>1. /\ e.event = "account.updated" /\ orders' = orders
        /\ wallets' = [u \in Users |-> IF u \in changed THEN WalletRow(of(u).bal) ELSE wallets[u]]
        /\ positions' = [u \in Users |-> IF u \in changed THEN PositionRow(of(u).pos) ELSE positions[u]]
    BY <1>9 DEF AccountsUpdated
  <2>2. /\ BalanceNews(e) = [u \in changed |-> WalletRow(of(u).bal)]
        /\ PositionNews(e) = [u \in changed |-> PositionRow(of(u).pos)]
    BY <2>1 DEF BalanceNews, PositionNews
  <2>3. DOMAIN StatusNews(e) = {}
    BY <2>1, OtherNews
  <2> HIDE DEF of, changed
  <2>4. Balances /\ Positions /\ Tables
    BY <2>1, <2>2
  <2> QED
    BY <1>2, <2>1, <2>3, <2>4
<1> HIDE DEF OrdersKept, RowsKept
<1> QED
  BY <1>4, <1>6, <1>7, <1>8, <1>9 DEF ApplyEvent

\* The next event of the queue is projected: it is the first one that has not
\* been, and each row becomes what it is news of.
LEMMA ProjectInv ==
  ASSUME ProjectionInv, Project
  PROVE  ProjectionInv'
<1> DEFINE n == Len(queue)
           d == Head(queue)
<1>1. /\ queue # <<>> /\ ProjectEvent(d) /\ queue' = Tail(queue)
      /\ \A h \in unacked' : h \in unacked \/ h = d
      /\ UNCHANGED <<vars, putOff, published, inFlight>>
  BY DEF Project
<1>2. /\ IsSequence(queue) /\ published \in Nat /\ n <= published
      /\ \A k \in DOMAIN queue : queue[k].id = published - n + k
      /\ processed = 1..(published - n)
      /\ \A h \in unacked : h.id \in processed
      /\ putOff = 0
  BY DEF ProjectionInv, StreamInv
<1>3. /\ n \in Nat \ {0} /\ d = queue[1] /\ DOMAIN queue = 1..n
      /\ IsSequence(queue') /\ Len(queue') = n - 1
      /\ \A k \in 1..(n - 1) : queue'[k] = queue[k + 1]
  BY <1>1, <1>2, HeadAndTail, SequenceLength
<1>4. DOMAIN queue' = 1..(n - 1)
  BY <1>3, SequenceLength
<1> HIDE DEF n, d
<1>5. d.id = published - n + 1 /\ d.id \notin processed
  BY <1>2, <1>3
<1>6. processed' = processed \cup {d.id} /\ ApplyEvent(d.event)
  BY <1>1, <1>5 DEF ProjectEvent
<1> DEFINE e == d.event
<1>7. Rows
  BY DEF ProjectionInv
<1>8. /\ DOMAIN wallets' = Users /\ DOMAIN positions' = Users
      /\ \A u \in Users :
           /\ wallets'[u] = IF u \in DOMAIN BalanceNews(e) THEN BalanceNews(e)[u] ELSE wallets[u]
           /\ positions'[u] =
                IF u \in DOMAIN PositionNews(e) THEN PositionNews(e)[u] ELSE positions[u]
      /\ IsSequence(orders') /\ Len(orders') = Len(orders) /\ DOMAIN orders' = DOMAIN orders
      /\ \A id \in DOMAIN orders :
           /\ DOMAIN orders'[id] = Columns /\ orders'[id].user = orders[id].user
           /\ orders'[id].quantity = orders[id].quantity
           /\ orders'[id].status =
                IF id \in DOMAIN StatusNews(e) THEN StatusNews(e)[id] ELSE orders[id].status
  BY <1>6, <1>7, EventApplied
<1> HIDE DEF e
<1>9. /\ UNCHANGED <<orderCount, inFlight, accounts, taker, bids, asks, outs>>
      /\ UNCHANGED <<Unreported, Undecided>>
  BY <1>1 DEF vars, Unreported, Undecided, Idle
<1>10. Rows'
  BY <1>7, <1>8, <1>9 DEF Rows, Columns
<1>11. StreamInv'
  <2>1. ASSUME NEW k \in DOMAIN queue' PROVE queue'[k].id = published' - Len(queue') + k
    <3>1. k \in 1..(n - 1) /\ k + 1 \in DOMAIN queue
      BY <1>3, <1>4
    <3>2. queue'[k] = queue[k + 1] /\ queue[k + 1].id = published - n + (k + 1)
      BY <1>2, <1>3, <3>1
    <3>3. published' - Len(queue') + k = published - n + (k + 1)
      BY <1>1, <1>2, <1>3, <3>1
    <3> QED
      BY <3>2, <3>3
  <2>2. processed' = 1..(published' - Len(queue'))
    BY <1>1, <1>2, <1>3, <1>5, <1>6
  <2>3. \A h \in unacked' : h.id \in processed'
    BY <1>1, <1>2, <1>6
  <2>4. published' \in Nat /\ Len(queue') <= published' /\ putOff' = 0 /\ IsSequence(queue')
    BY <1>1, <1>2, <1>3
  <2> QED
    BY <2>1, <2>2, <2>3, <2>4 DEF StreamInv
<1>12. QuietInv'
  BY <1>9 DEF ProjectionInv, QuietInv, Idle
<1>13. n - 1 \in Nat /\ (n - 1) + 1 = n /\ queue[1].event = e
  BY <1>3 DEF e
<1>14. WalletInv'
  <2> SUFFICES ASSUME NEW u \in Users \ Unreported, UnderWay(u) = {}
               PROVE  EndsIn({WalletRow(accounts[u].bal)},
                             [k \in DOMAIN queue' |-> BalanceNews(queue'[k].event)], u, wallets'[u])
    BY <1>9 DEF WalletInv, UnderWay
  <2> DEFINE S    == {WalletRow(accounts[u].bal)}
             news == [k \in DOMAIN queue |-> BalanceNews(queue[k].event)]
             rest == [k \in DOMAIN queue' |-> BalanceNews(queue'[k].event)]
             old  == wallets[u]
             new  == wallets'[u]
  <2>1. EndsIn(S, news, u, old)
    BY DEF ProjectionInv, WalletInv
  <2>2. Shorter(news, rest, n - 1)
    BY <1>3, <1>4, <1>13 DEF Shorter
  <2>3. new = IF u \in DOMAIN news[1] THEN news[1][u] ELSE old
    BY <1>3, <1>8, <1>13
  <2> HIDE DEF S, news, rest, old, new
  <2>4. EndsIn(S, rest, u, new)
    BY <2>1, <2>2, <2>3, EndsAfterFirst
  <2> QED
    BY <2>4 DEF S, rest, new
<1>15. PositionInv'
  <2> SUFFICES ASSUME NEW u \in Users \ Unreported
               PROVE  EndsIn({PositionRow(accounts[u].pos)},
                             [k \in DOMAIN queue' |-> PositionNews(queue'[k].event)], u, positions'[u])
    BY <1>9 DEF PositionInv
  <2> DEFINE S    == {PositionRow(accounts[u].pos)}
             news == [k \in DOMAIN queue |-> PositionNews(queue[k].event)]
             rest == [k \in DOMAIN queue' |-> PositionNews(queue'[k].event)]
             old  == positions[u]
             new  == positions'[u]
  <2>1. EndsIn(S, news, u, old)
    BY DEF ProjectionInv, PositionInv
  <2>2. Shorter(news, rest, n - 1)
    BY <1>3, <1>4, <1>13 DEF Shorter
  <2>3. new = IF u \in DOMAIN news[1] THEN news[1][u] ELSE old
    BY <1>3, <1>8, <1>13
  <2> HIDE DEF S, news, rest, old, new
  <2>4. EndsIn(S, rest, u, new)
    BY <2>1, <2>2, <2>3, EndsAfterFirst
  <2> QED
    BY <2>4 DEF S, rest, new
<1>16. GoneInv'
  <2>1. \A id : Resting(id)' = Resting(id)
    BY <1>9 DEF Resting
  <2> SUFFICES ASSUME NEW id \in DOMAIN orders \ Undecided, Resting(id) = {}
               PROVE  EndsIn(Gone, [k \in DOMAIN queue' |-> StatusNews(queue'[k].event)],
                             id, orders'[id].status)
    BY <1>8, <1>9, <2>1 DEF GoneInv, Gone
  <2> DEFINE news == [k \in DOMAIN queue |-> StatusNews(queue[k].event)]
             rest == [k \in DOMAIN queue' |-> StatusNews(queue'[k].event)]
             old  == orders[id].status
             new  == orders'[id].status
  <2>2. EndsIn(Gone, news, id, old)
    BY DEF ProjectionInv, GoneInv, Gone
  <2>3. Shorter(news, rest, n - 1)
    BY <1>3, <1>4, <1>13 DEF Shorter
  <2>4. new = IF id \in DOMAIN news[1] THEN news[1][id] ELSE old
    BY <1>3, <1>8, <1>13
  <2> HIDE DEF news, rest, old, new
  <2>5. EndsIn(Gone, rest, id, new)
    BY <2>2, <2>3, <2>4, EndsAfterFirst
  <2> QED
    BY <2>5 DEF rest, new
<1> QED
  BY <1>10, <1>11, <1>12, <1>14, <1>15, <1>16 DEF ProjectionInv

\* What comes again has been projected: its transaction changes nothing.
LEMMA RedeliverInv ==
  ASSUME ProjectionInv, NEW d, Redeliver(d)
  PROVE  ProjectionInv'
<1>1. d.id \in processed
  BY DEF Redeliver, ProjectionInv, StreamInv
<1>2. /\ UNCHANGED <<vars, orders, wallets, positions, processed, queue, published, inFlight, putOff>>
      /\ unacked' \subseteq unacked
  BY <1>1 DEF Redeliver, ProjectEvent, dbVars
<1>3. Rows' /\ StreamInv'
  BY <1>2 DEF ProjectionInv, Rows, StreamInv, vars
<1>4. QuietInv' /\ Unreported' = Unreported /\ Undecided' = Undecided /\ \A id : Resting(id)' = Resting(id)
  BY <1>2 DEF ProjectionInv, QuietInv, Idle, Unreported, Undecided, Resting, vars
<1>5. WalletInv' /\ PositionInv' /\ GoneInv'
  BY <1>2, <1>4 DEF ProjectionInv, WalletInv, UnderWay, PositionInv, GoneInv, vars
<1> QED
  BY <1>3, <1>4, <1>5 DEF ProjectionInv

\* One deposit of an amount more or less is under way.
LEMMA DepositsMove ==
  ASSUME inFlight \in [Users -> [Amounts -> Nat]], NEW user \in Users, NEW amount \in Amounts,
         NEW n \in Nat, inFlight' = [inFlight EXCEPT ![user][amount] = n]
  PROVE  /\ inFlight' \in [Users -> [Amounts -> Nat]]
         /\ \A u \in Users \ {user} : UnderWay(u)' = UnderWay(u)
         /\ inFlight'[user][amount] = n
<1>1. \A u \in Users \ {user} : inFlight'[u] = inFlight[u]
  OBVIOUS
<1>2. inFlight'[user] = [inFlight[user] EXCEPT ![amount] = n]
  OBVIOUS
<1>3. inFlight[user] \in [Amounts -> Nat]
  OBVIOUS
<1>4. inFlight'[user] \in [Amounts -> Nat] /\ inFlight'[user][amount] = n
  BY <1>2, <1>3
<1>5. \A u \in Users : inFlight'[u] \in [Amounts -> Nat]
  BY <1>1, <1>4
<1>6. inFlight' \in [Users -> [Amounts -> Nat]]
  <2>1. inFlight' = [u \in Users |-> inFlight'[u]]
    OBVIOUS
  <2> QED
    BY <1>5, <2>1
<1> QED
  BY <1>1, <1>4, <1>6 DEF UnderWay

\* A deposit in flight: the wallet is ahead of the engine, and nothing is asked
\* of it.
LEMMA OnrampInv ==
  ASSUME ProjectionInv, NEW user \in Users, NEW amount \in Amounts, Onramp(user, amount)
  PROVE  ProjectionInv'
<1>1. /\ UNCHANGED <<vars, orders, positions, processed, queue, unacked, published, putOff>>
      /\ inFlight' = [inFlight EXCEPT ![user][amount] = @ + 1]
      /\ DOMAIN wallets' = DOMAIN wallets
      /\ \A u \in Users \ {user} : wallets'[u] = wallets[u]
  <2>1. /\ UNCHANGED <<vars, orders, positions, processed, queue, unacked, published, putOff>>
        /\ inFlight' = [inFlight EXCEPT ![user][amount] = @ + 1]
    BY DEF Onramp, streamVars
  <2>2. wallets' = [wallets EXCEPT ![user].balance = @ + Rounded(amount),
                                   ![user].freeBalance = @ + Rounded(amount)]
    BY DEF Onramp
  <2>3. /\ DOMAIN wallets' = DOMAIN wallets
        /\ \A u \in DOMAIN wallets \ {user} : wallets'[u] = wallets[u]
    BY <2>2
  <2>4. DOMAIN wallets = Users
    BY DEF ProjectionInv, Rows
  <2> QED
    BY <2>1, <2>3, <2>4
<1> DEFINE n == inFlight[user][amount] + 1
<1>2. inFlight \in [Users -> [Amounts -> Nat]] /\ n \in Nat /\ n > 0
  BY DEF ProjectionInv, Rows
<1>3. inFlight' = [inFlight EXCEPT ![user][amount] = n]
  BY <1>1
<1> HIDE DEF n
<1>4. /\ inFlight' \in [Users -> [Amounts -> Nat]]
      /\ \A u \in Users \ {user} : UnderWay(u)' = UnderWay(u)
      /\ inFlight'[user][amount] = n
  BY <1>2, <1>3, DepositsMove
<1>5. Rows'
  BY <1>1, <1>4 DEF ProjectionInv, Rows, vars
<1>6. StreamInv'
  BY <1>1 DEF ProjectionInv, StreamInv
<1>7. QuietInv' /\ Unreported' = Unreported /\ Undecided' = Undecided /\ \A id : Resting(id)' = Resting(id)
  BY <1>1 DEF ProjectionInv, QuietInv, Idle, Unreported, Undecided, Resting, vars
<1>8. \A u \in Users : UnderWay(u)' = {} => UnderWay(u) = {} /\ wallets'[u] = wallets[u]
  <2>1. inFlight'[user][amount] > 0
    BY <1>2, <1>4
  <2>2. amount \in UnderWay(user)'
    BY <2>1 DEF UnderWay
  <2> QED
    BY <1>1, <1>4, <2>2
<1>9. WalletInv'
  BY <1>1, <1>7, <1>8 DEF ProjectionInv, WalletInv, vars
<1>10. PositionInv' /\ GoneInv'
  BY <1>1, <1>7 DEF ProjectionInv, PositionInv, GoneInv, vars
<1> QED
  BY <1>5, <1>6, <1>7, <1>9, <1>10 DEF ProjectionInv

LEMMA StutterInv ==
  ASSUME ProjectionInv, UNCHANGED allVars
  PROVE  ProjectionInv'
<1>1. UNCHANGED <<vars, orders, wallets, positions, processed, queue, unacked, published, putOff, inFlight>>
  BY DEF allVars, projectionVars, dbVars, streamVars
<1>2. Rows' /\ StreamInv'
  BY <1>1 DEF ProjectionInv, Rows, StreamInv, vars
<1>3. QuietInv' /\ Unreported' = Unreported /\ Undecided' = Undecided /\ \A id : Resting(id)' = Resting(id)
  BY <1>1 DEF ProjectionInv, QuietInv, Idle, Unreported, Undecided, Resting, vars
<1>4. WalletInv' /\ PositionInv' /\ GoneInv'
  BY <1>1, <1>3 DEF ProjectionInv, WalletInv, UnderWay, PositionInv, GoneInv, vars
<1> QED
  BY <1>2, <1>3, <1>4 DEF ProjectionInv

-----------------------------------------------------------------------------
(* The commands, with what the API writes before it sends them *)

LEMMA RowAdded ==
  ASSUME Inv, Rows, NEW o \in OrderInput, PlaceOrder(o)
  PROVE  /\ Rows' /\ orderCount \in Nat /\ orderCount' = orderCount + 1
         /\ DOMAIN orders = 1..orderCount /\ DOMAIN orders' = 1..(orderCount + 1)
         /\ orders'[orderCount + 1] = [user |-> o.user, quantity |-> o.quantity,
                                       status |-> "PENDING", filledQuantity |-> 0]
         /\ \A id \in 1..orderCount : orders'[id] = orders[id]
<1> DEFINE row == [user |-> o.user, quantity |-> o.quantity, status |-> "PENDING", filledQuantity |-> 0]
<1>1. /\ orders' = Append(orders, row)
      /\ UNCHANGED <<wallets, positions, inFlight>> /\ orderCount' = orderCount + 1
  BY DEF PlaceOrder, Emit, RejectOrder, BeginMatch
<1>2. DOMAIN row = Columns /\ row.user \in Users /\ row.quantity \in Nat
  BY OrderInputType DEF Columns
<1> HIDE DEF row
<1>3. IsSequence(orders) /\ Len(orders) = orderCount /\ DOMAIN orders = 1..orderCount
  BY SequenceLength DEF Rows
<1>4. /\ IsSequence(orders') /\ Len(orders') = orderCount + 1
      /\ orders'[orderCount + 1] = row /\ \A id \in 1..orderCount : orders'[id] = orders[id]
  BY <1>1, <1>3, AppendedSequence
<1>5. DOMAIN orders' = 1..(orderCount + 1) /\ orderCount \in Nat
  BY <1>4, SequenceLength, HorizonType
<1>6. Rows'
  <2>1. \A id \in DOMAIN orders' :
          /\ DOMAIN orders'[id] = Columns /\ orders'[id].user \in Users
          /\ orders'[id].quantity \in Nat
    BY <1>2, <1>3, <1>4, <1>5 DEF Rows, Columns
  <2> QED
    BY <1>1, <1>4, <2>1 DEF Rows, Columns
<1> QED
  BY <1>1, <1>3, <1>4, <1>5, <1>6 DEF row

LEMMA PlaceOrderInv ==
  ASSUME Inv, ProjectionInv, NEW o \in OrderInput, PlaceOrder(o)
  PROVE  ProjectionInv'
<1>1. Emit /\ UNCHANGED <<wallets, inFlight>> /\ \E row : orders' = Append(orders, row)
  BY DEF PlaceOrder, Emit
<1>2. Rows
  BY DEF ProjectionInv
<1>3. /\ Rows' /\ orderCount \in Nat
      /\ DOMAIN orders = 1..orderCount /\ DOMAIN orders' = 1..(orderCount + 1)
      /\ \A id \in 1..orderCount : orders'[id] = orders[id]
  BY <1>2, RowAdded
<1>4. Deposited
  BY <1>1 DEF Deposited, UnderWay
<1>5. CASE RejectOrder(o)
  <2>1. /\ Idle /\ UNCHANGED <<taker, bids, asks, accounts>>
        /\ outs' = <<Rejection(orderCount + 1, o.user)>>
    BY <1>5 DEF RejectOrder
  <2>2. \A id \in DOMAIN orders' : id # orderCount + 1 =>
          id \in DOMAIN orders /\ orders'[id].status = orders[id].status
    BY <1>3
  <2>3. Told
    BY <2>1, <2>2, RejectionTold
  <2> QED
    BY <1>1, <1>3, <1>4, <2>3, ToldInv
<1>6. CASE BeginMatch(o)
  <2>1. PICK row : orders' = Append(orders, row)
    BY <1>1
  <2>2. Told
    BY <1>2, <1>6, <2>1, BeginMatchTold
  <2> QED
    BY <1>1, <1>3, <1>4, <2>2, ToldInv
<1> QED
  BY <1>5, <1>6 DEF PlaceOrder

\* A step that writes no row.
LEMMA SameRows ==
  ASSUME Rows, Emit, UNCHANGED <<orders, inFlight, orderCount>>
  PROVE  Rows' /\ Deposited
BY DEF Rows, Emit, Deposited, UnderWay

LEMMA DeleteOrderInv ==
  ASSUME Inv, ProjectionInv, NEW id \in DOMAIN orders, NEW side \in Sides, NEW price,
         DeleteOrder(id, side, price)
  PROVE  ProjectionInv'
<1>1. PICK user \in Users : user = orders[id].user
  BY DEF ProjectionInv, Rows
<1>2. /\ CancelOrder(user, id, side, price) \/ RejectCancel(user, id, side, price)
      /\ Emit /\ UNCHANGED <<orders, inFlight>>
  BY <1>1 DEF DeleteOrder
<1>3. orderCount' = orderCount
  BY <1>2 DEF CancelOrder, RejectCancel
<1>4. Rows' /\ Deposited
  BY <1>2, <1>3, SameRows DEF ProjectionInv
<1>5. CASE CancelOrder(user, id, side, price)
  BY <1>2, <1>4, <1>5, CancelTold, ToldInv
<1>6. CASE RejectCancel(user, id, side, price)
  <2>1. Idle /\ UNCHANGED <<taker, bids, asks, accounts>> /\ outs' = <<Rejection(id, user)>>
    BY <1>6 DEF RejectCancel
  <2>2. Told
    BY <1>2, <2>1, RejectionTold
  <2> QED
    BY <1>2, <1>4, <2>2, ToldInv
<1> QED
  BY <1>2, <1>5, <1>6

LEMMA SignUpInv ==
  ASSUME Inv, ProjectionInv, NEW user \in Users, SignUp(user)
  PROVE  ProjectionInv'
<1>1. CreditUser(user, 0) /\ Emit /\ UNCHANGED <<orders, inFlight, orderCount>>
  BY DEF SignUp, CreditUser
<1> QED
  BY <1>1, SameRows, CreditTold, ToldInv DEF ProjectionInv

\* The engine learns of a deposit and tells the balance.
LEMMA DepositInv ==
  ASSUME Inv, ProjectionInv, NEW user \in Users, NEW amount \in Amounts, Deposit(user, amount)
  PROVE  ProjectionInv'
<1> DEFINE n == inFlight[user][amount] - 1
<1>1. inFlight \in [Users -> [Amounts -> Nat]] /\ n \in Nat
  BY DEF ProjectionInv, Rows, Deposit
<1>2. /\ CreditUser(user, amount) /\ Emit /\ UNCHANGED <<orders, orderCount, wallets, positions>>
      /\ inFlight' = [inFlight EXCEPT ![user][amount] = n]
  BY DEF Deposit, CreditUser, Emit
<1> HIDE DEF n
<1>3. inFlight' \in [Users -> [Amounts -> Nat]] /\ \A u \in Users \ {user} : UnderWay(u)' = UnderWay(u)
  BY <1>1, <1>2, DepositsMove
<1>4. Rows'
  BY <1>2, <1>3 DEF ProjectionInv, Rows
<1>5. Told
  BY <1>2, CreditTold
<1>6. Deposited
  <2>1. outs' = <<BalanceDraft(user)>> /\ Emitted = outs'
    BY <1>2, IdleReported DEF CreditUser
  <2>2. 1 \in DOMAIN Emitted /\ Emitted[1] = BalanceDraft(user)
    BY <2>1, OneElement
  <2>3. user \in DOMAIN BalanceNews(Emitted[1])
    BY <2>2, BalanceDraftNews
  <2> QED
    BY <1>3, <2>2, <2>3 DEF Deposited
<1> QED
  BY <1>2, <1>4, <1>5, <1>6, ToldInv

LEMMA ContinueInv ==
  ASSUME Inv, ProjectionInv, Continue
  PROVE  ProjectionInv'
<1>1. Emit /\ UNCHANGED <<orders, inFlight>>
  BY DEF Continue
<1>2. orderCount' = orderCount
  BY DEF Continue, Match, Fill, EndMatch, DropIndexPrice, IndexPrice
<1>3. Rows' /\ Deposited /\ Rows /\ QuietInv
  BY <1>1, <1>2, SameRows DEF ProjectionInv
<1>4. CASE Fill
  BY <1>1, <1>3, <1>4, FillTold, ToldInv
<1>5. CASE EndMatch
  BY <1>1, <1>3, <1>5, EndMatchTold, ToldInv
<1>6. ASSUME NEW seq, DropIndexPrice(seq) PROVE ProjectionInv'
  <2>1. Told
    BY <1>1, <1>6, NothingTold DEF DropIndexPrice
  <2> QED
    BY <1>1, <1>3, <2>1, ToldInv
<1>7. ASSUME NEW seq, NEW price, IndexPrice(seq, price) PROVE ProjectionInv'
  BY <1>1, <1>3, <1>7, IndexPriceTold, ToldInv
<1> QED
  BY <1>4, <1>5, <1>6, <1>7 DEF Continue, Match

-----------------------------------------------------------------------------
(* The invariant *)

\* The engine inside of the projection: its invariant is not disturbed, for a
\* deposit may be of any amount and an account may be opened with nothing.
LEMMA EngineStepInv ==
  ASSUME MatchInv, Rows, [PNext]_allVars
  PROVE  MatchInv'
<1>1. Inv
  BY DEF MatchInv
<1>2. ASSUME NEW o \in OrderInput, PlaceOrder(o) PROVE MatchInv'
  <2>1. RejectOrder(o) \/ BeginMatch(o)
    BY <1>2 DEF PlaceOrder
  <2> QED
    BY <2>1, NextMatchInv DEF Next
<1>3. ASSUME NEW id \in DOMAIN orders, NEW side \in Sides, NEW price \in Prices,
             DeleteOrder(id, side, price)
      PROVE  MatchInv'
  <2>1. PICK user \in Users : user = orders[id].user
    BY DEF Rows
  <2>2. CancelOrder(user, id, side, price) \/ RejectCancel(user, id, side, price)
    BY <1>3, <2>1 DEF DeleteOrder
  <2>3. id \in 1..orderCount
    BY SequenceLength DEF Rows
  <2> QED
    BY <2>2, <2>3, NextMatchInv DEF Next
<1>4. ASSUME NEW user \in Users, NEW amount \in Nat, CreditUser(user, amount) PROVE MatchInv'
  <2>1. Inv'
    BY <1>1, <1>4, CreditUserInv
  <2> QED
    BY <1>4, <2>1, SameBookMatchInv DEF CreditUser
<1>5. ASSUME NEW user \in Users, SignUp(user) PROVE MatchInv'
  BY <1>4, <1>5 DEF SignUp
<1>6. ASSUME NEW user \in Users, NEW amount \in Amounts, Deposit(user, amount) PROVE MatchInv'
  <2>1. amount \in Nat /\ CreditUser(user, amount)
    BY <1>6, InputAssumption DEF Deposit
  <2> QED
    BY <1>4, <2>1
<1>7. CASE Continue
  <2>1. Next
    BY <1>7 DEF Continue, Next
  <2> QED
    BY <2>1, NextMatchInv
<1>8. ASSUME UNCHANGED vars PROVE MatchInv'
  BY <1>8, NextMatchInv
<1>9. ASSUME NEW user, NEW amount, Onramp(user, amount) PROVE MatchInv'
  BY <1>8, <1>9 DEF Onramp
<1>10. CASE Project
  BY <1>8, <1>10 DEF Project
<1>11. ASSUME NEW d, Redeliver(d) PROVE MatchInv'
  BY <1>8, <1>11 DEF Redeliver
<1>12. ASSUME NEW later, PutOff(later) PROVE MatchInv'
  BY <1>8, <1>12 DEF PutOff
<1>13. CASE UNCHANGED allVars
  BY <1>8, <1>13 DEF allVars
<1> QED
  BY <1>2, <1>3, <1>5, <1>6, <1>7, <1>9, <1>10, <1>11, <1>12, <1>13 DEF PNext

LEMMA ProjectionInit ==
  ASSUME PInit
  PROVE  MatchInv /\ ProjectionInv
<1>1. MatchInv
  BY InitMatchInv DEF PInit
<1>2. /\ Init /\ orders = <<>> /\ wallets = [u \in Users |-> NoWallet]
      /\ positions = [u \in Users |-> PositionRow(NoPosition)]
      /\ processed = {} /\ queue = <<>> /\ unacked = {} /\ putOff = 0 /\ published = 0
      /\ inFlight = [u \in Users |-> [amount \in Amounts |-> 0]]
  BY DEF PInit
<1>3. IsSequence(<<>>) /\ Len(<<>>) = 0 /\ DOMAIN <<>> = {}
  BY EmptyIsSequence, EmptySeq
<1>4. Rows
  BY <1>2, <1>3 DEF Rows, Init
<1>5. StreamInv
  BY <1>2, <1>3 DEF StreamInv
<1>6. QuietInv
  BY <1>2, <1>3 DEF QuietInv, Init, Idle
<1>7. Rounded(0) = 0
  BY ProjectionAssumption, RoundDivWhole DEF Rounded
<1>8. NoWallet = WalletRow(NoBalance)
  BY <1>7 DEF NoWallet, WalletRow, NoBalance
<1>9. \A u \in Users : accounts[u] = NoAccount
  BY <1>2 DEF Init
<1>10. WalletInv
  BY <1>2, <1>3, <1>8, <1>9 DEF WalletInv, EndsIn, NoAccount
<1>11. PositionInv
  BY <1>2, <1>3, <1>9 DEF PositionInv, EndsIn, NoAccount
<1>12. GoneInv
  BY <1>2, <1>3 DEF GoneInv
<1> QED
  BY <1>1, <1>4, <1>5, <1>6, <1>10, <1>11, <1>12 DEF ProjectionInv

\* No transaction of the writer fails, so that it projects the events in order.
InOrder == MaxPutOff = 0

LEMMA ProjectionStep ==
  ASSUME InOrder, MatchInv, ProjectionInv, [PNext]_allVars
  PROVE  MatchInv' /\ ProjectionInv'
<1>1. Inv /\ Rows
  BY DEF MatchInv, ProjectionInv
<1>2. MatchInv'
  BY <1>1, EngineStepInv
<1>3. ASSUME NEW later, PutOff(later) PROVE FALSE
  BY <1>3 DEF PutOff, InOrder, ProjectionInv, StreamInv
<1>4. ProjectionInv'
  BY <1>1, <1>3, PlaceOrderInv, DeleteOrderInv, SignUpInv, DepositInv, OnrampInv, ContinueInv,
     ProjectInv, RedeliverInv, StutterInv
     DEF PNext
<1> QED
  BY <1>2, <1>4

LEMMA ProjectionInvHolds == InOrder => (PSpec => [](MatchInv /\ ProjectionInv))
<1> SUFFICES ASSUME InOrder PROVE PSpec => [](MatchInv /\ ProjectionInv)
  OBVIOUS
<1>1. PInit => MatchInv /\ ProjectionInv
  BY ProjectionInit
<1>2. (MatchInv /\ ProjectionInv) /\ [PNext]_allVars => (MatchInv /\ ProjectionInv)'
  BY ProjectionStep
<1> QED
  BY <1>1, <1>2, PTL DEF PSpec

LEMMA NoNewsLeft ==
  ASSUME NEW S, NEW x, NEW row, NEW news, EndsIn(S, news, x, row), DOMAIN news = {}
  PROVE  row \in S
BY DEF EndsIn

LEMMA CaughtUpRows ==
  ASSUME ProjectionInv, CaughtUp
  PROVE  WalletsFollow /\ PositionsFollow /\ NoGhostOrders
<1>1. /\ Idle /\ Unreported = {} /\ Undecided = {}
      /\ DOMAIN queue = {} /\ \A u \in Users : UnderWay(u) = {}
  BY EmptySeq DEF CaughtUp, Unreported, Undecided
<1>2. ASSUME NEW u \in Users PROVE wallets[u] = WalletRow(accounts[u].bal)
  <2> DEFINE news == [k \in DOMAIN queue |-> BalanceNews(queue[k].event)]
             S    == {WalletRow(accounts[u].bal)}
  <2>1. EndsIn(S, news, u, wallets[u]) /\ DOMAIN news = {}
    BY <1>1 DEF ProjectionInv, WalletInv
  <2> HIDE DEF news, S
  <2>2. wallets[u] \in S
    BY <2>1, NoNewsLeft
  <2> QED
    BY <2>2 DEF S
<1>3. ASSUME NEW u \in Users PROVE positions[u] = PositionRow(accounts[u].pos)
  <2> DEFINE news == [k \in DOMAIN queue |-> PositionNews(queue[k].event)]
             S    == {PositionRow(accounts[u].pos)}
  <2>1. EndsIn(S, news, u, positions[u]) /\ DOMAIN news = {}
    BY <1>1 DEF ProjectionInv, PositionInv
  <2> HIDE DEF news, S
  <2>2. positions[u] \in S
    BY <2>1, NoNewsLeft
  <2> QED
    BY <2>2 DEF S
<1>4. ASSUME NEW id \in DOMAIN orders, Resting(id) = {}
      PROVE  orders[id].status \in Gone
  <2> DEFINE news == [k \in DOMAIN queue |-> StatusNews(queue[k].event)]
  <2>1. EndsIn(Gone, news, id, orders[id].status) /\ DOMAIN news = {}
    BY <1>1, <1>4 DEF ProjectionInv, GoneInv, Gone
  <2> HIDE DEF news
  <2> QED
    BY <2>1, NoNewsLeft
<1>5. NoGhostOrders
  BY <1>4 DEF NoGhostOrders, Gone
<1> QED
  BY <1>2, <1>3, <1>5 DEF WalletsFollow, PositionsFollow

\* When the writer has caught up, every wallet is the engine's balance: no
\* handler forgets to report one, and the deposits the API wrote ahead are
\* neither lost nor counted twice.
THEOREM WalletsAlwaysFollow == InOrder => (PSpec => []WalletsFollow)
<1> SUFFICES ASSUME InOrder PROVE PSpec => []WalletsFollow
  OBVIOUS
<1>1. MatchInv /\ ProjectionInv => WalletsFollow
  BY CaughtUpRows DEF WalletsFollow
<1> QED
  BY <1>1, ProjectionInvHolds, PTL

\* And every row of positions is the engine's position.
THEOREM PositionsAlwaysFollow == InOrder => (PSpec => []PositionsFollow)
<1> SUFFICES ASSUME InOrder PROVE PSpec => []PositionsFollow
  OBVIOUS
<1>1. MatchInv /\ ProjectionInv => PositionsFollow
  BY CaughtUpRows DEF PositionsFollow
<1> QED
  BY <1>1, ProjectionInvHolds, PTL

\* And no order that has left the book is shown as pending or open.
THEOREM NeverGhostOrders == InOrder => (PSpec => []NoGhostOrders)
<1> SUFFICES ASSUME InOrder PROVE PSpec => []NoGhostOrders
  OBVIOUS
<1>1. MatchInv /\ ProjectionInv => NoGhostOrders
  BY CaughtUpRows DEF NoGhostOrders
<1> QED
  BY <1>1, ProjectionInvHolds, PTL

-----------------------------------------------------------------------------
(* The ledger *)

LEMMA TradedType ==
  ASSUME NEW rows, IsFiniteSet(rows), \A f \in rows : f.quantity \in Nat, NEW id
  PROVE  /\ TradedIn(rows, id) \in Nat
         /\ (\A f \in rows : id \notin {f.maker, f.taker}) => TradedIn(rows, id) = 0
<1> DEFINE D == {f \in rows : id \in {f.maker, f.taker}}
           g == [f \in D |-> f.quantity]
<1>1. IsFiniteSet(D)
  BY FS_Subset
<1>2. g \in [D -> Nat] /\ g \in [D -> Int]
  OBVIOUS
<1>3. TradedIn(rows, id) = Total(g)
  BY DEF TradedIn
<1>4. (\A f \in rows : id \notin {f.maker, f.taker}) => D = {}
  OBVIOUS
<1> HIDE DEF D, g
<1>5. Total(g) \in Int /\ (D = {} => Total(g) = 0) /\ Total(g) >= 0
  BY <1>1, <1>2, TotalType, TotalNotLess
<1> QED
  BY <1>3, <1>4, <1>5

\* One element more.
LEMMA TotalWith ==
  ASSUME NEW D, IsFiniteSet(D), NEW g \in [D -> Int], NEW x, x \notin D,
         NEW h \in [D \cup {x} -> Int], \A y \in D : h[y] = g[y]
  PROVE  Total(h) = h[x] + Total(g) /\ Total(g) \in Int
<1>1. PICK E : E = D \cup {x}
  OBVIOUS
<1>2. IsFiniteSet(E) /\ x \in E /\ h \in [E -> Int]
  BY <1>1, FS_AddElement
<1>3. E \ {x} = D
  BY <1>1
<1>4. g \in [E \ {x} -> Int] /\ \A y \in E \ {x} : g[y] = h[y]
  BY <1>3
<1> QED
  BY <1>2, <1>4, TotalWithout

\* One row more.
LEMMA TradedMore ==
  ASSUME NEW rows, IsFiniteSet(rows), \A f \in rows : f.quantity \in Nat,
         NEW row, row \notin rows, row.quantity \in Nat, NEW id
  PROVE  TradedIn(rows \cup {row}, id) =
           TradedIn(rows, id) + (IF id \in {row.maker, row.taker} THEN row.quantity ELSE 0)
<1> DEFINE D == {f \in rows : id \in {f.maker, f.taker}}
           g == [f \in D |-> f.quantity]
           E == {f \in rows \cup {row} : id \in {f.maker, f.taker}}
           h == [f \in E |-> f.quantity]
<1>1. IsFiniteSet(D)
  BY FS_Subset
<1>2. TradedIn(rows, id) = Total(g) /\ TradedIn(rows \cup {row}, id) = Total(h)
  BY DEF TradedIn
<1>3. g \in [D -> Int] /\ h \in [E -> Int]
  OBVIOUS
<1>4. CASE id \in {row.maker, row.taker}
  <2>1. E = D \cup {row} /\ row \notin D
    BY <1>4
  <2>2. h[row] = row.quantity /\ \A f \in D : g[f] = h[f]
    BY <2>1
  <2> HIDE DEF D, E, g, h
  <2>3. g \in [D -> Int] /\ h \in [D \cup {row} -> Int]
    BY <1>3, <2>1
  <2>4. row \notin D /\ \A f \in D : h[f] = g[f]
    BY <2>1, <2>2
  <2>5. Total(h) = h[row] + Total(g) /\ Total(g) \in Int
    <3> HIDE <2>1, <2>2
    <3> QED
      BY <1>1, <2>3, <2>4, TotalWith
  <2> QED
    BY <1>2, <1>4, <2>2, <2>5
<1>5. CASE id \notin {row.maker, row.taker}
  <2>1. E = D
    BY <1>5
  <2>2. h = g
    BY <2>1
  <2> HIDE DEF D, E, g, h
  <2>3. Total(g) \in Int
    BY <1>1, <1>3, TotalType
  <2> QED
    BY <1>2, <1>5, <2>2, <2>3
<1> QED
  BY <1>4, <1>5

\* The rows and the filled orders of more events.
LEMMA RowsOfMore ==
  ASSUME NEW S, NEW T
  PROVE  /\ TradeRows(S \cup T) = TradeRows(S) \cup TradeRows(T)
         /\ FilledIn(S \cup T) = FilledIn(S) \cup FilledIn(T)
         /\ (\A e \in T : e.event # "trade.executed") => TradeRows(T) = {}
         /\ (\A e \in T : e.event # "order.accepted") => FilledIn(T) = {}
BY DEF TradeRows, FilledIn

-----------------------------------------------------------------------------
(* The queue, in whatever order it is projected *)

Queued == {d.event : d \in ToSet(queue)}

LEMMA PendingOf ==
  Pending = Queued \cup (IF Idle THEN {} ELSE ToSet(outs) \cup ToSet(taker.reports))
BY DEF Pending, Queued

\* Events that join the queue.
LEMMA QueueEmitted ==
  ASSUME QueueInv, IsSequence(Emitted), Emit
  PROVE  QueueInv' /\ Queued' = Queued \cup ToSet(Emitted)
<1> DEFINE n == Len(queue)
           m == Len(Emitted)
<1>1. /\ IsSequence(queue) /\ published \in Nat /\ processed \subseteq 1..published
      /\ \A k \in DOMAIN queue : queue[k].id \in 1..published \ processed
      /\ \A k, j \in DOMAIN queue : queue[k].id = queue[j].id => k = j
      /\ \A d \in unacked : d.id \in processed
  BY DEF QueueInv
<1>2. n \in Nat /\ DOMAIN queue = 1..n
  BY <1>1, SequenceLength
<1>3. /\ m \in Nat /\ DOMAIN Emitted = 1..m /\ IsSequence(queue') /\ Len(queue') = n + m
      /\ \A k \in 1..n : queue'[k] = queue[k]
      /\ \A k \in 1..m : queue'[n + k] = [id |-> published + k, event |-> Emitted[k]]
      /\ published' = published + m
      /\ UNCHANGED <<processed, unacked>>
  BY <1>1, Published
<1> HIDE DEF n, m
<1>4. DOMAIN queue' = 1..(n + m)
  BY <1>3, SequenceLength
<1>5. ASSUME NEW k \in DOMAIN queue'
      PROVE  \/ k \in 1..n /\ queue'[k] = queue[k] /\ queue'[k].id \in 1..published \ processed
             \/ \E j \in 1..m : /\ k = n + j /\ queue'[k].id = published + j
                                /\ queue'[k].event = Emitted[j]
  <2>1. CASE k \in 1..n
    BY <1>1, <1>2, <1>3, <2>1
  <2>2. CASE k \notin 1..n
    <3>1. k - n \in 1..m /\ n + (k - n) = k
      BY <1>2, <1>3, <1>4, <2>2
    <3>2. PICK j \in 1..m : k = n + j
      BY <3>1
    <3>3. queue'[n + j] = [id |-> published + j, event |-> Emitted[j]]
      BY <1>3
    <3> QED
      BY <3>2, <3>3
  <2> QED
    BY <2>1, <2>2
<1>6. \A k \in DOMAIN queue' : queue'[k].id \in 1..published' \ processed'
  BY <1>1, <1>3, <1>5
<1>7. \A k, j \in DOMAIN queue' : queue'[k].id = queue'[j].id => k = j
  BY <1>1, <1>2, <1>3, <1>5
<1>8. QueueInv'
  BY <1>1, <1>3, <1>6, <1>7 DEF QueueInv
<1>9. \A e \in Queued : e \in Queued'
  <2> TAKE e \in Queued
  <2>1. PICK k \in 1..n : e = queue[k].event
    BY <1>2 DEF Queued, ToSet
  <2>2. k \in DOMAIN queue' /\ queue'[k].event = e
    BY <1>2, <1>3, <1>4, <2>1
  <2> QED
    BY <2>2 DEF Queued, ToSet
<1>10. \A e \in ToSet(Emitted) : e \in Queued'
  <2> TAKE e \in ToSet(Emitted)
  <2>1. PICK j \in 1..m : e = Emitted[j]
    BY <1>3 DEF ToSet
  <2>2. n + j \in DOMAIN queue'
    BY <1>2, <1>3, <1>4
  <2>3. queue'[n + j] = [id |-> published + j, event |-> Emitted[j]]
    BY <1>3
  <2>4. queue'[n + j].event = e
    BY <2>1, <2>3
  <2> QED
    BY <2>2, <2>4 DEF Queued, ToSet
<1>11. \A e \in Queued' : e \in Queued \/ e \in ToSet(Emitted)
  <2> TAKE e \in Queued'
  <2>1. PICK k \in DOMAIN queue' : e = queue'[k].event
    BY DEF Queued, ToSet
  <2>2. CASE k \in 1..n /\ queue'[k] = queue[k]
    BY <1>2, <2>1, <2>2 DEF Queued, ToSet
  <2>3. CASE \E j \in 1..m : queue'[k].event = Emitted[j]
    BY <1>3, <2>1, <2>3 DEF ToSet
  <2> QED
    BY <1>5, <2>2, <2>3
<1> QED
  BY <1>8, <1>9, <1>10, <1>11

-----------------------------------------------------------------------------
(* Steps that trade nothing *)

\* What is left of orders only becomes less, a new one has all of its quantity,
\* and it is said of an order that it is filled when nothing is left of it.
NothingSold(N) ==
  /\ Pending' = Pending \cup N
  /\ \A e \in N : e.event # "trade.executed"
  /\ fills' = fills
  /\ ~Idle' => taker'.id > orderCount
  /\ DOMAIN orders \subseteq DOMAIN orders'
  /\ \A id \in DOMAIN orders : orders'[id] = orders[id] /\ LeftOf(id)' \subseteq LeftOf(id)
  /\ \A id \in DOMAIN orders' \ DOMAIN orders :
       /\ id > orderCount
       /\ orders'[id].status # "FILLED" /\ LeftOf(id)' \subseteq {orders'[id].quantity}
  /\ \A id \in FilledIn(N) : LeftOf(id)' = {} /\ 0 \in LeftOf(id) /\ id \in DOMAIN orders

LEMMA NothingSoldInv ==
  ASSUME TradesInv, SoldInv, FilledInv, NEW N, NothingSold(N), Rows, Rows',
         orderCount \in Nat, orderCount' \in Nat, orderCount <= orderCount'
  PROVE  TradesInv' /\ SoldInv' /\ FilledInv'
<1>1. Ledger' = Ledger
  <2>1. TradeRows(N) = {}
    <3>1. \A e \in N : e.event # "trade.executed"
      BY DEF NothingSold
    <3> QED
      BY <3>1, RowsOfMore
  <2>2. TradeRows(Pending \cup N) = TradeRows(Pending)
    BY <2>1, RowsOfMore
  <2> QED
    BY <2>2 DEF Ledger, NothingSold, TradeRows
<1>2. FilledIn(Pending)' = FilledIn(Pending) \cup FilledIn(N)
  BY RowsOfMore DEF NothingSold, FilledIn
<1>3. IsFiniteSet(Ledger) /\ \A f \in Ledger : f.quantity \in Nat
  BY DEF TradesInv
<1>4. \A f \in Ledger : f.maker \in 0..orderCount /\ f.taker \in 0..orderCount
  BY DEF TradesInv
<1>5. TradesInv'
  <2>1. \A f \in Ledger : f.maker \in 0..orderCount' /\ f.taker \in 0..orderCount'
    BY <1>4
  <2>2. ~Idle' => \A f \in Ledger : f.maker # taker'.id /\ f.taker # taker'.id
    BY <1>4 DEF NothingSold
  <2> QED
    BY <1>1, <1>3, <2>1, <2>2 DEF TradesInv
<1>6. \A id : TradedIn(Ledger', id) = TradedIn(Ledger, id)
  BY <1>1
<1>7. ASSUME NEW id \in DOMAIN orders' \ DOMAIN orders
      PROVE  TradedIn(Ledger, id) = 0
  <2>1. \A f \in Ledger : id \notin {f.maker, f.taker}
    BY <1>4, <1>7 DEF NothingSold
  <2> QED
    BY <1>3, <2>1, TradedType
<1>8. \A id : TradedIn(Ledger, id) \in Nat
  BY <1>3, TradedType
<1>9. \A id \in DOMAIN orders' : orders'[id].quantity \in Nat
  BY DEF Rows
<1>10. SoldInv'
  <2> SUFFICES ASSUME NEW id \in DOMAIN orders'
               PROVE  /\ TradedIn(Ledger', id) <= orders'[id].quantity
                      /\ \A n \in LeftOf(id)' : TradedIn(Ledger', id) + n = orders'[id].quantity
    BY DEF SoldInv
  <2>1. CASE id \in DOMAIN orders
    BY <1>6, <2>1 DEF SoldInv, NothingSold
  <2>2. CASE id \notin DOMAIN orders
    BY <1>6, <1>7, <1>9, <2>2 DEF NothingSold
  <2> QED
    BY <2>1, <2>2
<1>11. FilledInv'
  <2> SUFFICES ASSUME NEW id \in SaidFilled'
               PROVE  /\ id \in DOMAIN orders'
                      /\ LeftOf(id)' = {} /\ TradedIn(Ledger', id) = orders'[id].quantity
    BY DEF FilledInv
  <2>1. id \in SaidFilled \/ id \in FilledIn(N)
    BY <1>2 DEF SaidFilled, NothingSold
  <2>2. CASE id \in SaidFilled
    BY <1>6, <2>1, <2>2 DEF FilledInv, NothingSold
  <2>3. CASE id \in FilledIn(N)
    BY <1>6, <1>8, <2>1, <2>3 DEF SoldInv, NothingSold
  <2> QED
    BY <2>1, <2>2, <2>3
<1> QED
  BY <1>5, <1>10, <1>11

-----------------------------------------------------------------------------
(* Commands that do not match *)

LEMMA IdlePending ==
  ASSUME QueueInv, Idle, taker' = taker, IsSequence(Emitted), Emit
  PROVE  Pending' = Pending \cup ToSet(outs') /\ fills' = fills
<1>1. Idle' /\ Emitted = outs'
  BY IdleReported
<1>2. Queued' = Queued \cup ToSet(outs')
  BY <1>1, QueueEmitted
<1>3. Pending = Queued
  BY PendingOf
<1>4. Pending' = Queued'
  BY <1>1 DEF Pending, Queued
<1> QED
  BY <1>2, <1>3, <1>4 DEF Emit

\* Orders leave the book, or none does.
LEMMA FewerRest ==
  ASSUME DOMAIN orders \subseteq DOMAIN orders',
         \A s \in Sides : RestingOrders(Levels(s)') \subseteq RestingOrders(Levels(s))
  PROVE  /\ OneSide => OneSide'
         /\ taker' = taker => \A id : LeftOf(id)' \subseteq LeftOf(id)
<1>1. /\ RestingOrders(bids') \subseteq RestingOrders(bids)
      /\ RestingOrders(asks') \subseteq RestingOrders(asks)
  BY SidesOfBook
<1>2. \A id : Resting(id)' \subseteq Resting(id)
  BY <1>1 DEF Resting
<1>3. ASSUME taker' = taker, NEW id, NEW n \in LeftOf(id)' PROVE n \in LeftOf(id)
  <2>1. Idle' <=> Idle
    BY <1>3 DEF Idle
  <2> QED
    BY <1>2, <1>3, <2>1 DEF LeftOf
<1> QED
  BY <1>1, <1>3 DEF OneSide

LEMMA CalmLedger ==
  ASSUME LedgerInv, Inv, Idle, UNCHANGED <<taker, orders, orderCount>>, Told, Emit, Rows',
         \A e \in ToSet(outs') : e.event \notin {"trade.executed", "order.accepted"},
         \A s \in Sides : RestingOrders(Levels(s)') \subseteq RestingOrders(Levels(s))
  PROVE  LedgerInv'
<1>1. /\ Rows /\ QueueInv /\ TradesInv /\ OneSide /\ SoldInv /\ FilledInv
      /\ IsSequence(Emitted) /\ QuietInv'
  BY DEF LedgerInv, Told
<1>2. QueueInv'
  BY <1>1, QueueEmitted
<1>3. Pending' = Pending \cup ToSet(outs') /\ fills' = fills
  BY <1>1, IdlePending
<1>4. OneSide' /\ \A id : LeftOf(id)' \subseteq LeftOf(id)
  BY <1>1, FewerRest
<1>5. Idle'
  BY IdleReported
<1>6. FilledIn(ToSet(outs')) = {}
  BY RowsOfMore
<1>7. NothingSold(ToSet(outs'))
  BY <1>3, <1>4, <1>5, <1>6 DEF NothingSold
<1>8. orderCount \in Nat
  BY HorizonType
<1>9. TradesInv' /\ SoldInv' /\ FilledInv'
  BY <1>1, <1>7, <1>8, NothingSoldInv
<1> QED
  BY <1>1, <1>2, <1>4, <1>9 DEF LedgerInv

LEMMA SameSides ==
  ASSUME UNCHANGED <<bids, asks>>
  PROVE  \A s \in Sides : Levels(s)' = Levels(s)
BY DEF Levels

LEMMA CreditLedger ==
  ASSUME LedgerInv, Inv, NEW user \in Users, NEW amount, CreditUser(user, amount),
         UNCHANGED orders, Emit, Rows'
  PROVE  LedgerInv'
<1>1. /\ Idle /\ UNCHANGED <<taker, orderCount, bids, asks>>
      /\ outs' = <<BalanceDraft(user)>>
  BY DEF CreditUser
<1>2. BalanceDraft(user).event = "balance.updated"
  BY BalanceDraftNews
<1>3. ToSet(outs') = {BalanceDraft(user)}
  BY <1>1, OneElement
<1>4. \A e \in ToSet(outs') : e.event \notin {"trade.executed", "order.accepted"}
  BY <1>2, <1>3
<1>5. Told
  BY CreditTold
<1> QED
  BY <1>1, <1>4, <1>5, SameSides, CalmLedger

LEMMA RejectCancelLedger ==
  ASSUME LedgerInv, Inv, NEW user, NEW id, NEW side, NEW price,
         RejectCancel(user, id, side, price), UNCHANGED orders, Emit, Rows'
  PROVE  LedgerInv'
<1>1. /\ Idle /\ UNCHANGED <<taker, orderCount, bids, asks, accounts>>
      /\ outs' = <<Rejection(id, user)>>
  BY DEF RejectCancel
<1>2. Rejection(id, user).event = "order.rejected"
  BY DEF Rejection
<1>3. ToSet(outs') = {Rejection(id, user)}
  BY <1>1, OneElement
<1>4. \A e \in ToSet(outs') : e.event \notin {"trade.executed", "order.accepted"}
  BY <1>2, <1>3
<1>5. Told
  BY <1>1, RejectionTold
<1> QED
  BY <1>1, <1>4, <1>5, SameSides, CalmLedger

LEMMA CancelLedger ==
  ASSUME LedgerInv, Inv, NEW user \in Users, NEW id, NEW side \in Sides, NEW price,
         CancelOrder(user, id, side, price), UNCHANGED orders, Emit, Rows'
  PROVE  LedgerInv'
<1>1. PICK o \in RestingOrders(Levels(side)) :
        RestingOrders(Levels(side)') = RestingOrders(Levels(side)) \ {o}
  BY CancelEffect
<1>2. /\ Idle /\ UNCHANGED <<taker, orderCount>>
      /\ \A other \in Sides \ {side} : Levels(other)' = Levels(other)
  BY CancelEffect
<1>3. \A s \in Sides : RestingOrders(Levels(s)') \subseteq RestingOrders(Levels(s))
  <2> TAKE s \in Sides
  <2>1. CASE s = side
    BY <1>1, <2>1
  <2>2. CASE s # side
    BY <1>2, <2>2
  <2> QED
    BY <2>1, <2>2
<1>4. PICK delta, cancelled :
        /\ outs' = <<delta, BalanceDraft(user), cancelled>>
        /\ delta.event = "orderbook.delta"
        /\ cancelled.event = "order.cancelled" /\ cancelled.order = id
  BY DEF CancelOrder, DeltaDraft
<1>5. \A e \in ToSet(outs') : e.event \notin {"trade.executed", "order.accepted"}
  <2>1. BalanceDraft(user).event = "balance.updated"
    BY BalanceDraftNews
  <2> DEFINE b == BalanceDraft(user)
  <2> HIDE DEF b
  <2>2. /\ DOMAIN outs' = {1, 2, 3}
        /\ outs'[1] = delta /\ outs'[2] = BalanceDraft(user) /\ outs'[3] = cancelled
    BY <1>4, ThreeElements
  <2> QED
    BY <1>4, <2>1, <2>2 DEF ToSet
<1>6. Told
  BY CancelTold
<1> QED
  BY <1>2, <1>3, <1>5, <1>6, CalmLedger

LEMMA DropLedger ==
  ASSUME LedgerInv, Inv, NEW seq, DropIndexPrice(seq), UNCHANGED orders, Emit, Rows'
  PROVE  LedgerInv'
<1>1. Idle /\ UNCHANGED <<taker, orderCount, bids, asks, accounts>> /\ outs' = <<>>
  BY DEF DropIndexPrice
<1>2. ToSet(outs') = {}
  BY <1>1, EmptySeq DEF ToSet
<1>3. Told
  BY <1>1, NothingTold
<1> QED
  BY <1>1, <1>2, <1>3, SameSides, CalmLedger

LEMMA IndexPriceLedger ==
  ASSUME LedgerInv, Inv, NEW seq, NEW price, IndexPrice(seq, price), UNCHANGED orders, Emit, Rows'
  PROVE  LedgerInv'
<1> DEFINE hit == {u \in Users : IsLiquidatable(accounts[u].pos, price)}
           liq == [event |-> "position.liquidated", users |-> hit, price |-> price]
           e   == AccountDrafts(hit)
<1>1. /\ Idle /\ UNCHANGED <<taker, orderCount, bids, asks>>
      /\ outs' = <<>> \/ outs' = <<liq, e>>
  BY DEF IndexPrice
<1>2. liq.event = "position.liquidated" /\ e.event = "account.updated"
  BY DEF AccountDrafts
<1> HIDE DEF liq, e
<1>3. \A x \in ToSet(outs') : x.event \notin {"trade.executed", "order.accepted"}
  <2>1. CASE outs' = <<>>
    BY <2>1, EmptySeq DEF ToSet
  <2>2. CASE outs' = <<liq, e>>
    <3>1. ToSet(outs') = {liq, e}
      BY <2>2, TwoElements
    <3> QED
      BY <1>2, <3>1
  <2> QED
    BY <1>1, <2>1, <2>2
<1>4. Told
  BY IndexPriceTold
<1> QED
  BY <1>1, <1>3, <1>4, SameSides, CalmLedger

-----------------------------------------------------------------------------
(* Placing an order *)

LEMMA RestingKnown ==
  ASSUME Inv, NEW s \in Sides, NEW o \in RestingOrders(Levels(s))
  PROVE  /\ o.id \in Nat /\ o.id < Horizon /\ o.side = s
         /\ o.remaining \in Nat \ {0} /\ o.quantity \in Nat /\ o.remaining <= o.quantity
<1>1. o \in Older(Horizon) /\ o.side = s
  <2>1. Levels(s) \in LevelsOf(Prices, Older(Horizon)) /\ LevelsWellFormed(s, Levels(s))
    BY SideGood
  <2> QED
    BY <2>1, InputAssumption, RestingApart
<1> QED
  BY <1>1 DEF Older, RestingOrder

LEMMA YoungerRest ==
  ASSUME Inv, NEW id, id \in Nat, id >= Horizon
  PROVE  Resting(id) = {}
<1>1. \A s \in Sides : \A o \in RestingOrders(Levels(s)) : o.id # id
  BY RestingKnown, HorizonType
<1> QED
  BY <1>1, SidesOfBook DEF Resting

LEMMA EmittedPending ==
  ASSUME QueueInv, IsSequence(Emitted), Emit
  PROVE  /\ QueueInv' /\ fills' = fills
         /\ Pending' = Queued \cup ToSet(Emitted) \cup
                         (IF Idle' THEN {} ELSE ToSet(outs') \cup ToSet(taker'.reports))
<1>1. QueueInv' /\ Queued' = Queued \cup ToSet(Emitted)
  BY QueueEmitted
<1>2. Pending' = Queued' \cup (IF Idle' THEN {} ELSE ToSet(outs') \cup ToSet(taker'.reports))
  BY DEF Pending, Queued
<1> QED
  BY <1>1, <1>2 DEF Emit

\* The last steps are the same whatever joins the queue.
LEMMA NothingSoldLedger ==
  ASSUME LedgerInv, NEW N, NothingSold(N), Rows', QuietInv', QueueInv', OneSide',
         orderCount \in Nat, orderCount' \in Nat, orderCount <= orderCount'
  PROVE  LedgerInv'
<1>1. TradesInv' /\ SoldInv' /\ FilledInv'
  BY NothingSoldInv DEF LedgerInv
<1> QED
  BY <1>1 DEF LedgerInv

LEMMA RejectOrderLedger ==
  ASSUME LedgerInv, Inv, NEW o \in OrderInput, PlaceOrder(o), RejectOrder(o)
  PROVE  LedgerInv'
<1>1. /\ Idle /\ UNCHANGED <<taker, bids, asks, accounts>>
      /\ outs' = <<Rejection(orderCount + 1, o.user)>>
  BY DEF RejectOrder
<1>2. Rows /\ QueueInv /\ OneSide /\ Emit
  BY DEF LedgerInv, PlaceOrder
<1>3. /\ Rows' /\ orderCount \in Nat /\ orderCount' = orderCount + 1
      /\ DOMAIN orders = 1..orderCount /\ DOMAIN orders' = 1..(orderCount + 1)
      /\ orders'[orderCount + 1] = [user |-> o.user, quantity |-> o.quantity,
                                    status |-> "PENDING", filledQuantity |-> 0]
      /\ \A id \in 1..orderCount : orders'[id] = orders[id]
  BY <1>2, RowAdded
<1>4. Told
  <2>1. \A id \in DOMAIN orders' : id # orderCount + 1 =>
          id \in DOMAIN orders /\ orders'[id].status = orders[id].status
    BY <1>3
  <2> QED
    BY <1>1, <2>1, RejectionTold
<1>5. IsSequence(Emitted) /\ QuietInv'
  BY <1>4 DEF Told
<1>6. /\ QueueInv' /\ fills' = fills /\ Idle'
      /\ Pending' = Pending \cup ToSet(outs')
  BY <1>1, <1>2, <1>5, EmittedPending, IdlePending, IdleReported
<1>7. OneSide' /\ \A id : LeftOf(id)' \subseteq LeftOf(id)
  <2>1. DOMAIN orders \subseteq DOMAIN orders'
    BY <1>3
  <2> QED
    BY <1>1, <1>2, <2>1, SameSides, FewerRest
<1>8. LeftOf(orderCount + 1) = {}
  <2>1. Resting(orderCount + 1) = {}
    BY <1>1, <1>3, YoungerRest DEF Horizon
  <2> QED
    BY <1>1, <2>1 DEF LeftOf
<1>9. \A e \in ToSet(outs') : e.event = "order.rejected"
  BY <1>1, OneElement DEF Rejection
<1>10. FilledIn(ToSet(outs')) = {}
  BY <1>9, RowsOfMore
<1>11. NothingSold(ToSet(outs'))
  <2>1. \A id \in DOMAIN orders' \ DOMAIN orders :
          /\ id > orderCount
          /\ orders'[id].status # "FILLED" /\ LeftOf(id)' \subseteq {orders'[id].quantity}
    <3>1. \A id \in DOMAIN orders' \ DOMAIN orders : id = orderCount + 1
      BY <1>3
    <3> QED
      BY <1>3, <1>7, <1>8, <3>1
  <2>2. \A id \in DOMAIN orders :
          id \in DOMAIN orders' /\ orders'[id] = orders[id] /\ LeftOf(id)' \subseteq LeftOf(id)
    BY <1>3, <1>7
  <2> QED
    BY <1>6, <1>9, <1>10, <2>1, <2>2 DEF NothingSold
<1> QED
  BY <1>3, <1>5, <1>6, <1>7, <1>11, NothingSoldLedger

LEMMA BeginMatchLedger ==
  ASSUME LedgerInv, Inv, NEW o \in OrderInput, PlaceOrder(o), BeginMatch(o)
  PROVE  LedgerInv'
<1>1. /\ Idle /\ UNCHANGED <<bids, asks>>
      /\ taker'.id = orderCount + 1 /\ taker'.remaining = o.quantity
      /\ taker'.reports = <<>> /\ outs' = <<>>
  BY DEF BeginMatch
<1>2. /\ Rows /\ QueueInv /\ OneSide /\ Emit
      /\ \E row : orders' = Append(orders, row)
  BY DEF LedgerInv, PlaceOrder
<1>3. /\ Rows' /\ orderCount \in Nat /\ orderCount' = orderCount + 1
      /\ DOMAIN orders = 1..orderCount /\ DOMAIN orders' = 1..(orderCount + 1)
      /\ orders'[orderCount + 1] = [user |-> o.user, quantity |-> o.quantity,
                                    status |-> "PENDING", filledQuantity |-> 0]
      /\ \A id \in 1..orderCount : orders'[id] = orders[id]
  BY <1>2, RowAdded
<1>4. Told
  <2>1. PICK row : orders' = Append(orders, row)
    BY <1>2
  <2> QED
    BY <1>2, <2>1, BeginMatchTold
<1>5. IsSequence(Emitted) /\ QuietInv'
  BY <1>4 DEF Told
<1>6. ~Idle' /\ Emitted = <<>>
  BY <1>1, <1>3 DEF Idle, NoTaker, Emitted
<1>7. ToSet(outs') = {} /\ ToSet(taker'.reports) = {} /\ ToSet(Emitted) = {}
  BY <1>1, <1>6, EmptySeq DEF ToSet
<1>8. QueueInv' /\ fills' = fills /\ Pending' = Pending \cup {}
  <2>1. /\ QueueInv' /\ fills' = fills
        /\ Pending' = Queued \cup ToSet(Emitted) \cup
                        (IF Idle' THEN {} ELSE ToSet(outs') \cup ToSet(taker'.reports))
    BY <1>2, <1>5, EmittedPending
  <2>2. Pending = Queued
    BY <1>1, PendingOf
  <2> QED
    BY <1>6, <1>7, <2>1, <2>2
<1>9. OneSide'
  BY <1>1, <1>2, <1>3 DEF OneSide
<1>10. \A id : Resting(id)' = Resting(id)
  BY <1>1 DEF Resting
<1>11. Resting(orderCount + 1) = {}
  BY <1>1, <1>3, YoungerRest DEF Horizon
<1>12. FilledIn({}) = {}
  BY DEF FilledIn
<1>13. \A id \in DOMAIN orders : LeftOf(id)' \subseteq LeftOf(id)
  <2> TAKE id \in DOMAIN orders
  <2>1. id # taker'.id
    BY <1>1, <1>3
  <2> QED
    BY <1>10, <2>1 DEF LeftOf
<1>14. PICK t : t = orderCount + 1
  OBVIOUS
<1>15. LeftOf(t)' \subseteq {orders'[t].quantity}
  <2>1. Resting(t)' = {}
    BY <1>10, <1>11, <1>14
  <2>2. LeftOf(t)' \subseteq {taker'.remaining}
    BY <2>1 DEF LeftOf
  <2> QED
    BY <1>1, <1>3, <1>14, <2>2
<1>16. NothingSold({})
  <2>1. \A id \in DOMAIN orders' \ DOMAIN orders : id = t
    BY <1>3, <1>14
  <2>2. \A id \in DOMAIN orders' \ DOMAIN orders :
          /\ id > orderCount
          /\ orders'[id].status # "FILLED" /\ LeftOf(id)' \subseteq {orders'[id].quantity}
    BY <1>3, <1>14, <1>15, <2>1
  <2>3. \A id \in DOMAIN orders :
          id \in DOMAIN orders' /\ orders'[id] = orders[id] /\ LeftOf(id)' \subseteq LeftOf(id)
    BY <1>3, <1>13
  <2>4. taker'.id > orderCount
    BY <1>1, <1>3
  <2> QED
    BY <1>8, <1>12, <2>2, <2>3, <2>4 DEF NothingSold
<1> QED
  BY <1>3, <1>5, <1>8, <1>9, <1>16, NothingSoldLedger

-----------------------------------------------------------------------------
(* The end of a match *)

\* What it adds to what was said before, and which order it may call filled.
LEMMA EndMatchOuts ==
  ASSUME Inv, QuietInv, EndMatch
  PROVE  \E levels, drafts, own :
           /\ ToSet(outs') = ToSet(outs) \cup ToSet(taker.reports) \cup levels \cup {drafts, own}
           /\ \A e \in levels : e.event = "orderbook.delta"
           /\ drafts.event = "account.updated"
           /\ own.event = "order.accepted" /\ own.order = taker.id
           /\ own.status = "FILLED" => taker.remaining = 0
<1>1. ~Idle
  BY DEF EndMatch
<1>2. IsSequence(outs)
  BY DEF QuietInv
<1>3. taker.order.type \in {"LIMIT", "MARKET"} /\ taker.remaining \in Nat
  BY <1>1, TakerGood, OrderInputType
<1> DEFINE limit == taker.order.type = "LIMIT" /\ taker.remaining > 0
           delta == DeltaDraft(taker.order.side, taker.order.price,
                      InsertResting(Levels(taker.order.side),
                        [id |-> taker.id, user |-> taker.order.user, side |-> taker.order.side,
                         price |-> taker.order.price, quantity |-> taker.remaining,
                         remaining |-> taker.remaining, leverage |-> taker.order.leverage,
                         margin |-> MarginShare(taker.order, taker.remaining)]))
<1>4. limit => outs' = (outs \o <<delta>>) \o Closing(Partly("OPEN"))
  BY DEF EndMatch
<1>5. delta.event = "orderbook.delta" /\ Partly("OPEN") # "FILLED"
  BY DEF DeltaDraft, Partly
<1> HIDE DEF delta
<1>6. PICK before, status :
        /\ outs' = before \o Closing(status)
        /\ before = outs \/ before = outs \o <<delta>>
        /\ status = "FILLED" => taker.remaining = 0
  <2>1. CASE limit
    <3>1. PICK b, s : b = outs \o <<delta>> /\ s = Partly("OPEN")
      OBVIOUS
    <3>2. outs' = b \o Closing(s) /\ s # "FILLED"
      BY <1>4, <1>5, <2>1, <3>1
    <3> WITNESS b, s
    <3> QED
      BY <3>1, <3>2
  <2>2. CASE ~limit
    <3>1. PICK s : /\ outs' = outs \o Closing(s)
                   /\ s = "FILLED" => taker.remaining = 0
      BY <1>3, <2>2 DEF EndMatch, Partly
    <3> QED
      BY <3>1
  <2> QED
    BY <2>1, <2>2
<1> HIDE DEF limit
<1>7. PICK levels : /\ IsSequence(before) /\ ToSet(before) = ToSet(outs) \cup levels
                    /\ \A e \in levels : e.event = "orderbook.delta"
  <2>1. PICK some, none : some = {delta} /\ none = {}
    OBVIOUS
  <2>2. (\A e \in some : e.event = "orderbook.delta") /\ \A e \in none : e.event = "orderbook.delta"
    BY <1>5, <2>1
  <2>3. CASE before = outs
    <3>1. IsSequence(before) /\ ToSet(before) = ToSet(outs) \cup none
      BY <1>2, <2>1, <2>3
    <3> HIDE <2>1
    <3> QED
      BY <2>2, <3>1
  <2>4. CASE before = outs \o <<delta>>
    <3>1. IsSequence(<<delta>>) /\ ToSet(<<delta>>) = {delta}
      BY OneElement
    <3>2. IsSequence(before) /\ ToSet(before) = ToSet(outs) \cup some
      BY <1>2, <2>1, <2>4, <3>1, JoinedSets
    <3> HIDE <2>1
    <3> QED
      BY <2>2, <3>2
  <2> QED
    BY <1>6, <2>3, <2>4
<1> DEFINE drafts == AccountDrafts(taker.affected)
           own    == TakerReport(status)
<1>8. /\ drafts.event = "account.updated"
      /\ own.event = "order.accepted" /\ own.order = taker.id /\ own.status = status
  BY DEF AccountDrafts, TakerReport
<1>9. IsSequence(Closing(status)) /\ ToSet(Closing(status)) = ToSet(taker.reports) \cup {drafts, own}
  BY <1>1, ClosingSets
<1> HIDE DEF drafts, own
<1>10. ToSet(outs') = ToSet(before) \cup ToSet(Closing(status))
  BY <1>6, <1>7, <1>9, JoinedSets
<1>11. ToSet(outs') = ToSet(outs) \cup ToSet(taker.reports) \cup levels \cup {drafts, own}
  BY <1>7, <1>9, <1>10
<1> QED
  BY <1>6, <1>7, <1>8, <1>11

LEMMA EndMatchLedger ==
  ASSUME LedgerInv, Inv, EndMatch, UNCHANGED orders, Emit, Rows'
  PROVE  LedgerInv'
<1>1. /\ ~Idle /\ Idle' /\ taker' = NoTaker /\ orderCount' = orderCount
      /\ taker.id = orderCount /\ orderCount \in Nat \ {0} /\ Horizon = orderCount
  BY TakerGood DEF EndMatch, Idle
<1>2. QuietInv /\ Rows /\ QueueInv /\ OneSide
  BY DEF LedgerInv
<1>3. IsSequence(Emitted) /\ QuietInv' /\ Emitted = outs'
  BY <1>1, <1>2, EndMatchTold DEF Told, Emitted
<1>4. PICK levels, drafts, own :
        /\ ToSet(outs') = ToSet(outs) \cup ToSet(taker.reports) \cup levels \cup {drafts, own}
        /\ \A e \in levels : e.event = "orderbook.delta"
        /\ drafts.event = "account.updated"
        /\ own.event = "order.accepted" /\ own.order = taker.id
        /\ own.status = "FILLED" => taker.remaining = 0
  BY <1>2, EndMatchOuts
<1> DEFINE N == levels \cup {drafts, own}
<1>5. /\ QueueInv' /\ fills' = fills
      /\ Pending' = Queued \cup ToSet(Emitted)
  BY <1>1, <1>2, <1>3, EmittedPending
<1>6. Pending' = Pending \cup N
  <2>1. Pending = Queued \cup ToSet(outs) \cup ToSet(taker.reports)
    BY <1>1, PendingOf
  <2>2. Pending' = Queued \cup ToSet(outs')
    BY <1>3, <1>5
  <2> QED
    BY <1>4, <2>1, <2>2
<1>7. /\ \A e \in N : e.event # "trade.executed"
      /\ FilledIn(N) \subseteq {taker.id}
      /\ taker.id \in FilledIn(N) => taker.remaining = 0
  BY <1>4 DEF FilledIn
<1> HIDE DEF N
<1>8. PICK side \in Sides : side = taker.order.side
  BY <1>1, TakerSides
<1>9. Resting(taker.id) = {}
  BY <1>1, YoungerRest
<1>10. \/ /\ taker.remaining > 0
          /\ \E rest : /\ rest.id = taker.id /\ rest.remaining = taker.remaining
                       /\ RestingOrders(Levels(side)') = RestingOrders(Levels(side)) \cup {rest}
          /\ \A other \in Sides \ {side} : Levels(other)' = Levels(other)
       \/ UNCHANGED <<bids, asks>>
  BY <1>8, EndMatchEffect
<1>11. taker.remaining = 0 => UNCHANGED <<bids, asks>>
  BY <1>10
<1>12. PICK t, n : t = taker.id /\ n = taker.remaining
  OBVIOUS
<1>13. \A id : \A o \in Resting(id)' : o \in Resting(id) \/ (id = t /\ o.remaining = n)
  <2>1. CASE UNCHANGED <<bids, asks>>
    BY <2>1 DEF Resting
  <2>2. CASE ~UNCHANGED <<bids, asks>>
    <3>1. PICK rest : /\ rest.id = t /\ rest.remaining = n
                      /\ RestingOrders(Levels(side)') = RestingOrders(Levels(side)) \cup {rest}
      BY <1>10, <1>12, <2>2
    <3>2. \A s \in Sides : \A o \in RestingOrders(Levels(s)') : o \in RestingOrders(Levels(s)) \/ o = rest
      BY <1>10, <2>2, <3>1
    <3>3. \A o \in RestingOrders(bids') \cup RestingOrders(asks') :
            o \in RestingOrders(bids) \cup RestingOrders(asks) \/ o = rest
      BY <3>2, SidesOfBook
    <3> QED
      BY <3>1, <3>3 DEF Resting
  <2> QED
    BY <2>1, <2>2
<1>14. \A id : LeftOf(id)' \subseteq LeftOf(id)
  <2>1. \A id : LeftOf(id)' = {o.remaining : o \in Resting(id)'}
    BY <1>1 DEF LeftOf
  <2>2. \A id : \A o \in Resting(id) : o.remaining \in LeftOf(id)
    BY DEF LeftOf
  <2>3. n \in LeftOf(t)
    BY <1>1, <1>12 DEF LeftOf
  <2> QED
    BY <1>13, <2>1, <2>2, <2>3
<1>15. \A id \in FilledIn(N) : LeftOf(id)' = {} /\ 0 \in LeftOf(id) /\ id \in DOMAIN orders
  <2> TAKE id \in FilledIn(N)
  <2>1. id = t /\ n = 0
    BY <1>7, <1>12
  <2>2. \A x : Resting(x)' = Resting(x)
    BY <1>11, <1>12, <2>1 DEF Resting
  <2>3. LeftOf(t)' = {}
    BY <1>1, <1>9, <1>12, <2>2 DEF LeftOf
  <2>4. 0 \in LeftOf(t)
    BY <1>1, <1>12, <2>1 DEF LeftOf
  <2>5. t \in DOMAIN orders
    BY <1>1, <1>2, <1>12, SequenceLength DEF Rows
  <2> QED
    BY <2>1, <2>3, <2>4, <2>5
<1>16. OneSide'
  <2>1. CASE UNCHANGED <<bids, asks>>
    BY <1>2, <2>1 DEF OneSide
  <2>2. CASE ~UNCHANGED <<bids, asks>>
    <3>1. PICK rest : /\ rest.id = orderCount
                      /\ RestingOrders(Levels(side)') = RestingOrders(Levels(side)) \cup {rest}
      BY <1>1, <1>10, <2>2
    <3>2. \A s \in Sides : \A o \in RestingOrders(Levels(s)) : o.id # orderCount
      BY <1>1, RestingKnown
    <3>3. orderCount \in DOMAIN orders
      BY <1>1, <1>2, SequenceLength DEF Rows
    <3>4. \A s \in Sides : \A o \in RestingOrders(Levels(s)') :
            o \in RestingOrders(Levels(s)) \/ (s = side /\ o = rest)
      BY <1>10, <2>2, <3>1
    <3>5. /\ \A o \in RestingOrders(bids') : o \in RestingOrders(bids) \/ (side = "Bid" /\ o = rest)
          /\ \A o \in RestingOrders(asks') : o \in RestingOrders(asks) \/ (side = "Ask" /\ o = rest)
          /\ \A o \in RestingOrders(bids) : o.id # orderCount
          /\ \A o \in RestingOrders(asks) : o.id # orderCount
      BY <3>2, <3>4, SidesOfBook
    <3> QED
      BY <1>2, <3>1, <3>5, <3>3 DEF OneSide
  <2> QED
    BY <2>1, <2>2
<1>17. NothingSold(N)
  BY <1>1, <1>5, <1>6, <1>7, <1>14, <1>15 DEF NothingSold
<1> QED
  BY <1>1, <1>3, <1>5, <1>16, <1>17, NothingSoldLedger

-----------------------------------------------------------------------------
(* A fill *)

\* The best order of the other side is the maker of which the fill reports.
LEMMA FillOuts ==
  ASSUME MatchInv, QuietInv, Fill, NEW side \in Sides, side = Opposite(taker.order.side),
         NEW maker \in RestingOrders(Levels(side)), NEW after, Filled(side, maker, after)
  PROVE  \E trade, levels :
           /\ ToSet(outs') = ToSet(outs) \cup {trade} \cup levels
           /\ \A e \in levels : e.event = "orderbook.delta"
           /\ trade.event = "trade.executed"
           /\ trade.maker = maker.id /\ trade.taker = taker.id
           /\ trade.quantity = Least(taker.remaining, maker.remaining)
<1>1. Inv /\ IdsApart /\ ~Idle /\ CanFill
  BY DEF MatchInv, Fill
<1> DEFINE level     == Head(Levels(side))
           first     == Head(level.orders)
           quantity  == Least(taker.remaining, first.remaining)
           part      == RoundDiv(quantity * first.margin, first.remaining)
           served    == AfterFill(level.orders, FillMaker(first, quantity, part))
           levels    == SetOrders(Levels(side), 1, served)
           done      == served = <<>> \/ quantity = taker.remaining
           trade     == [event |-> "trade.executed", maker |-> first.id, taker |-> taker.id,
                         makerUser |-> first.user, takerUser |-> taker.order.user,
                         price |-> first.price, quantity |-> quantity, side |-> taker.order.side]
           delta     == DeltaDraft(side, level.price, levels)
           more      == IF done THEN <<delta>> ELSE <<>>
<1>2. /\ outs' = outs \o <<trade>> \o more
      /\ taker'.reports = Append(taker.reports, MakerReport(first, quantity))
  <2>1. taker \in TakerState
    BY <1>1, TakerGood
  <2> QED
    BY <2>1 DEF Fill, TakerState
<1>3. delta.event = "orderbook.delta"
  BY DEF DeltaDraft
<1>4. first \in RestingOrders(Levels(side))
  <2>1. Levels(side) \in LevelsOf(Prices, Older(Horizon)) /\ LevelsWellFormed(side, Levels(side))
    BY <1>1, SideGood
  <2>2. Levels(side) # <<>>
    BY <1>1 DEF CanFill
  <2>3. Head(Levels(side)) = Levels(side)[1] /\ Len(Levels(side)) \in Nat \ {0}
    BY <2>1, <2>2 DEF LevelsOf
  <2>4. Levels(side)[1].orders \in Seq(Older(Horizon)) \ {<<>>}
    <3>1. 1 \in 1..Len(Levels(side))
      BY <2>3
    <3> QED
      BY <2>1, <3>1, LevelType
  <2>5. first = Levels(side)[1].orders[1]
    BY <2>3, <2>4
  <2> QED
    BY <2>1, <2>2, <2>5, InputAssumption, BestOrder
<1>5. first = maker
  <2>1. IsSequence(taker.reports)
    BY <1>1, SequenceIn, TakerGood DEF TakerState
  <2>2. taker'.reports = Append(taker.reports, MakerReport(maker, Least(taker.remaining, maker.remaining)))
    BY <1>1, TakerGood DEF Filled, TakerState
  <2>3. MakerReport(first, quantity) = MakerReport(maker, Least(taker.remaining, maker.remaining))
    <3> DEFINE a == MakerReport(first, quantity)
               b == MakerReport(maker, Least(taker.remaining, maker.remaining))
    <3>1. taker'.reports = Append(taker.reports, a) /\ taker'.reports = Append(taker.reports, b)
      BY <1>2, <2>2
    <3> HIDE DEF a, b
    <3>2. /\ Append(taker.reports, a)[Len(taker.reports) + 1] = a
          /\ Append(taker.reports, b)[Len(taker.reports) + 1] = b
      BY <2>1, AppendedSequence
    <3>3. Append(taker.reports, a) = Append(taker.reports, b)
      BY <3>1
    <3>4. a = b
      BY <3>2, <3>3
    <3> QED
      BY <3>4 DEF a, b
  <2>4. MakerReport(first, quantity).order = first.id
    BY DEF MakerReport
  <2>5. MakerReport(maker, Least(taker.remaining, maker.remaining)).order = maker.id
    BY DEF MakerReport
  <2> QED
    BY <1>1, <1>4, <2>3, <2>4, <2>5 DEF IdsApart
<1>6. /\ trade.event = "trade.executed" /\ trade.maker = maker.id /\ trade.taker = taker.id
      /\ trade.quantity = Least(taker.remaining, maker.remaining)
  BY <1>5
<1> HIDE DEF trade, delta, done
<1>7. PICK said : /\ IsSequence(more) /\ ToSet(more) = said
                  /\ \A e \in said : e.event = "orderbook.delta"
  <2>1. CASE done
    <3>1. IsSequence(more) /\ ToSet(more) = {delta}
      BY <2>1, OneElement
    <3> QED
      BY <1>3, <3>1
  <2>2. CASE ~done
    <3>1. IsSequence(more) /\ ToSet(more) = {}
      BY <2>2, EmptyIsSequence, EmptySeq DEF ToSet
    <3> QED
      BY <3>1
  <2> QED
    BY <2>1, <2>2
<1> HIDE DEF more
<1>8. ToSet(outs') = ToSet(outs) \cup {trade} \cup said
  <2>1. IsSequence(outs) /\ IsSequence(<<trade>>) /\ ToSet(<<trade>>) = {trade}
    BY OneElement DEF QuietInv
  <2>2. IsSequence(outs \o <<trade>>) /\ ToSet(outs \o <<trade>>) = ToSet(outs) \cup {trade}
    BY <2>1, JoinedSets
  <2> QED
    BY <1>2, <1>7, <2>2, JoinedSets
<1> QED
  BY <1>6, <1>7, <1>8

LEMMA AppendedSet ==
  ASSUME NEW s, IsSequence(s), NEW e
  PROVE  /\ ToSet(Append(s, e)) = ToSet(s) \cup {e}
         /\ \A i \in DOMAIN s : i \in DOMAIN Append(s, e) /\ Append(s, e)[i] = s[i]
         /\ \E i \in DOMAIN Append(s, e) : Append(s, e)[i] = e
<1>1. PICK n : n = Len(s)
  OBVIOUS
<1>2. /\ n \in Nat /\ DOMAIN s = 1..n /\ DOMAIN Append(s, e) = 1..(n + 1)
      /\ Append(s, e)[n + 1] = e /\ \A k \in 1..n : Append(s, e)[k] = s[k]
  BY <1>1, AppendedSequence, SequenceLength
<1>3. \A k \in 1..(n + 1) : k \in 1..n \/ k = n + 1
  BY <1>2
<1>4. n + 1 \in 1..(n + 1) /\ \A k \in 1..n : k \in 1..(n + 1)
  BY <1>2
<1> QED
  BY <1>2, <1>3, <1>4 DEF ToSet

\* What is left of the maker, of the taker and of others.
LEMMA FillLeft ==
  ASSUME MatchInv, OneSide, Fill, NEW side \in Sides, side = Opposite(taker.order.side),
         NEW maker \in RestingOrders(Levels(side)), NEW after, Filled(side, maker, after),
         NEW m, m = maker.id, NEW t, t = taker.id,
         NEW left, left = maker.remaining, NEW n, n = taker.remaining,
         NEW q, q = Least(n, left)
  PROVE  /\ left \in LeftOf(m) /\ LeftOf(m)' \subseteq {left - q} /\ (q = left => LeftOf(m)' = {})
         /\ n \in LeftOf(t) /\ LeftOf(t)' \subseteq {n - q}
         /\ \A id : id \notin {m, t} => LeftOf(id)' \subseteq LeftOf(id)
<1>1. /\ ~Idle /\ taker \in TakerState /\ taker.id = orderCount /\ Horizon = orderCount
      /\ Inv /\ IdsApart /\ orderCount \in Nat
  BY TakerGood DEF MatchInv, Fill
<1>2. m \in Nat /\ m < t
  BY <1>1, RestingKnown
<1>3. ~Idle' /\ taker'.id = t /\ taker'.remaining = n - q
  BY <1>1 DEF Filled, TakerState, Idle, NoTaker
<1>4. after.id = m /\ after.remaining = left - q
  BY DEF Filled
<1>5. \A s \in Sides : \A o \in RestingOrders(Levels(s)') :
        \/ o = after /\ o.remaining > 0
        \/ o \in RestingOrders(Levels(s)) /\ (s = side => o # maker)
  <2>1. /\ RestingOrders(Levels(side)') =
             (RestingOrders(Levels(side)) \ {maker}) \cup {o \in {after} : o.remaining > 0}
        /\ \A other \in Sides \ {side} : Levels(other)' = Levels(other)
    BY DEF Filled
  <2> TAKE s \in Sides
  <2> QED
    BY <2>1
<1>6. \A s \in Sides : \A o \in RestingOrders(Levels(s)) : o.id = m => s = side /\ o = maker
  <2> TAKE s \in Sides
  <2> TAKE o \in RestingOrders(Levels(s))
  <2> HAVE o.id = m
  <2>1. s = side
    BY SidesOfBook DEF OneSide
  <2> QED
    BY <1>1, <2>1 DEF IdsApart
<1>7. \A id : \A o \in Resting(id)' :
        o.id = id /\ ((o = after /\ o.remaining > 0) \/ (o \in Resting(id) /\ id # m))
  <2> TAKE id
  <2> TAKE o \in Resting(id)'
  <2>1. o.id = id /\ \E s \in Sides : o \in RestingOrders(Levels(s)')
    BY SidesOfBook DEF Resting
  <2>2. PICK s \in Sides : o \in RestingOrders(Levels(s)')
    BY <2>1
  <2>3. CASE o = after /\ o.remaining > 0
    BY <2>1, <2>3
  <2>4. CASE o \in RestingOrders(Levels(s)) /\ (s = side => o # maker)
    <3>1. o \in Resting(id)
      BY <2>1, <2>4, SidesOfBook DEF Resting
    <3>2. id # m
      BY <1>6, <2>1, <2>4
    <3> QED
      BY <2>1, <3>1, <3>2
  <2> QED
    BY <1>5, <2>2, <2>3, <2>4
<1>8. left \in LeftOf(m)
  <2>1. maker \in Resting(m)
    BY SidesOfBook DEF Resting
  <2> QED
    BY <2>1 DEF LeftOf
<1>9. left \in Nat /\ after.remaining \in Int
  BY <1>1, RestingKnown DEF Filled
<1>10. LeftOf(m)' \subseteq {left - q} /\ (q = left => LeftOf(m)' = {})
  <2>1. LeftOf(m)' = {o.remaining : o \in Resting(m)'}
    BY <1>2, <1>1, <1>3 DEF LeftOf
  <2>2. \A o \in Resting(m)' : o.remaining = left - q /\ left - q > 0
    BY <1>4, <1>7
  <2>3. q = left => ~(left - q > 0)
    BY <1>9
  <2> QED
    BY <2>1, <2>2, <2>3
<1>11. n \in LeftOf(t) /\ LeftOf(t)' \subseteq {n - q}
  <2>1. Resting(t) = {}
    BY <1>1, YoungerRest
  <2>2. t # m
    BY <1>1, <1>2
  <2>3. Resting(t)' = {}
    BY <1>4, <1>7, <2>1, <2>2
  <2> QED
    BY <1>1, <1>3, <2>3 DEF LeftOf
<1>12. ASSUME NEW id, id \notin {m, t} PROVE LeftOf(id)' \subseteq LeftOf(id)
  <2>1. Resting(id)' \subseteq Resting(id)
    BY <1>4, <1>7, <1>12
  <2> QED
    BY <1>3, <1>12, <2>1 DEF LeftOf
<1> QED
  BY <1>8, <1>10, <1>11, <1>12

LEMMA FillLedger ==
  ASSUME LedgerInv, MatchInv, Fill, UNCHANGED orders, Emit, Rows'
  PROVE  LedgerInv'
<1>1. /\ Rows /\ QuietInv /\ QueueInv /\ TradesInv /\ OneSide /\ SoldInv /\ FilledInv
      /\ Inv /\ IdsApart /\ MakersGone /\ ~Idle /\ CanFill
  BY DEF LedgerInv, MatchInv, Fill
<1>2. /\ taker \in TakerState /\ taker.id = orderCount /\ orderCount \in Nat \ {0}
      /\ Horizon = orderCount /\ taker.remaining \in Nat \ {0} /\ IsSequence(taker.reports)
  BY <1>1, TakerGood, SequenceIn DEF CanFill, TakerState
<1>3. PICK side \in Sides : side = Opposite(taker.order.side)
  BY DEF Sides, Opposite
<1>4. PICK maker \in RestingOrders(Levels(side)) : \E after : Filled(side, maker, after)
  BY <1>1, <1>3, FillEffect
<1>5. PICK after : Filled(side, maker, after)
  BY <1>4
<1>6. PICK m, t, left, n, q : /\ m = maker.id /\ t = taker.id /\ left = maker.remaining
                              /\ n = taker.remaining /\ q = Least(n, left)
  OBVIOUS
<1>7. /\ m \in Nat /\ m < t /\ t = orderCount /\ left \in Nat \ {0} /\ n \in Nat \ {0}
      /\ maker.quantity \in Nat /\ left <= maker.quantity
      /\ q \in Nat \ {0} /\ q <= left /\ q <= n
  BY <1>1, <1>2, <1>6, RestingKnown DEF Least
<1>8. PICK report : report = MakerReport(maker, q)
  OBVIOUS
<1>9. /\ ~Idle' /\ taker'.id = t /\ orderCount' = orderCount
      /\ taker'.reports = Append(taker.reports, report)
  BY <1>2, <1>5, <1>6, <1>8 DEF Filled, TakerState, Idle, NoTaker
<1>10. /\ report.event = "order.accepted" /\ report.order = m
       /\ report.status = "FILLED" => q = left
  BY <1>6, <1>7, <1>8 DEF MakerReport
<1>11. /\ ToSet(taker'.reports) = ToSet(taker.reports) \cup {report}
       /\ \A i \in DOMAIN taker.reports :
            i \in DOMAIN taker'.reports /\ taker'.reports[i] = taker.reports[i]
       /\ \E i \in DOMAIN taker'.reports : taker'.reports[i] = report
  BY <1>2, <1>9, AppendedSet
<1>12. QuietInv' /\ IsSequence(Emitted) /\ ToSet(Emitted) = {}
  <2>1. Told
    BY <1>1, FillTold
  <2>2. Emitted = <<>>
    BY <1>9 DEF Emitted, Idle
  <2> QED
    BY <2>1, <2>2, EmptySeq DEF Told, ToSet
<1>13. PICK trade, levels :
         /\ ToSet(outs') = ToSet(outs) \cup {trade} \cup levels
         /\ \A e \in levels : e.event = "orderbook.delta"
         /\ trade.event = "trade.executed"
         /\ trade.maker = m /\ trade.taker = t /\ trade.quantity = q
  BY <1>1, <1>3, <1>5, <1>6, FillOuts
<1>14. PICK row : row = FillRow(trade)
  OBVIOUS
<1>15. row.maker = m /\ row.taker = t /\ row.quantity = q
  BY <1>13, <1>14 DEF FillRow
<1> DEFINE N == {trade, report} \cup levels
<1>16. QueueInv' /\ fills' = fills /\ Pending' = Pending \cup N
  <2>1. Pending = Queued \cup ToSet(outs) \cup ToSet(taker.reports)
    BY <1>1, PendingOf
  <2>2. /\ QueueInv' /\ fills' = fills
        /\ Pending' = Queued \cup ToSet(outs') \cup ToSet(taker'.reports)
    BY <1>1, <1>9, <1>12, EmittedPending
  <2> QED
    BY <1>11, <1>13, <2>1, <2>2
<1>17. TradeRows(N) = {row}
  BY <1>10, <1>13, <1>14 DEF TradeRows
<1>18. FilledIn(N) \subseteq {m} /\ (m \in FilledIn(N) => q = left)
  BY <1>10, <1>13 DEF FilledIn
<1> HIDE DEF N
<1>19. Ledger' = Ledger \cup {row}
  <2>1. TradeRows(Pending \cup N) = TradeRows(Pending) \cup {row}
    BY <1>17, RowsOfMore
  <2>2. TradeRows(Pending)' = TradeRows(Pending \cup N)
    BY <1>16 DEF TradeRows
  <2> QED
    BY <1>16, <2>1, <2>2 DEF Ledger
<1>20. SaidFilled' = SaidFilled \cup FilledIn(N)
  <2>1. FilledIn(Pending)' = FilledIn(Pending) \cup FilledIn(N)
    BY <1>16, RowsOfMore DEF FilledIn
  <2> QED
    BY <2>1 DEF SaidFilled
<1>21. row \notin Ledger
  <2> SUFFICES ASSUME row \in Ledger PROVE FALSE
    OBVIOUS
  <2>1. PICK i \in DOMAIN taker.reports : taker.reports[i].order = m
    BY <1>1, <1>6, <1>15 DEF TradesInv
  <2>2. taker.reports[i].order # maker.id
    BY <1>1, <1>3, <1>7, <1>6 DEF MakersGone
  <2> QED
    BY <1>6, <2>1, <2>2
<1>22. IsFiniteSet(Ledger) /\ \A f \in Ledger : f.quantity \in Nat
  BY <1>1 DEF TradesInv
<1>23. \A id : TradedIn(Ledger, id) \in Nat
  BY <1>22, TradedType
<1>24. \A id : TradedIn(Ledger', id) = TradedIn(Ledger, id) + (IF id \in {m, t} THEN q ELSE 0)
  <2> TAKE id
  <2>1. TradedIn(Ledger \cup {row}, id) =
          TradedIn(Ledger, id) + (IF id \in {row.maker, row.taker} THEN row.quantity ELSE 0)
    BY <1>7, <1>15, <1>21, <1>22, TradedMore
  <2> QED
    BY <1>15, <1>19, <2>1
<1>25. /\ left \in LeftOf(m) /\ LeftOf(m)' \subseteq {left - q} /\ (q = left => LeftOf(m)' = {})
       /\ n \in LeftOf(t) /\ LeftOf(t)' \subseteq {n - q}
       /\ \A id : id \notin {m, t} => LeftOf(id)' \subseteq LeftOf(id)
  BY <1>1, <1>3, <1>5, <1>6, FillLeft
<1>26. m \in DOMAIN orders
  BY <1>1, <1>6, SidesOfBook DEF OneSide
<1>27. TradesInv'
  <2>1. IsFiniteSet(Ledger')
    BY <1>19, <1>22, FS_AddElement
  <2>2. ASSUME NEW f \in Ledger
        PROVE  /\ f.quantity \in Nat
               /\ f.maker \in 0..orderCount /\ f.taker \in 0..orderCount
               /\ f.maker # t
               /\ f.taker = t => \E i \in DOMAIN taker'.reports : taker'.reports[i].order = f.maker
    BY <1>1, <1>6, <1>11 DEF TradesInv
  <2>3. /\ row.quantity \in Nat
        /\ row.maker \in 0..orderCount /\ row.taker \in 0..orderCount
        /\ row.maker # t
        /\ row.taker = t => \E i \in DOMAIN taker'.reports : taker'.reports[i].order = row.maker
    BY <1>2, <1>7, <1>10, <1>11, <1>15
  <2> QED
    BY <1>9, <1>19, <2>1, <2>2, <2>3 DEF TradesInv
<1>28. OneSide'
  <2>1. /\ RestingOrders(Levels(side)') =
             (RestingOrders(Levels(side)) \ {maker}) \cup {o \in {after} : o.remaining > 0}
        /\ \A other \in Sides \ {side} : Levels(other)' = Levels(other)
        /\ after.id = maker.id
    BY <1>5 DEF Filled
  <2>2. \A s \in Sides : \A o \in RestingOrders(Levels(s)') :
          \E p \in RestingOrders(Levels(s)) : p.id = o.id
    BY <2>1
  <2>3. /\ \A o \in RestingOrders(bids') : \E p \in RestingOrders(bids) : p.id = o.id
        /\ \A o \in RestingOrders(asks') : \E p \in RestingOrders(asks) : p.id = o.id
    BY <2>2, SidesOfBook
  <2> QED
    BY <1>1, <2>3 DEF OneSide
<1>29. \A id \in DOMAIN orders : orders[id].quantity \in Nat
  BY <1>1 DEF Rows
<1>30. SoldInv'
  <2> SUFFICES ASSUME NEW id \in DOMAIN orders
               PROVE  /\ TradedIn(Ledger', id) <= orders[id].quantity
                      /\ \A r \in LeftOf(id)' : TradedIn(Ledger', id) + r = orders[id].quantity
    BY DEF SoldInv
  <2>1. /\ TradedIn(Ledger, id) <= orders[id].quantity
        /\ \A r \in LeftOf(id) : TradedIn(Ledger, id) + r = orders[id].quantity
    BY <1>1 DEF SoldInv
  <2>2. CASE id = m
    <3>1. TradedIn(Ledger, id) + left = orders[id].quantity /\ TradedIn(Ledger', id) = TradedIn(Ledger, id) + q
      BY <1>24, <1>25, <2>1, <2>2
    <3> QED
      BY <1>7, <1>23, <1>25, <1>29, <2>2, <3>1
  <2>3. CASE id = t
    <3>1. TradedIn(Ledger, id) + n = orders[id].quantity /\ TradedIn(Ledger', id) = TradedIn(Ledger, id) + q
      BY <1>24, <1>25, <2>1, <2>3
    <3> QED
      BY <1>7, <1>23, <1>25, <1>29, <2>3, <3>1
  <2>4. CASE id \notin {m, t}
    <3>1. TradedIn(Ledger', id) = TradedIn(Ledger, id) /\ LeftOf(id)' \subseteq LeftOf(id)
      BY <1>23, <1>24, <1>25, <2>4
    <3> QED
      BY <2>1, <3>1
  <2> QED
    BY <2>2, <2>3, <2>4
<1>31. FilledInv'
  <2> SUFFICES ASSUME NEW id \in SaidFilled'
               PROVE  /\ id \in DOMAIN orders
                      /\ LeftOf(id)' = {} /\ TradedIn(Ledger', id) = orders[id].quantity
    BY DEF FilledInv
  <2>1. CASE id \in SaidFilled
    <3>1. /\ id \in DOMAIN orders /\ LeftOf(id) = {}
          /\ TradedIn(Ledger, id) = orders[id].quantity
      BY <1>1, <2>1 DEF FilledInv
    <3>2. id \notin {m, t}
      BY <1>25, <3>1
    <3> QED
      BY <1>23, <1>24, <1>25, <3>1, <3>2
  <2>2. CASE id \in FilledIn(N)
    <3>1. id = m /\ q = left
      BY <1>18, <2>2
    <3>2. TradedIn(Ledger, id) + left = orders[id].quantity
      BY <1>1, <1>25, <1>26, <3>1 DEF SoldInv
    <3> QED
      BY <1>24, <1>25, <1>26, <3>1, <3>2
  <2> QED
    BY <1>20, <2>1, <2>2
<1> QED
  BY <1>12, <1>16, <1>27, <1>28, <1>30, <1>31 DEF LedgerInv

-----------------------------------------------------------------------------
(* The writer *)

\* A step that publishes and projects nothing.
LEMMA SameLedger ==
  ASSUME LedgerInv, UNCHANGED <<vars, orders, fills>>, Queued' = Queued, QueueInv', Rows'
  PROVE  LedgerInv'
<1>1. /\ Rows /\ QuietInv /\ TradesInv /\ OneSide /\ SoldInv /\ FilledInv
      /\ UNCHANGED <<orderCount, taker, outs, bids, asks, Idle>>
  BY DEF LedgerInv, vars, Idle
<1>2. Pending' = Pending
  BY <1>1, PendingOf DEF Pending, Queued
<1>3. Ledger' = Ledger /\ SaidFilled' = SaidFilled
  BY <1>2 DEF Ledger, SaidFilled, TradeRows, FilledIn
<1>4. \A id : LeftOf(id)' = LeftOf(id)
  BY <1>1 DEF LeftOf, Resting
<1>5. QuietInv'
  BY <1>1 DEF QuietInv
<1>6. OneSide'
  BY <1>1 DEF OneSide
<1>7. TradesInv'
  BY <1>1, <1>3 DEF TradesInv
<1>8. SoldInv'
  BY <1>1, <1>3, <1>4 DEF SoldInv
<1>9. FilledInv'
  BY <1>1, <1>3, <1>4 DEF FilledInv
<1> QED
  BY <1>5, <1>6, <1>7, <1>8, <1>9 DEF LedgerInv

\* What an event makes of the rows of fills and of the orders that are filled.
LEMMA EventWritten ==
  ASSUME Rows, NEW e, ApplyEvent(e)
  PROVE  /\ fills' = fills \cup TradeRows({e})
         /\ DOMAIN orders' = DOMAIN orders
         /\ \A id \in DOMAIN orders :
              /\ orders'[id].quantity = orders[id].quantity
              /\ orders'[id].status = "FILLED" =>
                   orders[id].status = "FILLED" \/ id \in FilledIn({e})
<1>1. /\ DOMAIN orders' = DOMAIN orders
      /\ \A id \in DOMAIN orders :
           /\ orders'[id].quantity = orders[id].quantity
           /\ orders'[id].status =
                IF id \in DOMAIN StatusNews(e) THEN StatusNews(e)[id] ELSE orders[id].status
  BY EventApplied
<1>2. fills' = fills \cup TradeRows({e})
  <2>1. CASE e.event = "trade.executed"
    <3>1. TradeRows({e}) = {FillRow(e)}
      BY <2>1 DEF TradeRows
    <3>2. fills' = fills \cup {FillRow(e)}
      BY <2>1 DEF ApplyEvent, OrderAccepted, OrderRejected, OrderCancelled, TradeExecuted,
                  BalanceUpdated, AccountsUpdated, OtherEvent
    <3> QED
      BY <3>1, <3>2
  <2>2. CASE e.event # "trade.executed"
    <3>1. TradeRows({e}) = {}
      BY <2>2 DEF TradeRows
    <3>2. fills' = fills
      BY <2>2 DEF ApplyEvent, OrderAccepted, OrderRejected, OrderCancelled, TradeExecuted,
                  BalanceUpdated, AccountsUpdated, OtherEvent, SetStatus
    <3> QED
      BY <3>1, <3>2
  <2> QED
    BY <2>1, <2>2
<1>3. ASSUME NEW id \in DOMAIN StatusNews(e), StatusNews(e)[id] = "FILLED"
      PROVE  id \in FilledIn({e})
  <2>1. e.event \in {"order.accepted", "order.rejected", "order.cancelled"}
    BY <1>3, OtherNews
  <2>2. e.event = "order.accepted" /\ id = e.order /\ RowStatus(e.status) = "FILLED"
    BY <1>3, <2>1, StatusOf
  <2>3. e.status = "FILLED"
    BY <2>2 DEF RowStatus
  <2> QED
    BY <2>2, <2>3 DEF FilledIn
<1> QED
  BY <1>1, <1>2, <1>3

\* An event that waited is projected.
LEMMA ProjectedLedger ==
  ASSUME LedgerInv, UNCHANGED <<vars, inFlight>>, NEW e, ApplyEvent(e),
         Queued = Queued' \cup {e}, QueueInv'
  PROVE  LedgerInv'
<1>1. /\ Rows /\ QuietInv /\ TradesInv /\ OneSide /\ SoldInv /\ FilledInv
      /\ UNCHANGED <<orderCount, taker, outs, bids, asks, Idle>>
  BY DEF LedgerInv, vars, Idle
<1>2. /\ fills' = fills \cup TradeRows({e})
      /\ DOMAIN orders' = DOMAIN orders
      /\ \A id \in DOMAIN orders :
           /\ orders'[id].quantity = orders[id].quantity
           /\ orders'[id].status = "FILLED" =>
                orders[id].status = "FILLED" \/ id \in FilledIn({e})
  BY <1>1, EventWritten
<1>3. Rows'
  <2>1. /\ DOMAIN wallets' = Users /\ DOMAIN positions' = Users
        /\ IsSequence(orders') /\ Len(orders') = Len(orders)
        /\ \A id \in DOMAIN orders : DOMAIN orders'[id] = Columns /\ orders'[id].user = orders[id].user
    BY <1>1, EventApplied
  <2> QED
    BY <1>1, <1>2, <2>1 DEF Rows, Columns
<1>4. PICK after : after = Pending'
  OBVIOUS
<1>5. Pending = after \cup {e}
  <2>1. PICK more : more = IF Idle THEN {} ELSE ToSet(outs) \cup ToSet(taker.reports)
    OBVIOUS
  <2>2. Pending = Queued \cup more
    BY <2>1, PendingOf
  <2>3. Pending' = Queued' \cup more
    BY <1>1, <2>1 DEF Pending, Queued
  <2> QED
    BY <1>4, <2>2, <2>3
<1>6. Ledger' = Ledger
  <2>1. TradeRows(Pending) = TradeRows(after) \cup TradeRows({e})
    BY <1>5, RowsOfMore
  <2>2. Ledger' = fills' \cup TradeRows(after)
    BY <1>4 DEF Ledger, TradeRows
  <2> QED
    BY <1>2, <2>1, <2>2 DEF Ledger
<1>7. SaidFilled' \subseteq SaidFilled
  <2>1. FilledIn(Pending) = FilledIn(after) \cup FilledIn({e})
    BY <1>5, RowsOfMore
  <2>2. SaidFilled' = {id \in DOMAIN orders' : orders'[id].status = "FILLED"} \cup FilledIn(after)
    BY <1>4 DEF SaidFilled, FilledIn
  <2> QED
    BY <1>2, <2>1, <2>2 DEF SaidFilled
<1>8. \A id : LeftOf(id)' = LeftOf(id)
  BY <1>1 DEF LeftOf, Resting
<1>9. QuietInv'
  BY <1>1 DEF QuietInv
<1>10. OneSide'
  BY <1>1, <1>2 DEF OneSide
<1>11. TradesInv'
  BY <1>1, <1>6 DEF TradesInv
<1>12. SoldInv'
  BY <1>1, <1>2, <1>6, <1>8 DEF SoldInv
<1>13. FilledInv'
  BY <1>1, <1>2, <1>6, <1>7, <1>8 DEF FilledInv
<1> QED
  BY <1>3, <1>9, <1>10, <1>11, <1>12, <1>13 DEF LedgerInv

LEMMA ProjectLedger ==
  ASSUME LedgerInv, Project
  PROVE  LedgerInv'
<1>1. PICK n, d : n = Len(queue) /\ d = Head(queue)
  OBVIOUS
<1>2. /\ queue # <<>> /\ ProjectEvent(d) /\ queue' = Tail(queue)
      /\ \A h \in unacked' : h \in unacked \/ h = d
      /\ UNCHANGED <<vars, published, inFlight>>
  BY <1>1 DEF Project
<1>3. /\ IsSequence(queue) /\ published \in Nat /\ processed \subseteq 1..published
      /\ \A k \in DOMAIN queue : queue[k].id \in 1..published \ processed
      /\ \A k, m \in DOMAIN queue : queue[k].id = queue[m].id => k = m
      /\ \A h \in unacked : h.id \in processed
  BY DEF LedgerInv, QueueInv
<1>4. /\ n \in Nat \ {0} /\ d = queue[1] /\ DOMAIN queue = 1..n
      /\ IsSequence(queue') /\ Len(queue') = n - 1
      /\ \A k \in 1..(n - 1) : queue'[k] = queue[k + 1]
  BY <1>1, <1>2, <1>3, HeadAndTail, SequenceLength
<1>5. DOMAIN queue' = 1..(n - 1)
  BY <1>4, SequenceLength
<1>6. d.id \in 1..published \ processed
  BY <1>3, <1>4
<1>7. processed' = processed \cup {d.id} /\ ApplyEvent(d.event)
  BY <1>2, <1>6 DEF ProjectEvent
<1>8. \A k \in DOMAIN queue' : k + 1 \in DOMAIN queue /\ k + 1 # 1 /\ queue'[k] = queue[k + 1]
  BY <1>4, <1>5
<1>9. QueueInv'
  <2>1. ASSUME NEW k \in DOMAIN queue' PROVE queue'[k].id \in 1..published \ processed'
    <3>1. queue[k + 1].id \in 1..published \ processed /\ queue[k + 1].id # queue[1].id
      BY <1>3, <1>4, <1>8
    <3> QED
      BY <1>4, <1>7, <1>8, <3>1
  <2>2. ASSUME NEW k \in DOMAIN queue', NEW m \in DOMAIN queue', queue'[k].id = queue'[m].id
        PROVE  k = m
    <3>1. k + 1 = m + 1
      BY <1>3, <1>8, <2>2
    <3> QED
      BY <1>4, <1>5, <3>1
  <2>3. \A h \in unacked' : h.id \in processed'
    BY <1>2, <1>3, <1>7
  <2>4. processed' \subseteq 1..published
    BY <1>3, <1>6, <1>7
  <2> QED
    BY <1>2, <1>3, <1>4, <2>1, <2>2, <2>3, <2>4 DEF QueueInv
<1>10. Queued = Queued' \cup {d.event}
  <2>1. ASSUME NEW x \in Queued PROVE x \in Queued' \cup {d.event}
    <3>1. PICK k \in 1..n : x = queue[k].event
      BY <1>4 DEF Queued, ToSet
    <3>2. CASE k = 1
      BY <1>4, <3>1, <3>2
    <3>3. CASE k # 1
      <4>1. k - 1 \in 1..(n - 1) /\ (k - 1) + 1 = k
        BY <1>4, <3>3
      <4>2. queue'[k - 1] = queue[k]
        BY <1>4, <4>1
      <4> QED
        BY <1>5, <3>1, <4>1, <4>2 DEF Queued, ToSet
    <3> QED
      BY <3>2, <3>3
  <2>2. ASSUME NEW x \in Queued' PROVE x \in Queued
    <3>1. PICK k \in DOMAIN queue' : x = queue'[k].event
      BY DEF Queued, ToSet
    <3> QED
      BY <1>8, <3>1 DEF Queued, ToSet
  <2>3. d.event \in Queued
    <3>1. 1 \in DOMAIN queue
      BY <1>4
    <3> QED
      BY <1>4, <3>1 DEF Queued, ToSet
  <2> QED
    BY <2>1, <2>2, <2>3
<1> QED
  BY <1>2, <1>7, <1>9, <1>10, ProjectedLedger

LEMMA RedeliverLedger ==
  ASSUME LedgerInv, NEW d, Redeliver(d)
  PROVE  LedgerInv'
<1>1. QueueInv /\ Rows
  BY DEF LedgerInv
<1>2. d.id \in processed
  BY <1>1 DEF Redeliver, QueueInv
<1>3. UNCHANGED <<vars, dbVars, queue, published, inFlight>> /\ unacked' \subseteq unacked
  BY <1>2 DEF Redeliver, ProjectEvent
<1>4. Queued' = Queued
  BY <1>3 DEF Queued
<1>5. QueueInv'
  BY <1>1, <1>3 DEF QueueInv, dbVars
<1>6. Rows'
  BY <1>1, <1>3 DEF Rows, vars, dbVars
<1> QED
  BY <1>3, <1>4, <1>5, <1>6, SameLedger DEF dbVars

\* A transaction fails and its event is retried later.
LEMMA PutOffLedger ==
  ASSUME LedgerInv, NEW later \in 1..(Len(queue) - 1), PutOff(later)
  PROVE  LedgerInv'
<1>1. PICK n, d, at : n = Len(queue) /\ d = Head(queue) /\ at = later + 1
  OBVIOUS
<1>2. /\ queue' = InsertAt(Tail(queue), at, d)
      /\ UNCHANGED <<vars, dbVars, unacked, published, inFlight>>
  BY <1>1 DEF PutOff
<1>3. /\ IsSequence(queue) /\ Rows
      /\ \A k \in DOMAIN queue : queue[k].id \in 1..published \ processed
      /\ \A k, m \in DOMAIN queue : queue[k].id = queue[m].id => k = m
  BY DEF LedgerInv, QueueInv
<1>4. n \in Nat /\ later \in 1..(n - 1) /\ DOMAIN queue = 1..n
  BY <1>1, <1>3, SequenceLength
<1>5. /\ n \in Nat \ {0} /\ at \in 2..n /\ queue # <<>>
  BY <1>1, <1>4, EmptySeq
<1>6. /\ d = queue[1] /\ IsSequence(Tail(queue)) /\ Len(Tail(queue)) = n - 1
      /\ \A k \in 1..(n - 1) : Tail(queue)[k] = queue[k + 1]
  BY <1>1, <1>3, <1>5, HeadAndTail
<1>7. PICK S : S = {queue[k] : k \in DOMAIN queue}
  OBVIOUS
<1>8. Tail(queue) \in Seq(S) /\ d \in S
  <2>1. queue \in Seq(S)
    BY <1>3, <1>7 DEF IsSequence
  <2>2. Tail(queue) \in Seq(S)
    BY <1>5, <2>1
  <2>3. 1 \in DOMAIN queue
    BY <1>4, <1>5
  <2> QED
    BY <1>6, <1>7, <2>2, <2>3
<1>9. /\ queue' \in Seq(S) /\ Len(queue') = n /\ queue'[at] = queue[1]
      /\ \A j \in 1..n : /\ j < at => queue'[j] = queue[j + 1]
                         /\ j > at => queue'[j] = queue[j]
  <2>1. PICK s \in Seq(S) : s = Tail(queue)
    BY <1>8
  <2>2. Len(s) = n - 1 /\ at \in 1..(Len(s) + 1) /\ (n - 1) + 1 = n
    BY <1>5, <1>6, <2>1
  <2>3. at \in 1..(Len(s) + 1) /\ d \in S /\ queue' = InsertAt(s, at, d)
    BY <1>2, <1>8, <2>1, <2>2
  <2>4. queue' \in Seq(S) /\ Len(queue') = Len(s) + 1 /\ queue'[at] = d
    <3> HIDE <1>7, <2>1
    <3> QED
      BY <2>3, InsertAtResult
  <2>5. \A j \in 1..n :
          (j < at => queue'[j] = s[j]) /\ (j > at => queue'[j] = s[j - 1])
    <3> HIDE <1>7, <2>1
    <3> TAKE j \in 1..n
    <3>1. j \in 1..(Len(s) + 1)
      BY <2>2
    <3> QED
      BY <2>3, <3>1, InsertAtElement
  <2>6. \A k \in 1..(n - 1) : s[k] = queue[k + 1]
    BY <1>6, <2>1
  <2>7. ASSUME NEW j \in 1..n, j < at PROVE queue'[j] = queue[j + 1]
    BY <1>5, <2>5, <2>6, <2>7
  <2>8. ASSUME NEW j \in 1..n, j > at PROVE queue'[j] = queue[j]
    <3>1. j - 1 \in 1..(n - 1) /\ (j - 1) + 1 = j
      BY <1>5, <2>8
    <3> QED
      BY <2>5, <2>6, <2>8, <3>1
  <2> QED
    BY <1>6, <2>2, <2>4, <2>7, <2>8
<1>10. IsSequence(queue') /\ DOMAIN queue' = 1..n
  BY <1>9, SequenceIn, SequenceLength
<1> DEFINE from == [j \in 1..n |-> IF j < at THEN j + 1 ELSE IF j = at THEN 1 ELSE j]
<1>11. \A j \in 1..n : from[j] \in 1..n /\ queue'[j] = queue[from[j]]
  BY <1>5, <1>9
<1>12. \A j, k \in 1..n : from[j] = from[k] => j = k
  BY <1>5
<1>13. \A i \in 1..n : \E j \in 1..n : from[j] = i
  <2> TAKE i \in 1..n
  <2>1. PICK j \in 1..n : j = IF i = 1 THEN at ELSE IF i <= at THEN i - 1 ELSE i
    BY <1>5
  <2>2. from[j] = i
    BY <1>5, <2>1
  <2> QED
    BY <2>2
<1> HIDE DEF from
<1>14. Queued' = Queued
  <2>1. Queued = {queue[i].event : i \in 1..n}
    BY <1>4 DEF Queued, ToSet
  <2>2. Queued' = {queue'[j].event : j \in 1..n}
    BY <1>10 DEF Queued, ToSet
  <2>3. \A i \in 1..n : queue[i].event \in Queued'
    <3> TAKE i \in 1..n
    <3>1. PICK j \in 1..n : from[j] = i
      BY <1>13
    <3>2. queue'[j] = queue[i]
      BY <1>11, <3>1
    <3> QED
      BY <2>2, <3>2
  <2>4. \A j \in 1..n : queue'[j].event \in Queued
    <3> TAKE j \in 1..n
    <3>1. from[j] \in 1..n /\ queue'[j] = queue[from[j]]
      BY <1>11
    <3> QED
      BY <2>1, <3>1
  <2> QED
    BY <2>1, <2>2, <2>3, <2>4
<1>15. QueueInv'
  <2>1. \A k \in DOMAIN queue' : queue'[k].id \in 1..published \ processed
    BY <1>3, <1>4, <1>10, <1>11
  <2>2. \A k, m \in DOMAIN queue' : queue'[k].id = queue'[m].id => k = m
    BY <1>3, <1>4, <1>10, <1>11, <1>12
  <2> QED
    BY <1>2, <1>10, <2>1, <2>2 DEF LedgerInv, QueueInv, dbVars
<1>16. Rows'
  BY <1>2, <1>3 DEF Rows, vars, dbVars
<1> QED
  BY <1>2, <1>14, <1>15, <1>16, SameLedger DEF dbVars

LEMMA OnrampLedger ==
  ASSUME LedgerInv, NEW user \in Users, NEW amount \in Amounts, Onramp(user, amount)
  PROVE  LedgerInv'
<1>1. QueueInv /\ Rows
  BY DEF LedgerInv
<1>2. /\ UNCHANGED <<vars, orders, positions, fills, processed, streamVars>>
      /\ inFlight' = [inFlight EXCEPT ![user][amount] = @ + 1]
      /\ DOMAIN wallets' = DOMAIN wallets
  BY DEF Onramp
<1>3. Queued' = Queued
  BY <1>2 DEF Queued, streamVars
<1>4. QueueInv'
  BY <1>1, <1>2 DEF QueueInv, streamVars
<1>5. Rows'
  <2> DEFINE n == inFlight[user][amount] + 1
  <2>1. inFlight \in [Users -> [Amounts -> Nat]] /\ n \in Nat
    BY <1>1 DEF Rows
  <2>2. inFlight' = [inFlight EXCEPT ![user][amount] = n]
    BY <1>2
  <2> HIDE DEF n
  <2>3. inFlight' \in [Users -> [Amounts -> Nat]]
    BY <2>1, <2>2, DepositsMove
  <2> QED
    BY <1>1, <1>2, <2>3 DEF Rows, vars
<1> QED
  BY <1>2, <1>3, <1>4, <1>5, SameLedger

LEMMA StutterLedger ==
  ASSUME LedgerInv, UNCHANGED allVars
  PROVE  LedgerInv'
<1>1. UNCHANGED <<vars, dbVars, streamVars, inFlight>>
  BY DEF allVars, projectionVars
<1>2. Queued' = Queued
  BY <1>1 DEF Queued, streamVars
<1>3. QueueInv' /\ Rows'
  BY <1>1 DEF LedgerInv, QueueInv, Rows, streamVars, dbVars, vars
<1> QED
  BY <1>1, <1>2, <1>3, SameLedger DEF dbVars

-----------------------------------------------------------------------------
(* The ledger always matches the book *)

LEMMA LedgerStep ==
  ASSUME MatchInv, LedgerInv, [PNext]_allVars
  PROVE  MatchInv' /\ LedgerInv'
<1>1. Inv /\ Rows
  BY DEF MatchInv, LedgerInv
<1>2. MatchInv'
  BY <1>1, EngineStepInv
<1>3. ASSUME NEW o \in OrderInput, PlaceOrder(o) PROVE LedgerInv'
  <2>1. RejectOrder(o) \/ BeginMatch(o)
    BY <1>3 DEF PlaceOrder
  <2> QED
    BY <1>1, <1>3, <2>1, RejectOrderLedger, BeginMatchLedger
<1>4. ASSUME NEW id \in DOMAIN orders, NEW side \in Sides, NEW price \in Prices,
             DeleteOrder(id, side, price)
      PROVE  LedgerInv'
  <2>1. PICK user \in Users : user = orders[id].user
    BY <1>1 DEF Rows
  <2>2. /\ CancelOrder(user, id, side, price) \/ RejectCancel(user, id, side, price)
        /\ Emit /\ UNCHANGED <<orders, inFlight>>
    BY <1>4, <2>1 DEF DeleteOrder
  <2>3. Rows'
    BY <1>1, <2>2, SameRows DEF CancelOrder, RejectCancel
  <2> QED
    BY <1>1, <2>2, <2>3, CancelLedger, RejectCancelLedger
<1>5. ASSUME NEW user \in Users, SignUp(user) PROVE LedgerInv'
  <2>1. CreditUser(user, 0) /\ Emit /\ UNCHANGED <<orders, inFlight, orderCount>>
    BY <1>5 DEF SignUp, CreditUser
  <2> QED
    BY <1>1, <2>1, SameRows, CreditLedger
<1>6. ASSUME NEW user \in Users, NEW amount \in Amounts, Deposit(user, amount) PROVE LedgerInv'
  <2> DEFINE n == inFlight[user][amount] - 1
  <2>1. inFlight \in [Users -> [Amounts -> Nat]] /\ n \in Nat
    BY <1>1, <1>6 DEF Rows, Deposit
  <2>2. /\ CreditUser(user, amount) /\ Emit /\ UNCHANGED <<orders, orderCount, wallets, positions>>
        /\ inFlight' = [inFlight EXCEPT ![user][amount] = n]
    BY <1>6 DEF Deposit, CreditUser, Emit
  <2> HIDE DEF n
  <2>3. inFlight' \in [Users -> [Amounts -> Nat]]
    BY <2>1, <2>2, DepositsMove
  <2>4. Rows'
    BY <1>1, <2>2, <2>3 DEF Rows
  <2> QED
    BY <1>1, <2>2, <2>4, CreditLedger
<1>7. ASSUME Continue PROVE LedgerInv'
  <2>1. Emit /\ UNCHANGED <<orders, inFlight>>
    BY <1>7 DEF Continue
  <2>2. orderCount' = orderCount
    BY <1>7 DEF Continue, Match, Fill, EndMatch, DropIndexPrice, IndexPrice
  <2>3. Rows'
    BY <1>1, <2>1, <2>2, SameRows
  <2> QED
    BY <1>1, <1>7, <2>1, <2>3, FillLedger, EndMatchLedger, DropLedger, IndexPriceLedger
       DEF Continue, Match
<1> QED
  BY <1>2, <1>3, <1>4, <1>5, <1>6, <1>7, OnrampLedger, ProjectLedger, RedeliverLedger,
     PutOffLedger, StutterLedger
     DEF PNext

LEMMA LedgerInit ==
  ASSUME PInit
  PROVE  MatchInv /\ LedgerInv
<1>1. MatchInv /\ Rows /\ QuietInv
  BY ProjectionInit DEF ProjectionInv
<1>2. /\ Idle /\ bids = <<>> /\ asks = <<>> /\ orders = <<>> /\ fills = {} /\ processed = {}
      /\ queue = <<>> /\ unacked = {} /\ published = 0
  BY DEF PInit, Init, Idle
<1>3. IsSequence(<<>>) /\ Len(<<>>) = 0 /\ DOMAIN <<>> = {}
  BY EmptyIsSequence, EmptySeq
<1>4. QueueInv
  BY <1>2, <1>3 DEF QueueInv
<1>5. Pending = {} /\ Ledger = {}
  BY <1>2, <1>3 DEF Pending, Ledger, TradeRows, ToSet
<1>6. RestingOrders(bids) = {} /\ RestingOrders(asks) = {}
  BY <1>2, <1>3 DEF RestingOrders
<1>7. TradesInv
  BY <1>5, FS_EmptySet DEF TradesInv
<1>8. OneSide
  BY <1>6 DEF OneSide
<1>9. SoldInv /\ FilledInv
  BY <1>2, <1>3, <1>5 DEF SoldInv, FilledInv, SaidFilled, FilledIn
<1> QED
  BY <1>1, <1>4, <1>7, <1>8, <1>9 DEF LedgerInv

LEMMA LedgerInvHolds == PSpec => [](MatchInv /\ LedgerInv)
<1>1. PInit => MatchInv /\ LedgerInv
  BY LedgerInit
<1>2. (MatchInv /\ LedgerInv) /\ [PNext]_allVars => (MatchInv /\ LedgerInv)'
  BY LedgerStep
<1> QED
  BY <1>1, <1>2, PTL DEF PSpec

LEMMA LedgerIsFills ==
  ASSUME CaughtUp
  PROVE  Ledger = fills
<1>1. Pending = {}
  BY EmptySeq DEF CaughtUp, Pending, ToSet
<1> QED
  BY <1>1 DEF Ledger, TradeRows

\* When the writer has caught up, what an order has traded by the ledger and
\* what is left of it in the book are its quantity: in whatever order events are
\* projected, however often, no trade is lost or counted twice.
THEOREM LedgerAlwaysMatchesBook == PSpec => []LedgerMatchesBook
<1>1. LedgerInv => LedgerMatchesBook
  <2> SUFFICES ASSUME LedgerInv, CaughtUp, NEW id \in DOMAIN orders
               PROVE  /\ \A o \in Resting(id) : Traded(id) + o.remaining = orders[id].quantity
                      /\ Traded(id) <= orders[id].quantity
    BY DEF LedgerMatchesBook
  <2>1. Traded(id) = TradedIn(Ledger, id)
    BY LedgerIsFills DEF Traded
  <2>2. \A o \in Resting(id) : o.remaining \in LeftOf(id)
    BY DEF LeftOf
  <2> QED
    BY <2>1, <2>2 DEF LedgerInv, SoldInv
<1> QED
  BY <1>1, LedgerInvHolds, PTL

\* An order that the database calls filled is not in the book, at any moment,
\* and the ledger has all of its quantity once the writer has caught up.
THEOREM FilledAlwaysFinal == PSpec => []FilledIsFinal
<1>1. LedgerInv => FilledIsFinal
  <2> SUFFICES ASSUME LedgerInv, NEW id \in DOMAIN orders, orders[id].status = "FILLED"
               PROVE  Resting(id) = {} /\ (CaughtUp => Traded(id) = orders[id].quantity)
    BY DEF FilledIsFinal
  <2>1. LeftOf(id) = {} /\ TradedIn(Ledger, id) = orders[id].quantity
    BY DEF LedgerInv, FilledInv, SaidFilled
  <2>2. Resting(id) = {}
    BY <2>1 DEF LeftOf
  <2> QED
    BY <2>1, <2>2, LedgerIsFills DEF Traded
<1> QED
  BY <1>1, LedgerInvHolds, PTL

-----------------------------------------------------------------------------
(* The orders of a level *)

Distinct(levels) ==
  \A i, j \in 1..Len(levels) : levels[i].price = levels[j].price => i = j

LEMMA OrdersAtResult ==
  ASSUME NEW S, NEW levels \in Seq(S), Distinct(levels), NEW price
  PROVE  /\ \A i \in 1..Len(levels) :
              levels[i].price = price => OrdersAt(levels, price) = levels[i].orders
         /\ (\A i \in 1..Len(levels) : levels[i].price # price) => OrdersAt(levels, price) = <<>>
<1>1. PICK at : at = LevelIndex(levels, price)
  OBVIOUS
<1>2. /\ at \in 0..Len(levels) /\ Len(levels) \in Nat
      /\ at # 0 => levels[at].price = price
      /\ \A i \in 1..Len(levels) : levels[i].price = price => at # 0 /\ at <= i
  BY <1>1, LevelIndexResult, LenProperties
<1>3. OrdersAt(levels, price) = IF at = 0 THEN <<>> ELSE levels[at].orders
  BY <1>1 DEF OrdersAt
<1>4. at # 0 => at \in 1..Len(levels)
  BY <1>2
<1>5. ASSUME NEW i \in 1..Len(levels), levels[i].price = price
      PROVE  OrdersAt(levels, price) = levels[i].orders
  <2>1. at # 0 /\ at = i
    BY <1>2, <1>4, <1>5 DEF Distinct
  <2> QED
    BY <1>3, <2>1
<1> QED
  BY <1>2, <1>3, <1>4, <1>5

\* The same orders at a price, as far as there are any.
LEMMA SameOrdersAt ==
  ASSUME NEW S, NEW levels \in Seq(S), Distinct(levels),
         NEW T, NEW new \in Seq(T), Distinct(new), NEW price,
         \A i \in 1..Len(levels) : levels[i].price = price /\ levels[i].orders # <<>> =>
           \E j \in 1..Len(new) : new[j].price = price /\ new[j].orders = levels[i].orders,
         \A j \in 1..Len(new) : new[j].price = price /\ new[j].orders # <<>> =>
           \E i \in 1..Len(levels) : levels[i].price = price /\ levels[i].orders = new[j].orders
  PROVE  OrdersAt(new, price) = OrdersAt(levels, price)
<1>1. CASE \E i \in 1..Len(levels) : levels[i].price = price /\ levels[i].orders # <<>>
  BY <1>1, OrdersAtResult
<1>2. CASE \E j \in 1..Len(new) : new[j].price = price /\ new[j].orders # <<>>
  BY <1>2, OrdersAtResult
<1>3. CASE /\ \A i \in 1..Len(levels) : ~(levels[i].price = price /\ levels[i].orders # <<>>)
           /\ \A j \in 1..Len(new) : ~(new[j].price = price /\ new[j].orders # <<>>)
  <2>1. OrdersAt(levels, price) = <<>>
    BY <1>3, OrdersAtResult
  <2>2. OrdersAt(new, price) = <<>>
    BY <1>3, OrdersAtResult
  <2> QED
    BY <2>1, <2>2
<1> QED
  BY <1>1, <1>2, <1>3

LEMMA SetOrdersAt ==
  ASSUME NEW P, NEW O, NEW levels \in LevelsOf(P, O), Distinct(levels),
         NEW at \in 1..Len(levels), NEW left, NEW r, r = SetOrders(levels, at, left)
  PROVE  /\ r \in Seq([price : P, orders : Seq(O) \cup {left}]) /\ Distinct(r)
         /\ Len(r) = Len(levels) /\ \A j \in 1..Len(levels) : r[j].price = levels[j].price
         /\ \A price : price # levels[at].price => OrdersAt(r, price) = OrdersAt(levels, price)
<1>1. /\ Len(r) = Len(levels)
      /\ \A j \in 1..Len(levels) :
           r[j] = IF j = at THEN [price |-> levels[at].price, orders |-> left] ELSE levels[j]
      /\ r \in Seq([price : P, orders : Seq(O) \cup {left}])
  BY SetOrdersResult
<1>2. \A j \in 1..Len(levels) :
        r[j].price = levels[j].price /\ (j # at => r[j].orders = levels[j].orders)
  BY <1>1
<1>3. Distinct(r)
  BY <1>1, <1>2 DEF Distinct
<1>4. levels \in Seq([price : P, orders : Seq(O) \ {<<>>}])
  BY DEF LevelsOf
<1>5. ASSUME NEW price, price # levels[at].price PROVE OrdersAt(r, price) = OrdersAt(levels, price)
  <2>1. \A j \in 1..Len(levels) : levels[j].price = price =>
          r[j].price = price /\ r[j].orders = levels[j].orders
    BY <1>2, <1>5
  <2>2. \A j \in 1..Len(r) : r[j].price = price =>
          levels[j].price = price /\ levels[j].orders = r[j].orders
    BY <1>1, <1>2, <1>5
  <2>3. \A i \in 1..Len(levels) : levels[i].price = price /\ levels[i].orders # <<>> =>
          \E j \in 1..Len(r) : r[j].price = price /\ r[j].orders = levels[i].orders
    BY <1>1, <2>1
  <2>4. \A j \in 1..Len(r) : r[j].price = price /\ r[j].orders # <<>> =>
          \E i \in 1..Len(levels) : levels[i].price = price /\ levels[i].orders = r[j].orders
    BY <1>1, <2>2
  <2> HIDE <1>2, <2>1, <2>2
  <2>5. PICK S, T : levels \in Seq(S) /\ r \in Seq(T)
    BY <1>1, <1>4
  <2> QED
    BY <1>3, <2>3, <2>4, <2>5, SameOrdersAt
<1> QED
  BY <1>1, <1>2, <1>3, <1>5

LEMMA SetLevelAt ==
  ASSUME NEW P, NEW O, NEW levels \in LevelsOf(P, O), Distinct(levels),
         NEW at \in 1..Len(levels), NEW left, NEW r, r = SetOrders(levels, at, left),
         NEW price, price # levels[at].price
  PROVE  OrdersAt(r, price) = OrdersAt(levels, price)
<1>1. /\ r \in Seq([price : P, orders : Seq(O) \cup {left}])
      /\ OrdersAt(r, price) = OrdersAt(levels, price)
  BY SetOrdersAt
<1> QED
  BY <1>1

LEMMA RemoveEmptyAt ==
  ASSUME NEW S, NEW levels \in Seq(S), Distinct(levels), NEW at,
         NEW r, r = RemoveEmptyLevel(levels, at), NEW price
  PROVE  OrdersAt(r, price) = OrdersAt(levels, price)
<1>1. PICK i : i = LevelIndex(levels, at)
  OBVIOUS
<1>2. i \in 0..Len(levels) /\ Len(levels) \in Nat
  BY <1>1, LevelIndexResult, LenProperties
<1>3. CASE i # 0 /\ levels[i].orders = <<>>
  <2>1. r = RemoveAt(levels, i) /\ i \in 1..Len(levels)
    BY <1>1, <1>2, <1>3 DEF RemoveEmptyLevel
  <2>2. /\ r \in Seq(S) /\ Len(r) = Len(levels) - 1
        /\ \A j \in 1..(Len(levels) - 1) : r[j] = IF j < i THEN levels[j] ELSE levels[j + 1]
    BY <2>1, RemoveAtResult
  <2>3. PICK n \in Nat : n = Len(levels)
    BY <1>2
  <2> DEFINE from == [j \in 1..(n - 1) |-> IF j < i THEN j ELSE j + 1]
  <2>4. \A j \in 1..(n - 1) : from[j] \in 1..n /\ r[j] = levels[from[j]]
    BY <2>2, <2>1, <2>3
  <2>5. \A j, k \in 1..(n - 1) : from[j] = from[k] => j = k
    BY <2>1, <2>3
  <2>6. \A k \in 1..n : k # i => \E j \in 1..(n - 1) : from[j] = k
    <3> TAKE k \in 1..n
    <3> HAVE k # i
    <3>1. PICK j \in 1..(n - 1) : j = IF k < i THEN k ELSE k - 1
      BY <2>1, <2>3
    <3>2. from[j] = k
      BY <2>1, <2>3, <3>1
    <3> QED
      BY <3>2
  <2> HIDE DEF from
  <2>7. Distinct(r)
    <3>1. Len(r) = n - 1
      BY <2>2, <2>3
    <3> SUFFICES ASSUME NEW j \in 1..(n - 1), NEW k \in 1..(n - 1), r[j].price = r[k].price
                 PROVE  j = k
      BY <3>1 DEF Distinct
    <3>2. from[j] \in 1..n /\ from[k] \in 1..n /\ levels[from[j]].price = levels[from[k]].price
      BY <2>4
    <3>3. from[j] = from[k]
      BY <2>3, <3>2 DEF Distinct
    <3> QED
      BY <2>5, <3>3
  <2>8. \A k \in 1..Len(levels) : levels[k].price = price /\ levels[k].orders # <<>> =>
          \E j \in 1..Len(r) : r[j].price = price /\ r[j].orders = levels[k].orders
    <3> TAKE k \in 1..Len(levels)
    <3> HAVE levels[k].price = price /\ levels[k].orders # <<>>
    <3>1. k # i /\ k \in 1..n
      BY <1>3, <2>3
    <3>2. PICK j \in 1..(n - 1) : from[j] = k
      BY <2>6, <3>1
    <3>3. r[j] = levels[k] /\ j \in 1..Len(r)
      BY <2>2, <2>3, <2>4, <3>2
    <3> QED
      BY <3>3
  <2>9. \A j \in 1..Len(r) : r[j].price = price /\ r[j].orders # <<>> =>
          \E k \in 1..Len(levels) : levels[k].price = price /\ levels[k].orders = r[j].orders
    BY <2>2, <2>3, <2>4
  <2>10. r \in Seq(S)
    BY <2>2
  <2> HIDE <1>3
  <2> QED
    BY <2>7, <2>8, <2>9, <2>10, SameOrdersAt
<1>4. CASE ~(i # 0 /\ levels[i].orders = <<>>)
  BY <1>1, <1>4 DEF RemoveEmptyLevel
<1> QED
  BY <1>3, <1>4

\* A level is changed, and left out when nothing is left of it.
LEMMA AlteredOrdersAt ==
  ASSUME NEW P, NEW O, NEW levels \in LevelsOf(P, O), Distinct(levels),
         NEW at \in 1..Len(levels), NEW left, NEW price, price # levels[at].price,
         NEW r, r = RemoveEmptyLevel(SetOrders(levels, at, left), levels[at].price)
  PROVE  OrdersAt(r, price) = OrdersAt(levels, price)
<1>1. PICK set, first : set = SetOrders(levels, at, left) /\ first = levels[at].price
  OBVIOUS
<1>2. /\ set \in Seq([price : P, orders : Seq(O) \cup {left}]) /\ Distinct(set)
      /\ OrdersAt(set, price) = OrdersAt(levels, price)
  BY <1>1, SetOrdersAt
<1>3. r = RemoveEmptyLevel(set, first)
  BY <1>1
<1>4. OrdersAt(r, price) = OrdersAt(set, price)
  BY <1>2, <1>3, RemoveEmptyAt
<1> QED
  BY <1>2, <1>4

-----------------------------------------------------------------------------
(* An order that rests, and one that is cancelled *)

\* A price that had no level gets one: no other level changes.
LEMMA OpenedOrdersAt ==
  ASSUME NEW S, NEW levels \in Seq(S), Distinct(levels),
         NEW at \in 1..(Len(levels) + 1), NEW level \in S,
         NEW r, r = InsertAt(levels, at, level), Distinct(r),
         NEW price, price # level.price
  PROVE  OrdersAt(r, price) = OrdersAt(levels, price)
<1>1. Len(levels) \in Nat
  BY LenProperties
<1>2. r \in Seq(S) /\ Len(r) = Len(levels) + 1 /\ r[at] = level
  BY InsertAtResult
<1>3. \A j \in 1..(Len(levels) + 1) :
        (j < at => r[j] = levels[j]) /\ (j > at => r[j] = levels[j - 1])
  BY InsertAtElement
<1>4. \A i \in 1..Len(levels) : \E j \in 1..Len(r) : r[j] = levels[i]
  <2> TAKE i \in 1..Len(levels)
  <2>1. CASE i < at
    BY <1>1, <1>2, <1>3, <2>1
  <2>2. CASE ~(i < at)
    <3>1. i + 1 \in 1..Len(r) /\ i + 1 > at /\ (i + 1) - 1 = i
      BY <1>1, <1>2, <2>2
    <3>2. r[i + 1] = levels[(i + 1) - 1]
      BY <1>2, <1>3, <3>1
    <3> QED
      BY <3>1, <3>2
  <2> QED
    BY <2>1, <2>2
<1>5. \A j \in 1..Len(r) : r[j].price = price => \E i \in 1..Len(levels) : levels[i] = r[j]
  <2> TAKE j \in 1..Len(r)
  <2> HAVE r[j].price = price
  <2>1. j # at
    BY <1>2
  <2>2. CASE j < at
    BY <1>1, <1>2, <1>3, <2>2
  <2>3. CASE j > at
    <3>1. j - 1 \in 1..Len(levels) /\ r[j] = levels[j - 1]
      BY <1>1, <1>2, <1>3, <2>3
    <3> QED
      BY <3>1
  <2> QED
    BY <1>1, <1>2, <2>1, <2>2, <2>3
<1>6. \A i \in 1..Len(levels) : levels[i].price = price /\ levels[i].orders # <<>> =>
        \E j \in 1..Len(r) : r[j].price = price /\ r[j].orders = levels[i].orders
  BY <1>4
<1>7. \A j \in 1..Len(r) : r[j].price = price /\ r[j].orders # <<>> =>
        \E i \in 1..Len(levels) : levels[i].price = price /\ levels[i].orders = r[j].orders
  BY <1>5
<1>8. r \in Seq(S)
  BY <1>2
<1> HIDE <1>2, <1>3, <1>4, <1>5
<1> QED
  BY <1>6, <1>7, <1>8, SameOrdersAt

LEMMA InsertRestingAt ==
  ASSUME NEW P, NEW O, NEW levels \in LevelsOf(P, O), Distinct(levels),
         NEW order \in O, order.price \in P,
         NEW r, r = InsertResting(levels, order), Distinct(r),
         NEW price, price # order.price
  PROVE  OrdersAt(r, price) = OrdersAt(levels, price)
<1> DEFINE at    == LevelIndex(levels, order.price)
           worse == FirstWorse(levels, order)
           level == [price |-> order.price, orders |-> <<order>>]
           place == IF worse = 0 THEN Len(levels) + 1 ELSE worse
<1>1. r = IF at # 0 THEN SetOrders(levels, at, Append(levels[at].orders, order))
          ELSE InsertAt(levels, place, level)
  BY DEF InsertResting, FirstWorse
<1>2. /\ at \in 0..Len(levels) /\ Len(levels) \in Nat
      /\ at # 0 => levels[at].price = order.price
  BY LevelIndexResult, LenProperties DEF LevelsOf
<1>3. worse \in 0..Len(levels)
  BY FirstWorseResult DEF LevelsOf
<1>4. level.price = order.price /\ level \in [price : P, orders : Seq(O) \ {<<>>}]
  BY EmptySeq
<1> HIDE DEF at, worse, level
<1>5. CASE at # 0
  <2>1. PICK joined : joined = Append(levels[at].orders, order)
    OBVIOUS
  <2>2. PICK i \in 1..Len(levels) : i = at
    BY <1>2, <1>5
  <2>3. price # levels[i].price /\ r = SetOrders(levels, i, joined)
    BY <1>1, <1>2, <1>5, <2>1, <2>2
  <2> QED
    BY <2>3, SetLevelAt
<1>6. CASE at = 0
  <2>1. place \in 1..(Len(levels) + 1) /\ r = InsertAt(levels, place, level)
    BY <1>1, <1>2, <1>3, <1>6
  <2> HIDE DEF place
  <2>2. PICK S : levels \in Seq(S) /\ level \in S
    BY <1>4 DEF LevelsOf
  <2>3. price # level.price
    BY <1>4
  <2> QED
    BY <2>1, <2>2, <2>3, OpenedOrdersAt
<1> QED
  BY <1>5, <1>6

LEMMA CancelRestingAt ==
  ASSUME NEW P, NEW O, NEW levels \in LevelsOf(P, O), Distinct(levels),
         NEW at, OrdersAt(levels, at) # <<>>,
         NEW id, NEW r, r = CancelResting(levels, at, id), NEW price, price # at
  PROVE  OrdersAt(r, price) = OrdersAt(levels, price)
<1>1. PICK i : i = LevelIndex(levels, at)
  OBVIOUS
<1>2. i \in 1..Len(levels) /\ levels[i].price = at
  BY <1>1, LevelIndexResult, LenProperties DEF LevelsOf, OrdersAt
<1>3. PICK left : r = RemoveEmptyLevel(SetOrders(levels, i, left), levels[i].price)
  BY <1>1, <1>2 DEF CancelResting
<1> QED
  BY <1>2, <1>3, AlteredOrdersAt

-----------------------------------------------------------------------------
(* What a client makes of deltas *)

LEMMA DeltasAt ==
  ASSUME NEW d, NEW events, NEW side \in Sides, NEW price \in Prices
  PROVE  ApplyDeltas(d, events)[side][price] =
           IF DeltasOf(events, side, price) = {} THEN d[side][price]
           ELSE events[Max(DeltasOf(events, side, price))].quantity
BY DEF ApplyDeltas

LEMMA LastOf ==
  ASSUME NEW n \in Nat, NEW K \in SUBSET (1..n), K # {}
  PROVE  Max(K) \in K /\ \A y \in K : y <= Max(K)
<1>1. K \in SUBSET (0..n)
  OBVIOUS
<1> QED
  BY <1>1, MaxOfNaturals

\* Those that follow have the last word.
LEMMA DeltasJoined ==
  ASSUME NEW s, NEW t, IsSequence(s), IsSequence(t),
         NEW d, NEW side \in Sides, NEW price \in Prices
  PROVE  ApplyDeltas(d, s \o t)[side][price] =
           IF DeltasOf(t, side, price) = {} THEN ApplyDeltas(d, s)[side][price]
           ELSE t[Max(DeltasOf(t, side, price))].quantity
<1>1. /\ IsSequence(s \o t) /\ Len(s \o t) = Len(s) + Len(t)
      /\ \A k \in 1..Len(s) : (s \o t)[k] = s[k]
      /\ \A k \in 1..Len(t) : (s \o t)[Len(s) + k] = t[k]
  BY JoinedSequences
<1>2. PICK n \in Nat, m \in Nat : n = Len(s) /\ m = Len(t)
  BY SequenceLength
<1>3. DOMAIN s = 1..n /\ DOMAIN t = 1..m /\ DOMAIN (s \o t) = 1..(n + m)
  BY <1>1, <1>2, SequenceLength
<1>4. PICK joined : joined = s \o t
  OBVIOUS
<1> DEFINE S == DeltasOf(s, side, price)
           T == DeltasOf(t, side, price)
           J == DeltasOf(joined, side, price)
<1>5. S \in SUBSET (1..n) /\ T \in SUBSET (1..m) /\ J \in SUBSET (1..(n + m))
  BY <1>3, <1>4 DEF DeltasOf
<1>6. \A k \in 1..n : k \in J <=> k \in S
  BY <1>1, <1>2, <1>3, <1>4 DEF DeltasOf
<1>7. \A k \in 1..m : n + k \in J <=> k \in T
  BY <1>1, <1>2, <1>3, <1>4 DEF DeltasOf
<1> HIDE DEF S, T, J
<1>8. CASE T = {}
  <2>1. J = S
    <3>1. \A k \in J : k \in S
      <4> TAKE k \in J
      <4>1. ~(k > n)
        <5> SUFFICES ASSUME k > n PROVE FALSE
          OBVIOUS
        <5>1. k - n \in 1..m /\ n + (k - n) = k
          BY <1>5
        <5> QED
          BY <1>7, <1>8, <5>1
      <4> QED
        BY <1>5, <1>6, <4>1
    <3> QED
      BY <1>5, <1>6, <3>1
  <2>2. S # {} => joined[Max(S)] = s[Max(S)]
    <3> HAVE S # {}
    <3>1. Max(S) \in 1..n
      BY <1>5, LastOf
    <3> QED
      BY <1>1, <1>2, <1>4, <3>1
  <2>3. ApplyDeltas(d, joined)[side][price] = ApplyDeltas(d, s)[side][price]
    BY <2>1, <2>2, DeltasAt DEF S, J
  <2> QED
    BY <1>4, <1>8, <2>3 DEF T
<1>9. CASE T # {}
  <2>1. PICK a : a = Max(T) /\ a \in T /\ \A y \in T : y <= a
    BY <1>5, LastOf, <1>9
  <2>2. n + a \in J
    BY <1>5, <1>7, <2>1
  <2>3. PICK b : b = Max(J) /\ b \in J /\ \A y \in J : y <= b
    <3>1. n + m \in Nat /\ J # {}
      BY <2>2
    <3> QED
      BY <1>5, LastOf, <3>1
  <2>4. b = n + a
    <3>1. n + a <= b
      BY <2>2, <2>3
    <3>2. b - n \in 1..m /\ n + (b - n) = b
      BY <1>5, <2>1, <2>3, <3>1
    <3>3. b - n \in T
      BY <1>7, <2>3, <3>2
    <3>4. b - n <= a
      BY <2>1, <3>3
    <3> QED
      BY <1>5, <2>1, <2>3, <3>1, <3>4
  <2>5. joined[b] = t[a]
    BY <1>1, <1>2, <1>4, <1>5, <2>1, <2>4
  <2>6. ApplyDeltas(d, joined)[side][price] = joined[b].quantity
    BY <2>2, <2>3, DeltasAt DEF J
  <2> QED
    BY <1>4, <1>9, <2>1, <2>5, <2>6 DEF T
<1> QED
  BY <1>8, <1>9

LEMMA NoDeltas ==
  ASSUME NEW d, NEW events, \A e \in ToSet(events) : e.event # "orderbook.delta",
         NEW side \in Sides, NEW price \in Prices
  PROVE  /\ DeltasOf(events, side, price) = {}
         /\ ApplyDeltas(d, events)[side][price] = d[side][price]
<1>1. DeltasOf(events, side, price) = {}
  BY DEF DeltasOf, ToSet
<1> QED
  BY <1>1, DeltasAt

\* The events of a step that leaves the match: at most one of them is a delta.
LEMMA OneDelta ==
  ASSUME NEW events, NEW first \in DOMAIN events, first \in Nat,
         NEW delta, events[first] = delta, delta.event = "orderbook.delta",
         \A k \in DOMAIN events \ {first} : events[k].event # "orderbook.delta",
         NEW d, NEW side \in Sides, NEW price \in Prices
  PROVE  /\ DeltasOf(events, side, price) =
              IF delta.side = side /\ delta.price = price THEN {first} ELSE {}
         /\ ApplyDeltas(d, events)[side][price] =
              IF delta.side = side /\ delta.price = price THEN delta.quantity ELSE d[side][price]
         /\ delta.side = side /\ delta.price = price =>
              events[Max(DeltasOf(events, side, price))] = delta
<1>1. DeltasOf(events, side, price) =
        IF delta.side = side /\ delta.price = price THEN {first} ELSE {}
  BY DEF DeltasOf
<1>2. Max({first}) = first
  <2>1. {first} \in SUBSET (0..first) /\ {first} # {}
    OBVIOUS
  <2>2. Max({first}) \in {first}
    BY <2>1, MaxOfNaturals
  <2> QED
    BY <2>2
<1>3. CASE delta.side = side /\ delta.price = price
  <2>1. DeltasOf(events, side, price) = {first} /\ {first} # {}
    BY <1>1, <1>3
  <2>2. ApplyDeltas(d, events)[side][price] = events[Max(DeltasOf(events, side, price))].quantity
    <3>1. DeltasOf(events, side, price) # {}
      BY <2>1
    <3> QED
      BY <3>1, DeltasAt
  <2>3. events[Max(DeltasOf(events, side, price))] = delta
    BY <1>2, <2>1
  <2> QED
    BY <1>3, <2>1, <2>2, <2>3
<1>4. CASE ~(delta.side = side /\ delta.price = price)
  BY <1>1, <1>4, DeltasAt
<1> QED
  BY <1>3, <1>4

LEMMA SameDeltas ==
  ASSUME NEW d, NEW e, NEW events, NEW side \in Sides, NEW price \in Prices,
         d[side][price] = e[side][price]
  PROVE  ApplyDeltas(d, events)[side][price] = ApplyDeltas(e, events)[side][price]
BY DeltasAt

-----------------------------------------------------------------------------
(* The steps of the engine *)

LEMMA SidesDistinct == Inv => \A side \in Sides : Distinct(Levels(side))
<1> SUFFICES ASSUME Inv, NEW side \in Sides PROVE Distinct(Levels(side))
  OBVIOUS
<1>1. /\ Levels(side) \in LevelsOf(Prices, Older(Horizon)) /\ LevelsWellFormed(side, Levels(side))
      /\ Prices \in SUBSET Int
  BY SideGood, InputAssumption
<1>2. \A i, j \in 1..Len(Levels(side)) : Levels(side)[i].price = Levels(side)[j].price => i = j
  BY <1>1, LevelOrders
<1> QED
  BY <1>2 DEF Distinct

LEMMA SidesDistinctNext == Inv' => \A side \in Sides : Distinct(Levels(side)')
<1>1. Inv' => (\A side \in Sides : Distinct(Levels(side)))'
  BY SidesDistinct, PTL
<1> QED
  BY <1>1 DEF Distinct

\* A command is done: a client is told all of it.
LEMMA SeenWhenDone ==
  ASSUME Emit, taker' = NoTaker
  PROVE  Seen' = ApplyDeltas(depth, outs')
BY DEF Emit, Seen, Idle

\* Nothing is said of the book, which has not changed.
LEMMA CalmDepth ==
  ASSUME DepthInv, Idle, UNCHANGED <<taker, bids, asks>>, Emit,
         \A e \in ToSet(outs') : e.event # "orderbook.delta"
  PROVE  DepthInv'
<1>1. taker' = NoTaker /\ Seen' = ApplyDeltas(depth, outs') /\ Seen = depth
  BY SeenWhenDone DEF Idle, Seen
<1>2. ASSUME NEW side \in Sides, NEW price \in Prices
      PROVE  Seen'[side][price] = Depth(Levels(side)', price)
  <2>1. Seen'[side][price] = Seen[side][price]
    BY <1>1, NoDeltas
  <2>2. Seen[side][price] = Depth(Levels(side), price)
    BY DEF DepthInv, Eaten
  <2>3. Levels(side)' = Levels(side)
    BY DEF Levels
  <2> QED
    BY <2>1, <2>2, <2>3
<1> QED
  BY <1>2 DEF DepthInv

LEMMA CancelDepth ==
  ASSUME DepthInv, Inv, NEW user, NEW id, NEW side \in Sides, NEW price,
         CancelOrder(user, id, side, price), Emit
  PROVE  DepthInv'
<1>1. PICK old, new : old = Levels(side) /\ new = CancelResting(Levels(side), price, id)
  OBVIOUS
<1>2. /\ OrdersAt(old, price) # <<>> /\ Idle /\ taker' = taker /\ SetLevels(side, new)
      /\ \E cancelled :
           /\ outs' = <<DeltaDraft(side, price, new), BalanceDraft(user), cancelled>>
           /\ cancelled.event = "order.cancelled"
  <2>1. OrdersAt(old, price) # <<>>
    BY <1>1, EmptySeq DEF CancelOrder, Target, ToSet
  <2> QED
    BY <1>1, <2>1 DEF CancelOrder
<1>3. PICK delta, cancelled :
        /\ outs' = <<delta, BalanceDraft(user), cancelled>>
        /\ delta.event = "orderbook.delta" /\ cancelled.event = "order.cancelled"
        /\ delta.side = side /\ delta.price = price /\ delta.quantity = Depth(new, price)
  BY <1>2 DEF DeltaDraft
<1>4. PICK b : b = BalanceDraft(user) /\ b.event = "balance.updated"
  BY BalanceDraftNews
<1>5. Levels(side)' = new /\ \A other \in Sides \ {side} : Levels(other)' = Levels(other)
  BY <1>2 DEF Levels, SetLevels, Sides
<1>6. taker' = NoTaker /\ Seen' = ApplyDeltas(depth, outs') /\ Seen = depth
  BY <1>2, SeenWhenDone DEF Idle, Seen
<1>7. old \in LevelsOf(Prices, Older(Horizon)) /\ Distinct(old)
  BY <1>1, SideGood, SidesDistinct
<1>8. DOMAIN outs' = {1, 2, 3} /\ outs'[1] = delta /\ outs'[2] = b /\ outs'[3] = cancelled
  BY <1>3, <1>4, ThreeElements
<1>9. \A k \in DOMAIN outs' \ {1} : outs'[k].event # "orderbook.delta"
  BY <1>3, <1>4, <1>8
<1>10. ASSUME NEW s \in Sides, NEW p \in Prices
       PROVE  Seen'[s][p] = Depth(Levels(s)', p)
  <2>1. Seen'[s][p] = IF side = s /\ price = p THEN Depth(new, price) ELSE Seen[s][p]
    BY <1>3, <1>6, <1>8, <1>9, OneDelta
  <2>2. Seen[s][p] = Depth(Levels(s), p)
    BY <1>2 DEF DepthInv, Eaten
  <2>3. CASE s = side /\ p = price
    BY <1>5, <2>1, <2>3
  <2>4. CASE s = side /\ p # price
    <3>1. OrdersAt(new, p) = OrdersAt(old, p)
      BY <1>1, <1>2, <1>7, <2>4, CancelRestingAt
    <3> QED
      BY <1>1, <1>5, <2>1, <2>2, <2>4, <3>1 DEF Depth
  <2>5. CASE s # side
    BY <1>5, <2>1, <2>2, <2>5
  <2> QED
    BY <2>3, <2>4, <2>5
<1> QED
  BY <1>10 DEF DepthInv

LEMMA BeginMatchDepth ==
  ASSUME DepthInv, NEW o, BeginMatch(o), Emit
  PROVE  DepthInv'
<1>1. Idle /\ UNCHANGED <<bids, asks>> /\ outs' = <<>>
  BY DEF BeginMatch
<1>2. Seen = depth /\ (depth' = ApplyDeltas(depth, <<>>))
  BY <1>1 DEF Seen, Emit
<1>3. ToSet(<<>>) = {}
  BY EmptySeq DEF ToSet
<1>4. Seen' = depth' \/ Seen' = ApplyDeltas(depth', <<>>)
  BY <1>1 DEF Seen
<1>5. ASSUME NEW side \in Sides, NEW price \in Prices
      PROVE  Seen'[side][price] = Depth(Levels(side)', price)
  <2>1. PICK d : d = depth'
    OBVIOUS
  <2>2. d[side][price] = depth[side][price]
    BY <1>2, <1>3, <2>1, NoDeltas
  <2>3. ApplyDeltas(d, <<>>)[side][price] = d[side][price]
    BY <1>3, NoDeltas
  <2>4. Seen'[side][price] = Seen[side][price]
    BY <1>2, <1>4, <2>1, <2>2, <2>3
  <2>5. Seen[side][price] = Depth(Levels(side), price)
    BY <1>1 DEF DepthInv, Eaten
  <2>6. Levels(side)' = Levels(side)
    BY <1>1 DEF Levels
  <2> QED
    BY <2>4, <2>5, <2>6
<1> QED
  BY <1>5 DEF DepthInv

\* The order that rests is told, with all that rests at its price.
LEMMA EndMatchDepth ==
  ASSUME DepthInv, Inv, Inv', QuietInv, EndMatch, Emit
  PROVE  DepthInv'
<1>1. ~Idle /\ ~CanFill /\ taker' = NoTaker
  BY DEF EndMatch
<1>2. \A s \in Sides, p \in Prices : ApplyDeltas(depth, outs)[s][p] = Depth(Levels(s), p)
  BY <1>1 DEF DepthInv, Eaten, Seen
<1>3. Seen' = ApplyDeltas(depth, outs')
  BY <1>1, SeenWhenDone
<1>4. IsSequence(outs)
  BY DEF QuietInv
<1>5. \A status : IsSequence(Closing(status)) /\ \A e \in ToSet(Closing(status)) : e.event # "orderbook.delta"
  <2> TAKE status
  <2>1. /\ IsSequence(Closing(status))
        /\ ToSet(Closing(status)) =
             ToSet(taker.reports) \cup {AccountDrafts(taker.affected), TakerReport(status)}
    BY <1>1, ClosingSets
  <2>2. AccountDrafts(taker.affected).event # "orderbook.delta" /\ TakerReport(status).event # "orderbook.delta"
    BY DEF AccountDrafts, TakerReport
  <2>3. \A e \in ToSet(taker.reports) : e.event # "orderbook.delta"
    <3>1. taker.reports \in Seq(Report)
      BY <1>1, TakerGood DEF TakerState
    <3>2. \A i \in DOMAIN taker.reports : taker.reports[i] \in Report
      BY <3>1
    <3>3. \A i \in DOMAIN taker.reports : taker.reports[i].event = "order.accepted"
      BY <3>2 DEF Report
    <3> QED
      BY <3>3 DEF ToSet
  <2> QED
    BY <2>1, <2>2, <2>3
<1>6. PICK o : o = taker.order
  OBVIOUS
<1>7. /\ o.user \in Users /\ o.side \in Sides /\ o.leverage \in Nat \ {0}
      /\ o.type \in {"LIMIT", "MARKET"} /\ (o.type = "LIMIT" => o.price \in Prices)
      /\ taker.remaining \in Nat
  BY <1>1, <1>6, TakerGood, OrderInputType
<1>8. PICK rest : rest = [id |-> taker.id, user |-> o.user, side |-> o.side, price |-> o.price,
                          quantity |-> taker.remaining, remaining |-> taker.remaining,
                          leverage |-> o.leverage, margin |-> MarginShare(o, taker.remaining)]
  OBVIOUS
<1>9. PICK old, new : old = Levels(o.side) /\ new = InsertResting(Levels(o.side), rest)
  OBVIOUS
<1>10. CASE o.type = "LIMIT" /\ taker.remaining > 0
  <2>1. /\ SetLevels(o.side, new)
        /\ outs' = outs \o <<DeltaDraft(o.side, o.price, new)>> \o Closing(Partly("OPEN"))
    BY <1>6, <1>8, <1>9, <1>10 DEF EndMatch
  <2>2. Levels(o.side)' = new /\ \A other \in Sides \ {o.side} : Levels(other)' = Levels(other)
    BY <1>7, <2>1 DEF Levels, SetLevels, Sides
  <2>3. Distinct(old) /\ Distinct(new)
    BY <1>7, <1>9, <2>2, SidesDistinct, SidesDistinctNext
  <2>4. PICK T : old \in LevelsOf(Prices, T) /\ rest \in T
    <3>1. PICK T : T = Older(Horizon) \cup {rest}
      OBVIOUS
    <3>2. old \in LevelsOf(Prices, Older(Horizon))
      BY <1>7, <1>9, SideGood
    <3>3. Older(Horizon) \subseteq T
      BY <3>1
    <3>4. old \in LevelsOf(Prices, T)
      BY <3>2, <3>3, LevelsOfMonotonic
    <3> QED
      BY <3>1, <3>4
  <2>5. rest.price = o.price /\ o.price \in Prices
    BY <1>7, <1>8, <1>10
  <2>6. \A p : p # o.price => OrdersAt(new, p) = OrdersAt(old, p)
    <3> TAKE p
    <3> HAVE p # o.price
    <3>1. new = InsertResting(old, rest) /\ p # rest.price /\ rest.price \in Prices
      BY <1>9, <2>5
    <3> HIDE <1>8
    <3> QED
      BY <2>3, <2>4, <3>1, InsertRestingAt
  <2>7. PICK delta : /\ delta = DeltaDraft(o.side, o.price, new)
                     /\ delta.event = "orderbook.delta"
                     /\ delta.side = o.side /\ delta.price = o.price
                     /\ delta.quantity = Depth(new, o.price)
    <3>1. PICK delta : delta = DeltaDraft(o.side, o.price, new)
      OBVIOUS
    <3>2. /\ delta.event = "orderbook.delta" /\ delta.side = o.side /\ delta.price = o.price
          /\ delta.quantity = Depth(new, o.price)
      BY <3>1 DEF DeltaDraft
    <3> QED
      BY <3>1, <3>2
  <2>8. PICK said, closing : said = <<delta>> /\ closing = Closing(Partly("OPEN"))
    OBVIOUS
  <2>9. /\ IsSequence(said) /\ DOMAIN said = {1} /\ said[1] = delta
        /\ outs' = (outs \o said) \o closing /\ IsSequence(outs \o said)
        /\ IsSequence(closing) /\ \A e \in ToSet(closing) : e.event # "orderbook.delta"
    BY <1>4, <1>5, <2>1, <2>7, <2>8, OneElement, JoinedSequences
  <2>10. ASSUME NEW s \in Sides, NEW p \in Prices
         PROVE  Seen'[s][p] = Depth(Levels(s)', p)
    <3>1. DeltasOf(closing, s, p) = {}
      BY <2>9, NoDeltas
    <3>2. Seen'[s][p] = ApplyDeltas(depth, outs \o said)[s][p]
      BY <1>3, <2>9, <3>1, DeltasJoined
    <3>3. /\ DeltasOf(said, s, p) = IF delta.side = s /\ delta.price = p THEN {1} ELSE {}
          /\ delta.side = s /\ delta.price = p => said[Max(DeltasOf(said, s, p))] = delta
      <4>1. \A k \in DOMAIN said \ {1} : said[k].event # "orderbook.delta"
        BY <2>9
      <4> QED
        BY <2>7, <2>9, <4>1, OneDelta
    <3>4. CASE s = o.side /\ p = o.price
      <4>1. DeltasOf(said, s, p) # {} /\ said[Max(DeltasOf(said, s, p))] = delta
        BY <2>7, <3>3, <3>4
      <4>2. ApplyDeltas(depth, outs \o said)[s][p] = delta.quantity
        BY <1>4, <2>9, <4>1, DeltasJoined
      <4> QED
        BY <2>2, <2>7, <3>2, <3>4, <4>2
    <3>5. CASE ~(s = o.side /\ p = o.price)
      <4>1. DeltasOf(said, s, p) = {}
        BY <2>7, <3>3, <3>5
      <4>2. ApplyDeltas(depth, outs \o said)[s][p] = ApplyDeltas(depth, outs)[s][p]
        BY <1>4, <2>9, <4>1, DeltasJoined
      <4>3. OrdersAt(Levels(s)', p) = OrdersAt(Levels(s), p)
        BY <1>9, <2>2, <2>6, <3>5
      <4> QED
        BY <1>2, <3>2, <4>2, <4>3 DEF Depth
    <3> QED
      BY <3>4, <3>5
  <2> QED
    BY <2>10 DEF DepthInv
<1>11. CASE ~(o.type = "LIMIT" /\ taker.remaining > 0)
  <2>1. UNCHANGED <<bids, asks>> /\ \E status : outs' = outs \o Closing(status)
    BY <1>6, <1>7, <1>11 DEF EndMatch
  <2>2. PICK closing : /\ outs' = outs \o closing /\ IsSequence(closing)
                       /\ \A e \in ToSet(closing) : e.event # "orderbook.delta"
    BY <1>5, <2>1
  <2>3. ASSUME NEW s \in Sides, NEW p \in Prices
        PROVE  Seen'[s][p] = Depth(Levels(s)', p)
    <3>1. DeltasOf(closing, s, p) = {}
      BY <2>2, NoDeltas
    <3>2. Seen'[s][p] = ApplyDeltas(depth, outs)[s][p]
      BY <1>3, <1>4, <2>2, <3>1, DeltasJoined
    <3>3. Levels(s)' = Levels(s)
      BY <2>1 DEF Levels
    <3> QED
      BY <1>2, <3>2, <3>3
  <2> QED
    BY <2>3 DEF DepthInv
<1> QED
  BY <1>10, <1>11

\* A level that the loop leaves is told. The one it goes on with is not, which
\* is why a client may be behind while a match is in progress.
LEMMA FillDepth ==
  ASSUME DepthInv, Inv, QuietInv, Fill, Emit
  PROVE  DepthInv'
<1>1. ~Idle /\ CanFill
  BY DEF Fill
<1>2. PICK side \in Sides : side = Opposite(taker.order.side)
  BY <1>1, TakerSides
<1>3. PICK old, level, first, quantity, served, levels, done, new :
        /\ old = Levels(side) /\ level = Head(old) /\ first = Head(level.orders)
        /\ quantity = Least(taker.remaining, first.remaining)
        /\ served = AfterFill(level.orders,
                      FillMaker(first, quantity,
                        RoundDiv(quantity * first.margin, first.remaining)))
        /\ levels = SetOrders(old, 1, served)
        /\ done = (served = <<>> \/ quantity = taker.remaining)
        /\ new = IF done THEN RemoveEmptyLevel(levels, level.price) ELSE levels
  OBVIOUS
<1>4. PICK trade, delta, more :
        /\ trade.event = "trade.executed"
        /\ delta = DeltaDraft(side, level.price, levels)
        /\ more = IF done THEN <<delta>> ELSE <<>>
        /\ outs' = (outs \o <<trade>>) \o more
  <2>1. PICK trade : trade = [event |-> "trade.executed", maker |-> first.id, taker |-> taker.id,
                              makerUser |-> first.user, takerUser |-> taker.order.user,
                              price |-> first.price, quantity |-> quantity, side |-> taker.order.side]
    OBVIOUS
  <2>2. PICK delta, more : delta = DeltaDraft(side, level.price, levels)
                           /\ more = IF done THEN <<delta>> ELSE <<>>
    OBVIOUS
  <2>3. outs' = (outs \o <<trade>>) \o more
    BY <1>2, <1>3, <2>1, <2>2 DEF Fill
  <2>4. trade.event = "trade.executed"
    BY <2>1
  <2> HIDE <2>1
  <2> WITNESS trade, delta, more
  <2> QED
    BY <2>2, <2>3, <2>4
<1>5. SetLevels(side, new)
  BY <1>2, <1>3 DEF Fill
<1>6. /\ taker'.remaining = taker.remaining - quantity
      /\ taker'.order = taker.order /\ taker'.id = taker.id
  <2>1. taker \in TakerState
    BY <1>1, TakerGood
  <2> QED
    BY <1>2, <1>3, <2>1 DEF Fill, TakerState
<1>7. /\ old \in LevelsOf(Prices, Older(Horizon)) /\ Distinct(old) /\ old # <<>>
      /\ taker.remaining \in Nat \ {0} /\ Crosses(taker.order, level.price)
      /\ taker.id \in Nat \ {0}
  <2>1. old \in LevelsOf(Prices, Older(Horizon)) /\ Distinct(old)
    BY <1>2, <1>3, SideGood, SidesDistinct
  <2>2. taker.id \in Nat \ {0} /\ taker.remaining \in Nat
    BY <1>1, TakerGood
  <2>3. old # <<>> /\ taker.remaining > 0 /\ Crosses(taker.order, level.price)
    BY <1>1, <1>2, <1>3 DEF CanFill
  <2> QED
    BY <2>1, <2>2, <2>3
<1>8. Len(old) \in Nat \ {0} /\ level = old[1]
  BY <1>3, <1>7 DEF LevelsOf
<1>9. level.orders \in Seq(Older(Horizon)) \ {<<>>}
  <2>1. 1 \in 1..Len(old)
    BY <1>8
  <2> QED
    BY <1>7, <1>8, <2>1, LevelType
<1>10. first.remaining \in Nat
  <2>1. Len(level.orders) \in Nat \ {0} /\ first = level.orders[1]
    BY <1>3, <1>9
  <2>2. first \in Older(Horizon)
    BY <1>9, <2>1
  <2> QED
    BY <2>2 DEF Older, RestingOrder
<1>11. /\ levels \in Seq([price : Prices, orders : Seq(Older(Horizon)) \cup {served}])
       /\ Distinct(levels) /\ Len(levels) = Len(old)
       /\ \A j \in 1..Len(old) : levels[j].price = old[j].price
       /\ \A p : p # old[1].price => OrdersAt(levels, p) = OrdersAt(old, p)
  <2>1. PICK at \in 1..Len(old) : at = 1
    BY <1>8
  <2>2. levels = SetOrders(old, at, served)
    BY <1>3, <2>1
  <2>3. old \in LevelsOf(Prices, Older(Horizon)) /\ Distinct(old)
    BY <1>7
  <2>4. PICK set : set = levels
    OBVIOUS
  <2>5. set = SetOrders(old, at, served)
    BY <2>2, <2>4
  <2>6. /\ set \in Seq([price : Prices, orders : Seq(Older(Horizon)) \cup {served}])
        /\ Distinct(set) /\ Len(set) = Len(old)
        /\ \A j \in 1..Len(old) : set[j].price = old[j].price
    BY <2>3, <2>5, SetOrdersAt
  <2>7. \A p : p # old[at].price => OrdersAt(set, p) = OrdersAt(old, p)
    <3> TAKE p
    <3> HAVE p # old[at].price
    <3> QED
      BY <2>3, <2>5, SetLevelAt
  <2> QED
    BY <2>1, <2>4, <2>6, <2>7
<1>12. \A p : OrdersAt(new, p) = OrdersAt(levels, p)
  <2> TAKE p
  <2>1. CASE done
    <3>1. new = RemoveEmptyLevel(levels, level.price)
      BY <1>3, <2>1
    <3>2. PICK S : levels \in Seq(S)
      BY <1>11
    <3> QED
      BY <1>11, <3>1, <3>2, RemoveEmptyAt
  <2>2. CASE ~done
    BY <1>3, <2>2
  <2> QED
    BY <2>1, <2>2
<1>13. Levels(side)' = new /\ \A other \in Sides \ {side} : Levels(other)' = Levels(other)
  BY <1>5 DEF Levels, SetLevels, Sides
<1>14. /\ delta.event = "orderbook.delta" /\ delta.side = side /\ delta.price = level.price
       /\ delta.quantity = Depth(levels, level.price)
  BY <1>4 DEF DeltaDraft
<1>15. ~Idle' /\ taker' # NoTaker
  BY <1>6, <1>7 DEF Idle, NoTaker
<1>16. ASSUME NEW s \in Sides, NEW p \in Prices
       PROVE  Seen'[s][p] = IF done /\ s = side /\ p = level.price
                            THEN Depth(levels, level.price) ELSE Seen[s][p]
  <2>1. Seen = ApplyDeltas(depth, outs) /\ Seen' = ApplyDeltas(depth', outs')
        /\ depth' = ApplyDeltas(depth, <<>>)
    BY <1>1, <1>15 DEF Seen, Emit
  <2>2. PICK d, a : d = depth' /\ a = outs \o <<trade>>
    OBVIOUS
  <2>3. ToSet(<<>>) = {} /\ IsSequence(<<>>)
    BY EmptyIsSequence, EmptySeq DEF ToSet
  <2>4. d[s][p] = depth[s][p]
    BY <2>1, <2>2, <2>3, NoDeltas
  <2>5. IsSequence(outs) /\ IsSequence(<<trade>>) /\ ToSet(<<trade>>) = {trade}
    BY OneElement DEF QuietInv
  <2>6. IsSequence(a) /\ ApplyDeltas(d, a)[s][p] = ApplyDeltas(d, outs)[s][p]
    <3>1. DeltasOf(<<trade>>, s, p) = {}
      <4>1. \A e \in ToSet(<<trade>>) : e.event # "orderbook.delta"
        BY <1>4, <2>5
      <4> QED
        BY <4>1, NoDeltas
    <3>2. IsSequence(a)
      BY <2>2, <2>5, JoinedSequences
    <3> QED
      BY <2>2, <2>5, <3>1, <3>2, DeltasJoined
  <2>7. ApplyDeltas(d, outs)[s][p] = Seen[s][p]
    BY <2>1, <2>4, SameDeltas
  <2>8. Seen' = ApplyDeltas(d, a \o more)
    BY <1>4, <2>1, <2>2
  <2>9. CASE done
    <3>1. IsSequence(more) /\ DOMAIN more = {1} /\ more[1] = delta
      BY <1>4, <2>9, OneElement
    <3>2. /\ DeltasOf(more, s, p) = IF delta.side = s /\ delta.price = p THEN {1} ELSE {}
          /\ delta.side = s /\ delta.price = p => more[Max(DeltasOf(more, s, p))] = delta
      <4>1. \A k \in DOMAIN more \ {1} : more[k].event # "orderbook.delta"
        BY <3>1
      <4> QED
        BY <1>14, <3>1, <4>1, OneDelta
    <3>3. CASE s = side /\ p = level.price
      <4>1. DeltasOf(more, s, p) # {} /\ more[Max(DeltasOf(more, s, p))] = delta
        BY <1>14, <3>2, <3>3
      <4>2. ApplyDeltas(d, a \o more)[s][p] = delta.quantity
        BY <2>6, <3>1, <4>1, DeltasJoined
      <4> QED
        BY <1>14, <2>8, <2>9, <3>3, <4>2
    <3>4. CASE ~(s = side /\ p = level.price)
      <4>1. DeltasOf(more, s, p) = {}
        BY <1>14, <3>2, <3>4
      <4>2. ApplyDeltas(d, a \o more)[s][p] = ApplyDeltas(d, a)[s][p]
        BY <2>6, <3>1, <4>1, DeltasJoined
      <4> QED
        BY <2>6, <2>7, <2>8, <3>4, <4>2
    <3> QED
      BY <3>3, <3>4
  <2>10. CASE ~done
    <3>1. more = <<>>
      BY <1>4, <2>10
    <3>2. DeltasOf(more, s, p) = {} /\ IsSequence(more)
      <4>1. \A e \in ToSet(more) : e.event # "orderbook.delta"
        BY <2>3, <3>1
      <4> QED
        BY <2>3, <3>1, <4>1, NoDeltas
    <3>3. ApplyDeltas(d, a \o more)[s][p] = ApplyDeltas(d, a)[s][p]
      BY <2>6, <3>2, DeltasJoined
    <3> QED
      BY <2>6, <2>7, <2>8, <2>10, <3>3
  <2> QED
    BY <2>9, <2>10
<1>17. ~done => Eaten(side, level.price)'
  <2> SUFFICES ASSUME ~done PROVE Eaten(side, level.price)'
    OBVIOUS
  <2>1. taker'.remaining > 0
    <3>1. quantity # taker.remaining /\ quantity = Least(taker.remaining, first.remaining)
      BY <1>3
    <3>2. PICK a \in Nat, b \in Nat : a = taker.remaining /\ b = first.remaining
      BY <1>7, <1>10
    <3>3. b < a /\ quantity = b
      BY <3>1, <3>2 DEF Least
    <3> QED
      BY <1>6, <3>2, <3>3
  <2>2. Levels(side)' = levels
    BY <1>3, <1>13
  <2>3. Len(levels) \in Nat \ {0} /\ levels[1].price = level.price
    BY <1>8, <1>11
  <2>4. levels # <<>> /\ Head(levels).price = level.price
    BY <2>3, EmptySeq
  <2>5. CanFill'
    BY <1>2, <1>6, <1>7, <2>1, <2>2, <2>4 DEF CanFill, Crosses
  <2> QED
    BY <1>2, <1>6, <1>15, <2>2, <2>4, <2>5 DEF Eaten
<1>18. ASSUME NEW s \in Sides, NEW p \in Prices
       PROVE  Eaten(s, p)' \/ Seen'[s][p] = Depth(Levels(s)', p)
  <2>1. CASE s = side /\ p = level.price /\ done
    BY <1>12, <1>13, <1>16, <2>1 DEF Depth
  <2>2. CASE s = side /\ p = level.price /\ ~done
    BY <1>17, <2>2
  <2>3. CASE s = side /\ p # level.price
    <3>1. ~Eaten(s, p)
      BY <1>3, <2>3 DEF Eaten
    <3>2. OrdersAt(new, p) = OrdersAt(old, p)
      BY <1>8, <1>11, <1>12, <2>3
    <3>3. Seen[s][p] = Depth(old, p)
      BY <1>3, <2>3, <3>1 DEF DepthInv
    <3> QED
      BY <1>13, <1>16, <2>3, <3>2, <3>3 DEF Depth
  <2>4. CASE s # side
    <3>1. Seen[s][p] = Depth(Levels(s), p)
      BY <1>2, <2>4 DEF DepthInv, Eaten
    <3> QED
      BY <1>13, <1>16, <2>4, <3>1
  <2> QED
    BY <2>1, <2>2, <2>3, <2>4
<1> QED
  BY <1>18 DEF DepthInv

LEMMA SameDepth ==
  ASSUME DepthInv, UNCHANGED <<vars, depth>>
  PROVE  DepthInv'
<1>1. \A side : Levels(side)' = Levels(side)
  BY DEF Levels, vars
<1>2. Seen' = Seen /\ CanFill' = CanFill /\ UNCHANGED taker
  BY DEF Seen, Idle, CanFill, Levels, vars
<1>3. \A side, price : Eaten(side, price)' = Eaten(side, price)
  BY <1>1, <1>2 DEF Eaten, Idle
<1> QED
  BY <1>1, <1>2, <1>3 DEF DepthInv

-----------------------------------------------------------------------------
(* A client always knows the depth *)

LEMMA DepthStep ==
  ASSUME MatchInv, LedgerInv, DepthInv, [PNext]_allVars
  PROVE  DepthInv'
<1>1. Inv /\ Rows /\ QuietInv
  BY DEF MatchInv, LedgerInv
<1>2. Inv'
  BY <1>1, EngineStepInv DEF MatchInv
<1>3. ASSUME NEW o, RejectOrder(o), Emit PROVE DepthInv'
  <2>1. ToSet(outs') = {Rejection(orderCount + 1, o.user)}
    BY <1>3, OneElement DEF RejectOrder
  <2>2. Rejection(orderCount + 1, o.user).event # "orderbook.delta"
    BY DEF Rejection
  <2> QED
    BY <1>3, <2>1, <2>2, CalmDepth DEF RejectOrder
<1>4. ASSUME NEW user, NEW id, NEW side, NEW price, RejectCancel(user, id, side, price), Emit
      PROVE  DepthInv'
  <2>1. ToSet(outs') = {Rejection(id, user)}
    BY <1>4, OneElement DEF RejectCancel
  <2>2. Rejection(id, user).event # "orderbook.delta"
    BY DEF Rejection
  <2> QED
    BY <1>4, <2>1, <2>2, CalmDepth DEF RejectCancel
<1>5. ASSUME NEW user, NEW amount, CreditUser(user, amount), Emit PROVE DepthInv'
  <2>1. ToSet(outs') = {BalanceDraft(user)} /\ BalanceDraft(user).event # "orderbook.delta"
    BY <1>5, OneElement, BalanceDraftNews DEF CreditUser
  <2> QED
    BY <1>5, <2>1, CalmDepth DEF CreditUser
<1>6. ASSUME NEW seq, DropIndexPrice(seq), Emit PROVE DepthInv'
  <2>1. ToSet(outs') = {}
    BY <1>6, EmptySeq DEF DropIndexPrice, ToSet
  <2> QED
    BY <1>6, <2>1, CalmDepth DEF DropIndexPrice
<1>7. ASSUME NEW seq, NEW price, IndexPrice(seq, price), Emit PROVE DepthInv'
  <2>1. PICK hit : hit = {u \in Users : IsLiquidatable(accounts[u].pos, price)}
    OBVIOUS
  <2>2. PICK a, b : /\ a = [event |-> "position.liquidated", users |-> hit, price |-> price]
                    /\ b = AccountDrafts(hit)
    OBVIOUS
  <2>3. a.event # "orderbook.delta" /\ b.event # "orderbook.delta"
    BY <2>2 DEF AccountDrafts
  <2>4. outs' = <<>> \/ outs' = <<a, b>>
    BY <1>7, <2>1, <2>2 DEF IndexPrice
  <2>5. \A e \in ToSet(outs') : e.event # "orderbook.delta"
    BY <2>3, <2>4, EmptySeq, TwoElements DEF ToSet
  <2> QED
    BY <1>7, <2>5, CalmDepth DEF IndexPrice
<1>8. ASSUME NEW o \in OrderInput, PlaceOrder(o) PROVE DepthInv'
  BY <1>3, <1>8, BeginMatchDepth DEF PlaceOrder
<1>9. ASSUME NEW id, NEW side \in Sides, NEW price, DeleteOrder(id, side, price) PROVE DepthInv'
  BY <1>1, <1>4, <1>9, CancelDepth DEF DeleteOrder
<1>10. ASSUME NEW user, SignUp(user) PROVE DepthInv'
  BY <1>5, <1>10 DEF SignUp
<1>11. ASSUME NEW user, NEW amount, Deposit(user, amount) PROVE DepthInv'
  BY <1>5, <1>11 DEF Deposit
<1>12. ASSUME Continue PROVE DepthInv'
  BY <1>1, <1>2, <1>6, <1>7, <1>12, FillDepth, EndMatchDepth DEF Continue, Match
<1>13. ASSUME NEW user, NEW amount, Onramp(user, amount) PROVE DepthInv'
  BY <1>13, SameDepth DEF Onramp
<1>14. ASSUME Project PROVE DepthInv'
  BY <1>14, SameDepth DEF Project
<1>15. ASSUME NEW d, Redeliver(d) PROVE DepthInv'
  BY <1>15, SameDepth DEF Redeliver
<1>16. ASSUME NEW later, PutOff(later) PROVE DepthInv'
  BY <1>16, SameDepth DEF PutOff
<1>17. ASSUME UNCHANGED allVars PROVE DepthInv'
  BY <1>17, SameDepth DEF allVars, projectionVars
<1> QED
  BY <1>8, <1>9, <1>10, <1>11, <1>12, <1>13, <1>14, <1>15, <1>16, <1>17 DEF PNext

LEMMA NothingLeft == QuantityLeft(<<>>) = 0
<1>1. PICK f : f = [k \in {} |-> <<>>[k].remaining]
  OBVIOUS
<1>2. DOMAIN f = {} /\ f \in [{} -> Int] /\ IsFiniteSet({})
  BY <1>1, FS_EmptySet
<1>3. Total(f) = 0
  BY <1>2, TotalType
<1>4. QuantityLeft(<<>>) = Total([k \in DOMAIN <<>> |-> <<>>[k].remaining]) /\ DOMAIN <<>> = {}
  BY EmptySeq DEF QuantityLeft
<1> QED
  BY <1>1, <1>3, <1>4

LEMMA DepthInit ==
  ASSUME PInit
  PROVE  DepthInv
<1>1. /\ Idle /\ bids = <<>> /\ asks = <<>>
      /\ depth = [side \in Sides |-> [price \in Prices |-> 0]]
  BY DEF PInit, Init, Idle
<1>2. Seen = depth
  BY <1>1 DEF Seen
<1>3. ASSUME NEW side \in Sides, NEW price \in Prices
      PROVE  Seen[side][price] = Depth(Levels(side), price)
  <2>1. Levels(side) = <<>>
    BY <1>1 DEF Levels
  <2>2. OrdersAt(<<>>, price) = <<>>
    <3>1. PICK S, none : none \in Seq(S) /\ none = <<>>
      BY EmptySeq
    <3>2. Len(none) = 0 /\ Distinct(none)
      BY <3>1, EmptySeq DEF Distinct
    <3>3. OrdersAt(none, price) = <<>>
      <4>1. \A i \in 1..Len(none) : none[i].price # price
        BY <3>2
      <4>2. none \in Seq(S) /\ Distinct(none)
        BY <3>1, <3>2
      <4> HIDE <3>1, <3>2
      <4> QED
        BY <4>1, <4>2, OrdersAtResult
    <3> QED
      BY <3>1, <3>3
  <2>3. Depth(Levels(side), price) = 0
    BY <2>1, <2>2, NothingLeft DEF Depth
  <2> QED
    BY <1>1, <1>2, <2>3
<1> QED
  BY <1>3 DEF DepthInv

LEMMA DepthInvHolds == PSpec => [](MatchInv /\ LedgerInv /\ DepthInv)
<1>1. PInit => MatchInv /\ LedgerInv /\ DepthInv
  BY LedgerInit, DepthInit
<1>2. (MatchInv /\ LedgerInv /\ DepthInv) /\ [PNext]_allVars => (MatchInv /\ LedgerInv /\ DepthInv)'
  BY LedgerStep, DepthStep
<1> QED
  BY <1>1, <1>2, PTL DEF PSpec

\* Between commands a client of the book knows the depth at every price, from
\* nothing but the deltas it was sent.
THEOREM DeltasAlwaysGiveDepth == PSpec => []DeltasGiveDepth
<1>1. DepthInv => DeltasGiveDepth
  BY DEF DepthInv, Eaten, Seen, DeltasGiveDepth
<1> QED
  BY <1>1, DepthInvHolds, PTL
=============================================================================
