------------------------ MODULE Coordination_proofs ------------------------
(***************************************************************************)
(* Theorems about Coordination, for every number of agents, handoffs and    *)
(* chains, every size of the lists and every bound of the environment.      *)
(*                                                                         *)
(* The ask on display heads the history, with the synthesis model or        *)
(* without.  Without it a refresh is one step, so that what it writes is a  *)
(* function of the row and the tables (Outcome), and nothing that was       *)
(* stored gets lost.                                                        *)
(*                                                                         *)
(* The invariant (IInv) says of a row that it is consistent with itself     *)
(* (RowOK) and with the tables (RowFits), and the same of every row that a  *)
(* chain is going to write when the model has answered.                     *)
(***************************************************************************)
EXTENDS Coordination, TLAPS, FiniteSetTheorems, SequenceTheorems

LEMMA Bounds ==
  /\ IsFiniteSet(Agents) /\ AskCap \in Nat \ {0} /\ PacketCap \in Nat \ {0}
  /\ MaxPrompts \in Nat /\ MaxBriefs \in Nat
BY CoordinationAssumption

-----------------------------------------------------------------------------
(* Lists that are cut                                                       *)

LEMMA CutIsPrefix ==
  ASSUME NEW S, NEW s \in Seq(S), NEW n \in Nat
  PROVE  /\ Cut(s, n) \in Seq(S)
         /\ Len(Cut(s, n)) = IF Len(s) < n THEN Len(s) ELSE n
         /\ \A i \in 1..Len(Cut(s, n)) : Cut(s, n)[i] = s[i]
<1> DEFINE m == IF Len(s) < n THEN Len(s) ELSE n
<1>1. m \in Nat /\ m <= Len(s) /\ Cut(s, n) = SubSeq(s, 1, m)
  BY DEF Cut
<1> HIDE DEF m
<1>2. \A i \in 1..m : s[i] \in S
  BY <1>1
<1>3. /\ SubSeq(s, 1, m) \in Seq(S) /\ Len(SubSeq(s, 1, m)) = IF 1 <= m THEN m - 1 + 1 ELSE 0
      /\ \A i \in 1..(m - 1 + 1) : SubSeq(s, 1, m)[i] = s[1 + i - 1]
  BY <1>1, <1>2, SubSeqProperties
<1>4. Len(SubSeq(s, 1, m)) = m
  BY <1>1, <1>3
<1>5. \A i \in 1..m : SubSeq(s, 1, m)[i] = s[i]
  BY <1>1, <1>3
<1> QED
  BY <1>1, <1>3, <1>4, <1>5 DEF m

(* What was in front of the rest and is pushed on: the rest is still there, *)
(* as far as it fits.                                                       *)
OnlyPushedOut(old, s, cap) == \E n \in 0..Len(s) : SubSeq(s, n + 1, Len(s)) = Cut(old, cap - n)

LEMMA PushedOut ==
  ASSUME NEW S, NEW new \in Seq(S), NEW old \in Seq(S), NEW cap \in Nat,
         NEW s, s = Cut(new \o old, cap)
  PROVE  OnlyPushedOut(old, s, cap)
<1> DEFINE all == new \o old
           k == Len(new)
           l == Len(old)
           m == IF k + l < cap THEN k + l ELSE cap
           n == IF k < cap THEN k ELSE cap
           rest == SubSeq(s, n + 1, m)
           kept == Cut(old, cap - n)
<1>1. /\ all \in Seq(S) /\ Len(all) = k + l /\ k \in Nat /\ l \in Nat
      /\ \A i \in 1..(k + l) : all[i] = IF i <= k THEN new[i] ELSE old[i - k]
  BY ConcatProperties
<1> HIDE DEF all
<1>a. k = Len(new) /\ l = Len(old) /\ s = Cut(all, cap)
  BY DEF all
<1>2. s \in Seq(S) /\ Len(s) = m /\ \A i \in 1..m : s[i] = all[i]
  <2>1. /\ Cut(all, cap) \in Seq(S) /\ Len(Cut(all, cap)) = m
        /\ \A i \in 1..Len(Cut(all, cap)) : Cut(all, cap)[i] = all[i]
    BY <1>1, CutIsPrefix
  <2> HIDE DEF m
  <2> QED
    BY <1>a, <2>1
<1> HIDE DEF k, l
<1>b. n \in 0..m /\ m \in Nat /\ cap - n \in Nat /\ n + 1 \in Int
  BY <1>1
<1>c. m - n = IF l < cap - n THEN l ELSE cap - n
  BY <1>1
<1>d. m - n > 0 => n = k
  BY <1>1
<1> HIDE DEF m, n
<1>3. \A i \in 1..(m - n) : n = k /\ i + n \in 1..m /\ ~(i + n <= k) /\ i + n - k = i
  BY <1>1, <1>b, <1>d
<1>4. kept \in Seq(S) /\ Len(kept) = m - n /\ \A i \in 1..(m - n) : kept[i] = old[i]
  <2>1. /\ kept \in Seq(S) /\ Len(kept) = IF Len(old) < cap - n THEN Len(old) ELSE cap - n
        /\ \A i \in 1..Len(kept) : kept[i] = old[i]
    BY <1>b, CutIsPrefix
  <2> QED
    BY <1>a, <1>c, <2>1
<1> HIDE DEF kept
<1>5. \A i \in (n + 1)..m : s[i] \in S
  <2>1. \A i \in 1..m : s[i] \in S
    BY <1>2, <1>b
  <2>2. (n + 1)..m \subseteq 1..m
    BY <1>b
  <2> QED
    BY <2>1, <2>2
<1>6. /\ rest \in Seq(S) /\ Len(rest) = (IF n + 1 <= m THEN m - (n + 1) + 1 ELSE 0)
      /\ \A i \in 1..(m - (n + 1) + 1) : rest[i] = s[(n + 1) + i - 1]
  BY <1>b, <1>5, SubSeqProperties
<1> HIDE DEF rest
<1>7. Len(rest) = m - n /\ \A i \in 1..(m - n) : rest[i] = s[i + n]
  BY <1>b, <1>6
<1>8. ASSUME NEW i \in 1..(m - n) PROVE rest[i] = kept[i]
  <2>1. rest[i] = all[i + n]
    BY <1>2, <1>3, <1>7
  <2>2. m <= k + l
    BY <1>1 DEF m
  <2>3. i + n \in 1..(k + l)
    BY <1>1, <1>3, <1>b, <2>2
  <2>4. all[i + n] = old[i]
    BY <1>1, <1>3, <2>3
  <2> QED
    BY <1>4, <2>1, <2>4
<1>9. rest = kept
  BY <1>4, <1>6, <1>7, <1>8, SeqEqual
<1>10. SubSeq(s, n + 1, Len(s)) = Cut(old, cap - n) /\ n \in 0..Len(s)
  BY <1>2, <1>b, <1>9 DEF rest, kept
<1> QED
  BY <1>10 DEF OnlyPushedOut

-----------------------------------------------------------------------------
(* Asks and their history                                                   *)

IsAsk(x) == x = [id |-> x.id, prompt |-> x.prompt, requests |-> x.requests, dismissed |-> x.dismissed]
Same(x, y) == x.id = y.id /\ x.prompt = y.prompt /\ x.requests = y.requests

HistoryOK(h) == (\E S : h \in Seq(S)) /\ (h # <<>> => IsAsk(h[1]) /\ h[1].requests # {})
AskOK(ask, h) == IsAsk(ask) /\ (ask # NoAsk => ask.requests # {} /\ h # <<>> /\ Same(ask, h[1]))

LEMMA AskWithRequests == ASSUME NEW x, IsAsk(x), x.requests # {} PROVE x # NoAsk
BY DEF IsAsk, NoAsk

LEMMA HistoryGrows ==
  ASSUME NEW h, HistoryOK(h), NEW ask, IsAsk(ask), ask.requests # {}
  PROVE  LET g == HistoryWith(h, ask) IN HistoryOK(g) /\ g # <<>> /\ g[1] = ask
<1> DEFINE g == HistoryWith(h, ask)
<1>1. PICK S : h \in Seq(S)
  BY DEF HistoryOK
<1> DEFINE T == S \cup {ask}
<1>2. h \in Seq(T) /\ <<ask>> \in Seq(T) /\ Len(<<ask>>) = 1 /\ <<ask>>[1] = ask
  BY <1>1
<1>3. ASSUME NEW t \in Seq(T)
      PROVE  <<ask>> \o t \in Seq(T) /\ Len(<<ask>> \o t) = 1 + Len(t) /\ (<<ask>> \o t)[1] = ask
  BY <1>2, ConcatProperties
<1>4. g \in Seq(T) /\ Len(g) > 0 /\ g[1] = ask
  <2>1. CASE h # <<>> /\ h[1].id = ask.id
    <3>1. Tail(h) \in Seq(T) /\ g = <<ask>> \o Tail(h)
      BY <1>2, <2>1, HeadTailProperties, AskWithRequests DEF HistoryWith
    <3> QED
      BY <1>3, <3>1
  <2>2. CASE ~(h # <<>> /\ h[1].id = ask.id)
    <3>1. g = Cut(<<ask>> \o h, AskCap)
      BY <2>2, AskWithRequests DEF HistoryWith
    <3>2. /\ Len(<<ask>> \o h) = 1 + Len(h) /\ (<<ask>> \o h)[1] = ask /\ <<ask>> \o h \in Seq(T)
          /\ Len(h) \in Nat
      BY <1>2, <1>3
    <3> DEFINE all == <<ask>> \o h
               cut == Cut(all, AskCap)
    <3>3. all \in Seq(T) /\ Len(all) \in Nat \ {0} /\ all[1] = ask
      BY <3>2
    <3> HIDE DEF T, all
    <3>4. cut \in Seq(T) /\ Len(cut) = (IF Len(all) < AskCap THEN Len(all) ELSE AskCap)
          /\ \A i \in 1..Len(cut) : cut[i] = all[i]
      BY <3>3, CutIsPrefix, Bounds
    <3>5. Len(cut) \in Nat /\ Len(cut) > 0
      BY <3>3, <3>4, Bounds
    <3> HIDE DEF cut
    <3>6. cut[1] = ask
      BY <3>3, <3>4, <3>5
    <3> QED
      BY <3>1, <3>4, <3>5, <3>6 DEF cut, all
  <2> QED
    BY <2>1, <2>2
<1> HIDE DEF g, T
<1>5. g # <<>>
  BY <1>4
<1> QED
  BY <1>4, <1>5 DEF HistoryOK, g

-----------------------------------------------------------------------------
(* Rows                                                                     *)

IsRow(r) ==
  r = [kind |-> "row", brief |-> r.brief, ask |-> r.ask, history |-> r.history, edge |-> r.edge,
       plan |-> r.plan, packets |-> r.packets, prompt |-> r.prompt]
EdgeStates == {"none", "unresolved", "resolved"}
Packets == [agent : Agents, prompt : Nat]
PacketsOK(r) ==
  /\ r.prompt \in Nat /\ r.packets \in Seq(Packets)
  /\ \A i \in 1..Len(r.packets) : r.packets[i].prompt <= r.prompt

RowOK(r) ==
  IsRow(r) /\ HistoryOK(r.history) /\ AskOK(r.ask, r.history) /\ r.edge \in [Handoffs -> EdgeStates]
  /\ PacketsOK(r)

LEMMA RowIsThere == ASSUME NEW r, IsRow(r) PROVE r # NoRow
<1>1. r.kind = "row"
  BY DEF IsRow
<1> QED
  BY <1>1 DEF NoRow

\* The ask that a refresh makes out of the requests.
LEMMA MadeAsk ==
  ASSUME NEW r, NEW w, NEW opts
  PROVE  LET made == TeamAsk(r, w, opts) IN
         /\ IsAsk(made) /\ made.requests = NeedsInput(w)
         /\ NeedsInput(w) = {} <=> made = NoAsk
         /\ NeedsInput(w) # {} => made.prompt = Prompt(r, opts)
<1> DEFINE made == TeamAsk(r, w, opts)
<1>1. CASE NeedsInput(w) = {}
  BY <1>1 DEF TeamAsk, NoAsk, IsAsk
<1>2. CASE NeedsInput(w) # {}
  <2>1. PICK i : made = [id |-> i, prompt |-> Prompt(r, opts), requests |-> NeedsInput(w), dismissed |-> FALSE]
    BY <1>2 DEF TeamAsk
  <2> HIDE DEF made
  <2>2. IsAsk(made) /\ made.requests = NeedsInput(w) /\ made.prompt = Prompt(r, opts)
    BY <2>1 DEF IsAsk
  <2>3. made # NoAsk
    BY <1>2, <2>2 DEF NoAsk
  <2> QED
    BY <1>2, <2>2, <2>3 DEF made
<1> QED
  BY <1>1, <1>2

\* The one it carries forward comes from the head of the history.
LEMMA CarriedAsk ==
  ASSUME NEW r, r = NoRow \/ RowOK(r), NEW opts
  PROVE  LET ask == Carried(r, opts) IN
         /\ HistoryOK(History(r)) /\ AskOK(ask, History(r))
<1>1. IsAsk(NoAsk)
  BY DEF IsAsk, NoAsk
<1>2. CASE r = NoRow
  <2>1. Carried(r, opts) = NoAsk /\ History(r) = <<>>
    BY <1>2 DEF Carried, History
  <2>2. <<>> \in Seq({})
    OBVIOUS
  <2> QED
    BY <1>1, <2>1, <2>2 DEF AskOK, HistoryOK
<1>3. CASE RowOK(r)
  <2>1. r # NoRow /\ History(r) = r.history
    BY <1>3, RowIsThere DEF RowOK, History
  <2> DEFINE from == IF r.ask # NoAsk THEN r.ask ELSE IF r.history # <<>> THEN r.history[1] ELSE NoAsk
  <2>2. AskOK(from, r.history)
    BY <1>1, <1>3 DEF RowOK, AskOK, HistoryOK, Same
  <2>3. Carried(r, opts) \in {from, NoAsk}
    BY <2>1, Zenon DEF Carried
  <2> QED
    BY <1>1, <1>3, <2>1, <2>2, <2>3 DEF AskOK, RowOK
<1> QED
  BY <1>2, <1>3

\* The ask and the history of the row that a refresh makes.  Their head is that
\* of before when nobody asks for anything, or the same round for the same.
LEMMA RefreshedAsk ==
  ASSUME NEW r, r = NoRow \/ RowOK(r), NEW w, NEW opts
  PROVE  LET b == Refreshed(r, w, opts) IN
         /\ HistoryOK(b.history) /\ AskOK(b.ask, b.history)
         /\ NeedsInput(w) # {} => b.ask.requests = NeedsInput(w)
         /\ History(r) # <<>>
              /\ (\/ NeedsInput(w) = {}
                  \/ /\ Prompt(r, opts) # 0 /\ History(r)[1].prompt = Prompt(r, opts)
                     /\ History(r)[1].requests = NeedsInput(w))
            => b.history # <<>> /\ Same(b.history[1], History(r)[1])
<1> DEFINE made == TeamAsk(r, w, opts)
           ask  == IF made = NoAsk THEN Carried(r, opts) ELSE made
           h    == HistoryWith(History(r), made)
           g    == IF ask # NoAsk /\ h # <<>> /\ h[1].id = ask.id THEN HistoryWith(h, ask) ELSE h
           asks == NeedsInput(w)
           again == \/ asks = {}
                    \/ /\ Prompt(r, opts) # 0 /\ History(r)[1].prompt = Prompt(r, opts)
                       /\ History(r)[1].requests = asks
<1>1. Refreshed(r, w, opts).ask = ask /\ Refreshed(r, w, opts).history = g
  BY DEF Refreshed, Built
<1>2. /\ IsAsk(made) /\ made.requests = asks /\ (asks = {} <=> made = NoAsk)
      /\ asks # {} => made.prompt = Prompt(r, opts)
  BY MadeAsk
<1>3. HistoryOK(History(r)) /\ AskOK(Carried(r, opts), History(r))
  BY CarriedAsk
<1>4. IsAsk(NoAsk)
  BY DEF IsAsk, NoAsk
<1>5. asks # {} /\ again /\ History(r) # <<>> => made.id = History(r)[1].id
  BY DEF TeamAsk
<1> HIDE DEF made, asks
<1>6. /\ HistoryOK(h)
      /\ made # NoAsk => h # <<>> /\ h[1] = made
      /\ made = NoAsk => h = History(r)
  <2>1. CASE made = NoAsk
    BY <1>3, <2>1 DEF HistoryWith
  <2>2. CASE made # NoAsk
    BY <1>2, <1>3, <2>2, HistoryGrows
  <2> QED
    BY <2>1, <2>2
<1>7. AskOK(ask, h)
  BY <1>2, <1>3, <1>4, <1>6 DEF AskOK, Same
<1>8. HistoryOK(g) /\ AskOK(ask, g) /\ (h # <<>> => g # <<>> /\ Same(g[1], h[1]))
  <2>1. CASE ask # NoAsk /\ h # <<>> /\ h[1].id = ask.id
    <3>1. IsAsk(ask) /\ ask.requests # {} /\ Same(ask, h[1])
      BY <1>7, <2>1 DEF AskOK
    <3> HIDE DEF ask, h
    <3>2. HistoryOK(g) /\ g # <<>> /\ g[1] = ask
      BY <1>6, <2>1, <3>1, HistoryGrows
    <3> HIDE DEF g
    <3> QED
      BY <3>1, <3>2 DEF AskOK, Same
  <2>2. CASE ~(ask # NoAsk /\ h # <<>> /\ h[1].id = ask.id)
    <3>1. g = h
      BY <2>2
    <3> HIDE DEF g, h, ask
    <3> QED
      BY <1>6, <1>7, <3>1 DEF Same
  <2> QED
    BY <2>1, <2>2
<1>9. asks # {} => ask.requests = asks
  BY <1>2
<1>10. ASSUME History(r) # <<>>, again PROVE h # <<>> /\ Same(h[1], History(r)[1])
  <2>1. CASE made = NoAsk
    BY <1>6, <1>10, <2>1 DEF Same
  <2>2. CASE made # NoAsk
    BY <1>2, <1>5, <1>6, <1>10, <2>2 DEF Same
  <2> QED
    BY <2>1, <2>2
<1> HIDE DEF g, h, ask
<1>11. History(r) # <<>> /\ again => g # <<>> /\ Same(g[1], History(r)[1])
  BY <1>8, <1>10 DEF Same
<1> QED
  BY <1>1, <1>8, <1>9, <1>11 DEF asks

LEMMA RefreshedRow ==
  ASSUME NEW r, r = NoRow \/ RowOK(r), NEW w, NEW opts, opts.prompt \in Nat,
         r # NoRow /\ opts.prompt # 0 => r.prompt <= opts.prompt
  PROVE  LET b == Refreshed(r, w, opts) IN
         /\ RowOK(b) /\ b.prompt = Prompt(r, opts) /\ b.brief = BriefOf(r, opts) /\ b.plan = PlanOf(w)
         /\ b.edge = (IF r = NoRow THEN [x \in Handoffs |-> "none"] ELSE r.edge)
         /\ b.packets = IF r = NoRow THEN <<>> ELSE r.packets
<1> DEFINE b == Refreshed(r, w, opts)
<1>1. HistoryOK(b.history) /\ AskOK(b.ask, b.history)
  BY RefreshedAsk
<1>2. /\ IsRow(b) /\ b.prompt = Prompt(r, opts) /\ b.brief = BriefOf(r, opts) /\ b.plan = PlanOf(w)
      /\ b.edge = (IF r = NoRow THEN [x \in Handoffs |-> "none"] ELSE r.edge)
      /\ b.packets = IF r = NoRow THEN <<>> ELSE r.packets
  <2> DEFINE c == Built(r, w, opts)
             ask == IF c.ask = NoAsk THEN Carried(r, opts) ELSE c.ask
             g == IF ask # NoAsk /\ c.history # <<>> /\ c.history[1].id = ask.id
                  THEN HistoryWith(c.history, ask) ELSE c.history
  <2>1. /\ IsRow(c) /\ c.prompt = Prompt(r, opts) /\ c.brief = BriefOf(r, opts) /\ c.plan = PlanOf(w)
        /\ c.edge = (IF r = NoRow THEN [x \in Handoffs |-> "none"] ELSE r.edge)
        /\ c.packets = IF r = NoRow THEN <<>> ELSE r.packets
    BY DEF Built, IsRow
  <2> DEFINE d == [c EXCEPT !.ask = ask]
  <2>2. b = [d EXCEPT !.history = g]
    BY DEF Refreshed
  <2> HIDE DEF c, ask, g
  <2>3. /\ IsRow(d) /\ d.prompt = c.prompt /\ d.brief = c.brief /\ d.plan = c.plan
        /\ d.edge = c.edge /\ d.packets = c.packets
    BY <2>1 DEF IsRow
  <2> HIDE DEF b, d
  <2>4. /\ IsRow(b) /\ b.prompt = d.prompt /\ b.brief = d.brief /\ b.plan = d.plan
        /\ b.edge = d.edge /\ b.packets = d.packets
    BY <2>2, <2>3 DEF IsRow
  <2> QED
    BY <2>1, <2>3, <2>4
<1> HIDE DEF b
<1>3. CASE r = NoRow
  <2>1. b.prompt = opts.prompt \/ b.prompt = 0
    BY <1>2, <1>3 DEF Prompt
  <2>2. b.packets \in Seq(Packets) /\ Len(b.packets) = 0
    BY <1>2, <1>3
  <2>3. b.edge \in [Handoffs -> EdgeStates]
    BY <1>2, <1>3 DEF EdgeStates
  <2> QED
    BY <1>1, <1>2, <2>1, <2>2, <2>3 DEF RowOK, PacketsOK, b
<1>4. CASE RowOK(r)
  <2>1. r # NoRow
    BY <1>4, RowIsThere DEF RowOK
  <2>2. b.prompt \in Nat /\ r.prompt \in Nat /\ r.prompt <= b.prompt
    BY <1>2, <1>4, <2>1 DEF Prompt, RowOK, PacketsOK
  <2>3. b.packets = r.packets /\ b.edge = r.edge
    BY <1>2, <2>1
  <2>4. PacketsOK(b)
    <3>1. ASSUME NEW i \in 1..Len(r.packets)
          PROVE  r.packets[i].prompt \in Nat /\ r.packets[i].prompt <= r.prompt
      <4>1. r.packets[i] \in Packets /\ r.packets[i].prompt <= r.prompt
        BY <1>4 DEF RowOK, PacketsOK
      <4> QED
        BY <4>1 DEF Packets
    <3> QED
      BY <1>4, <2>2, <2>3, <3>1 DEF RowOK, PacketsOK
  <2> QED
    BY <1>1, <1>2, <1>4, <2>3, <2>4 DEF RowOK, b
<1> QED
  BY <1>3, <1>4

\* The edge of handoff h in the row e that is r with its edge written.
EdgeAfter(r, h, e) ==
  IF e = WithEdge(r, h) THEN "unresolved"
  ELSE IF r.edge[h] = "unresolved" THEN "resolved" ELSE r.edge[h]

LEMMA EdgeRow ==
  ASSUME NEW r, RowOK(r), NEW h \in Handoffs, NEW e \in {WithEdge(r, h), WithoutEdge(r, h)}
  PROVE  /\ RowOK(e) /\ e.ask = r.ask /\ e.history = r.history /\ e.prompt = r.prompt
         /\ e.packets = r.packets /\ e.brief = r.brief
         /\ \A x \in Handoffs : x # h => e.edge[x] = r.edge[x]
         /\ e.edge[h] = EdgeAfter(r, h, e)
<1>1. IsRow(r) /\ r.edge \in [Handoffs -> EdgeStates]
  BY DEF RowOK
<1>2. PICK v \in EdgeStates :
        /\ e = [r EXCEPT !.edge[h] = v]
        /\ v = EdgeAfter(r, h, e)
  BY <1>1 DEF WithEdge, WithoutEdge, EdgeStates, EdgeAfter
<1>3. /\ IsRow(e) /\ e.ask = r.ask /\ e.history = r.history /\ e.prompt = r.prompt
      /\ e.packets = r.packets /\ e.brief = r.brief /\ e.edge = [r.edge EXCEPT ![h] = v]
  BY <1>1, <1>2 DEF IsRow
<1> HIDE DEF EdgeStates
<1>4. e.edge \in [Handoffs -> EdgeStates] /\ e.edge[h] = v /\ \A x \in Handoffs : x # h => e.edge[x] = r.edge[x]
  BY <1>1, <1>3
<1> QED
  BY <1>2, <1>3, <1>4 DEF RowOK, PacketsOK

\* The packets of a reply: one for each agent that is to run, all of this round.
NewPackets(r) ==
  [i \in 1..Cardinality(Ready(r)) |-> [agent |-> InOrder(Ready(r))[i], prompt |-> r.prompt]]

LEMMA ReadyPackets ==
  ASSUME NEW r, r.prompt \in Nat
  PROVE  /\ NewPackets(r) \in Seq(Packets)
         /\ \A i \in 1..Len(NewPackets(r)) :
              NewPackets(r)[i].agent \in Ready(r) /\ NewPackets(r)[i].prompt = r.prompt
<1> DEFINE S == Ready(r)
           n == Cardinality(S)
           Listed(s) == s \in [1..n -> S] /\ \A a \in S : \E i \in DOMAIN s : s[i] = a
<1>1. IsFiniteSet(S) /\ S \subseteq Agents
  BY Bounds, FS_Subset DEF Ready
<1>2. n \in Nat /\ ExistsBijection(1..n, S)
  BY <1>1, FS_CardinalityType
<1>3. \E s \in [1..n -> S] : \A a \in S : \E i \in DOMAIN s : s[i] = a
  BY <1>2 DEF ExistsBijection, Bijection, Injection, Surjection, IsInjective
<1>4. InOrder(S) \in [1..n -> S]
  BY <1>3 DEF InOrder
<1> HIDE DEF S, n
<1>5. NewPackets(r) = [i \in 1..n |-> [agent |-> InOrder(S)[i], prompt |-> r.prompt]]
  BY DEF NewPackets, S, n
<1>6. \A i \in 1..n : InOrder(S)[i] \in S /\ InOrder(S)[i] \in Agents
  BY <1>1, <1>4
<1>7. NewPackets(r) \in [1..n -> Packets]
  BY <1>5, <1>6 DEF Packets
<1>8. NewPackets(r) \in Seq(Packets) /\ Len(NewPackets(r)) = n
  BY <1>2, <1>7
<1>9. \A i \in 1..n : NewPackets(r)[i].agent = InOrder(S)[i] /\ NewPackets(r)[i].prompt = r.prompt
  BY <1>5
<1> QED
  BY <1>6, <1>8, <1>9 DEF S

LEMMA PacketsRow ==
  ASSUME NEW r, RowOK(r)
  PROVE  LET p == WithPackets(r) IN
         /\ RowOK(p) /\ p.ask = r.ask /\ p.edge = r.edge /\ p.prompt = r.prompt /\ p.brief = r.brief
         /\ p.packets = Cut(NewPackets(r) \o r.packets, PacketCap)
         /\ \A i \in 1..Len(p.packets) :
              \/ p.packets[i].agent \in Ready(r)
              \/ \E j \in 1..Len(r.packets) : p.packets[i] = r.packets[j]
<1> DEFINE p == WithPackets(r)
           all == NewPackets(r) \o r.packets
           k == Len(NewPackets(r))
           l == Len(r.packets)
<1>1. /\ IsRow(r) /\ r.prompt \in Nat /\ r.packets \in Seq(Packets)
      /\ \A i \in 1..Len(r.packets) : r.packets[i].prompt <= r.prompt
  BY DEF RowOK, PacketsOK
<1>2. p = [r EXCEPT !.packets = Cut(all, PacketCap)]
  BY <1>1 DEF WithPackets, NewPackets, IsRow
<1>3. /\ NewPackets(r) \in Seq(Packets)
      /\ \A i \in 1..k : NewPackets(r)[i].agent \in Ready(r) /\ NewPackets(r)[i].prompt = r.prompt
  BY <1>1, ReadyPackets
<1>4. /\ all \in Seq(Packets) /\ Len(all) = k + l /\ k \in Nat /\ l \in Nat
      /\ \A i \in 1..(k + l) : all[i] = IF i <= k THEN NewPackets(r)[i] ELSE r.packets[i - k]
  BY <1>1, <1>3, ConcatProperties
<1> DEFINE cut == Cut(all, PacketCap)
<1> HIDE DEF all, k, l
<1>5. cut \in Seq(Packets) /\ Len(cut) <= k + l /\ Len(cut) \in Nat /\ \A i \in 1..Len(cut) : cut[i] = all[i]
  BY <1>4, CutIsPrefix, Bounds
<1> HIDE DEF cut
<1>6. ASSUME NEW i \in 1..Len(cut)
      PROVE  \/ cut[i].agent \in Ready(r) /\ cut[i].prompt = r.prompt
             \/ \E j \in 1..l : cut[i] = r.packets[j]
  <2>1. i \in 1..(k + l) /\ cut[i] = all[i]
    BY <1>4, <1>5
  <2>2. CASE i <= k
    BY <1>3, <1>4, <2>1, <2>2 DEF k
  <2>3. CASE ~(i <= k)
    <3>1. i - k \in 1..l /\ cut[i] = r.packets[i - k]
      BY <1>4, <2>1, <2>3
    <3> QED
      BY <3>1
  <2> QED
    BY <2>2, <2>3
<1>7. \A i \in 1..Len(cut) : cut[i].prompt <= r.prompt
  BY <1>1, <1>6 DEF l
<1>8. /\ IsRow(p) /\ p.packets = cut /\ p.ask = r.ask /\ p.history = r.history /\ p.edge = r.edge
      /\ p.prompt = r.prompt /\ p.brief = r.brief
  BY <1>1, <1>2 DEF IsRow, cut
<1> HIDE DEF p
<1>9. RowOK(p)
  BY <1>1, <1>5, <1>7, <1>8 DEF RowOK, PacketsOK
<1> QED
  BY <1>6, <1>8, <1>9 DEF p, cut, all, l

-----------------------------------------------------------------------------
(* The invariant                                                            *)

World(w) ==
  /\ w = [state |-> w.state, run |-> w.run, approval |-> w.approval, handoff |-> w.handoff]
  /\ w.handoff \in [Handoffs -> {"NONE", "OPEN", "ASSIGNED", "DONE", "DISMISSED"}]

\* There is no edge of a handoff that was not made yet.
KnownEdges(r, w) == \A h \in Handoffs : w.handoff[h] = "NONE" => r.edge[h] = "none"
RowFits(r, w, p) == RowOK(r) /\ r.prompt <= p /\ KnownEdges(r, w)

NextOK(next, w) ==
  \/ next.op \in {"done", "packets"}
  \/ /\ next.op \in {"edge", "resolve"}
     /\ next.handoff \in Handoffs /\ w.handoff[next.handoff] # "NONE"

\* What a chain that waits for the model is going to write, and to do then.
Waits(v, w, p) == v # Idle => RowFits(v.draft, w, p) /\ NextOK(v.next, w)

IInv ==
  /\ World(world) /\ prompts \in Nat
  /\ row # NoRow => RowFits(row, world, prompts)
  /\ pending = [c \in Chains |-> pending[c]]
  /\ \A c \in Chains : Waits(pending[c], world, prompts)
  /\ ~synthesizes => \A c \in Chains : pending[c] = Idle

\* The tables x come after the tables w: no handoff is unmade.
Onward(w, x) == World(x) /\ \A h \in Handoffs : x.handoff[h] = "NONE" => w.handoff[h] = "NONE"

LEMMA FitsOnward ==
  ASSUME NEW w, NEW x, Onward(w, x), NEW p \in Nat, NEW q \in Nat, p <= q
  PROVE  /\ \A r : RowFits(r, w, p) => RowFits(r, x, q)
         /\ \A next : NextOK(next, w) => NextOK(next, x)
         /\ \A v : Waits(v, w, p) => Waits(v, x, q)
<1>1. ASSUME NEW r, RowFits(r, w, p) PROVE RowFits(r, x, q)
  <2>1. r.prompt \in Nat /\ r.prompt <= p
    BY <1>1 DEF RowFits, RowOK, PacketsOK
  <2> QED
    BY <1>1, <2>1 DEF RowFits, KnownEdges, Onward
<1>2. ASSUME NEW next, NextOK(next, w) PROVE NextOK(next, x)
  BY <1>2 DEF NextOK, Onward
<1> QED
  BY <1>1, <1>2 DEF Waits

LEMMA RefreshedFits ==
  ASSUME NEW w, NEW p \in Nat, NEW r, r # NoRow => RowFits(r, w, p), NEW opts,
         opts.prompt \in Nat, NEW q \in Nat, p <= q, opts.prompt # 0 => opts.prompt = q
  PROVE  LET b == Refreshed(r, w, opts) IN
         /\ RowFits(b, w, q) /\ b.plan = PlanOf(w) /\ b.prompt = Prompt(r, opts)
         /\ b.brief = BriefOf(r, opts)
         /\ r # NoRow => b.edge = r.edge /\ b.packets = r.packets
<1> DEFINE b == Refreshed(r, w, opts)
<1>1. r # NoRow => r.prompt \in Nat /\ r.prompt <= p
  BY DEF RowFits, RowOK, PacketsOK
<1>2. (r = NoRow \/ RowOK(r)) /\ (r # NoRow /\ opts.prompt # 0 => r.prompt <= opts.prompt)
  BY <1>1 DEF RowFits
<1>3. /\ RowOK(b) /\ b.prompt = Prompt(r, opts) /\ b.brief = BriefOf(r, opts) /\ b.plan = PlanOf(w)
      /\ b.edge = (IF r = NoRow THEN [x \in Handoffs |-> "none"] ELSE r.edge)
      /\ b.packets = IF r = NoRow THEN <<>> ELSE r.packets
  BY <1>2, RefreshedRow
<1> HIDE DEF b
<1>4. b.prompt <= q
  BY <1>1, <1>3 DEF Prompt
<1>5. KnownEdges(b, w)
  BY <1>3 DEF KnownEdges, RowFits
<1> QED
  BY <1>3, <1>4, <1>5 DEF RowFits, b

\* What is stored in the end when no model is asked.
Stored(r, w, next) ==
  IF next.op = "packets" THEN IF Ready(r) = {} THEN r ELSE WithPackets(r)
  ELSE IF next.op = "edge" THEN Refreshed(WithEdge(r, next.handoff), w, NoOptions)
  ELSE IF next.op = "resolve" THEN Refreshed(WithoutEdge(r, next.handoff), w, NoOptions)
  ELSE r

LEMMA LastRefresh ==
  ASSUME NEW c \in Chains, NEW w, World(w), NEW p \in Nat, NEW r, RowFits(r, w, p), NEW kept,
         RefreshLast(c, r, w, kept)
  PROVE  /\ world' = w /\ RowFits(row', w, p)
         /\ \E v : pending' = [pending EXCEPT ![c] = v] /\ Waits(v, w, p) /\ (~synthesizes => v = Idle)
         /\ ~synthesizes => row' = Refreshed(r, w, NoOptions)
<1> DEFINE b == Refreshed(r, w, NoOptions)
<1>1. RowFits(b, w, p)
  <2> DEFINE opts == NoOptions
  <2>1. opts.prompt \in Nat /\ (opts.prompt # 0 => opts.prompt = p) /\ p <= p /\ (r # NoRow => RowFits(r, w, p))
    BY DEF NoOptions
  <2> HIDE DEF opts
  <2>2. RowFits(Refreshed(r, w, opts), w, p)
    BY <2>1, RefreshedFits
  <2> QED
    BY <2>2 DEF opts
<1> HIDE DEF b
<1>2. CASE MustAsk(r, w, NoOptions, kept)
  <2> DEFINE v == [step |-> "asking", draft |-> b, key |-> Prompt(r, NoOptions),
                   agents |-> Waiting(w), next |-> [op |-> "done"]]
  <2>1. row' = r /\ pending' = [pending EXCEPT ![c] = v] /\ world' = w /\ synthesizes
    BY <1>2 DEF RefreshLast, AskModel, b, MustAsk
  <2>2. Waits(v, w, p)
    BY <1>1 DEF Waits, NextOK
  <2> QED
    BY <2>1, <2>2
<1>3. CASE ~MustAsk(r, w, NoOptions, kept)
  <2>1. row' = b /\ pending' = [pending EXCEPT ![c] = Idle] /\ world' = w
    BY <1>3 DEF RefreshLast, Keep, b
  <2> QED
    BY <1>1, <2>1 DEF Waits, b
<1> QED
  BY <1>2, <1>3

LEMMA StoreKeeps ==
  ASSUME NEW c \in Chains, NEW w, World(w), NEW p \in Nat, NEW r, RowFits(r, w, p),
         NEW next, NextOK(next, w), NEW kept, Store(c, r, w, next, kept)
  PROVE  /\ Onward(w, world') /\ RowFits(row', w, p)
         /\ \E v : pending' = [pending EXCEPT ![c] = v] /\ Waits(v, w, p) /\ (~synthesizes => v = Idle)
         /\ ~synthesizes => row' = Stored(r, w, next)
<1>1. CASE next.op = "done" /\ Keep(c, r) /\ world' = w
  BY <1>1 DEF Keep, Onward, Waits, Stored
<1>2. CASE /\ next.op = "packets"
           /\ Keep(c, IF Ready(r) = {} THEN r ELSE WithPackets(r))
           /\ world' = [w EXCEPT !.run = [a \in Agents |-> IF a \in Ready(r) THEN @[a] + 1 ELSE @[a]],
                         !.state = [a \in Agents |-> IF a \in Ready(r) THEN "RUNNING" ELSE @[a]]]
  <2> DEFINE p2 == WithPackets(r)
  <2>1. RowOK(p2) /\ p2.edge = r.edge /\ p2.prompt = r.prompt
    BY PacketsRow DEF RowFits
  <2>2. RowFits(p2, w, p)
    BY <2>1 DEF RowFits, KnownEdges
  <2> HIDE DEF p2
  <2>3. row' = (IF Ready(r) = {} THEN r ELSE p2) /\ pending' = [pending EXCEPT ![c] = Idle]
    BY <1>2 DEF Keep, p2
  <2>4. Onward(w, world')
    BY <1>2 DEF Onward, World
  <2>5. row' = Stored(r, w, next)
    BY <1>2, <2>3 DEF Stored, p2
  <2> QED
    BY <2>2, <2>3, <2>4, <2>5 DEF Waits
<1>3. CASE next.op = "edge" /\ RefreshLast(c, WithEdge(r, next.handoff), w, kept)
  <2> DEFINE e == WithEdge(r, next.handoff)
  <2>1. next.handoff \in Handoffs /\ w.handoff[next.handoff] # "NONE"
    BY <1>3 DEF NextOK
  <2>2. RowOK(e) /\ e.prompt = r.prompt /\ \A x \in Handoffs : x # next.handoff => e.edge[x] = r.edge[x]
    BY <2>1, EdgeRow DEF RowFits
  <2> HIDE DEF e
  <2>3. RowFits(e, w, p)
    BY <2>1, <2>2 DEF RowFits, KnownEdges
  <2>4. RefreshLast(c, e, w, kept)
    BY <1>3 DEF e
  <2>5. /\ world' = w /\ RowFits(row', w, p)
        /\ \E v : pending' = [pending EXCEPT ![c] = v] /\ Waits(v, w, p) /\ (~synthesizes => v = Idle)
        /\ ~synthesizes => row' = Refreshed(e, w, NoOptions)
    BY <2>3, <2>4, LastRefresh
  <2>6. Onward(w, world')
    BY <2>5 DEF Onward
  <2>7. Stored(r, w, next) = Refreshed(e, w, NoOptions)
    BY <1>3 DEF Stored, e
  <2> QED
    BY <2>5, <2>6, <2>7
<1>4. CASE next.op = "resolve" /\ RefreshLast(c, WithoutEdge(r, next.handoff), w, kept)
  <2> DEFINE e == WithoutEdge(r, next.handoff)
  <2>1. next.handoff \in Handoffs /\ w.handoff[next.handoff] # "NONE"
    BY <1>4 DEF NextOK
  <2>2. RowOK(e) /\ e.prompt = r.prompt /\ \A x \in Handoffs : x # next.handoff => e.edge[x] = r.edge[x]
    BY <2>1, EdgeRow DEF RowFits
  <2> HIDE DEF e
  <2>3. RowFits(e, w, p)
    BY <2>1, <2>2 DEF RowFits, KnownEdges
  <2>4. RefreshLast(c, e, w, kept)
    BY <1>4 DEF e
  <2>5. /\ world' = w /\ RowFits(row', w, p)
        /\ \E v : pending' = [pending EXCEPT ![c] = v] /\ Waits(v, w, p) /\ (~synthesizes => v = Idle)
        /\ ~synthesizes => row' = Refreshed(e, w, NoOptions)
    BY <2>3, <2>4, LastRefresh
  <2>6. Onward(w, world')
    BY <2>5 DEF Onward
  <2>7. Stored(r, w, next) = Refreshed(e, w, NoOptions)
    BY <1>4 DEF Stored, e
  <2> QED
    BY <2>5, <2>6, <2>7
<1> QED
  BY <1>1, <1>2, <1>3, <1>4 DEF Store

\* The tables, the row and the pending writes after a step of chain c.
LEMMA Together ==
  ASSUME IInv, NEW c \in Chains, NEW w, Onward(world, w), Onward(w, world'),
         prompts' \in Nat, prompts <= prompts',
         row' # NoRow => RowFits(row', w, prompts'),
         NEW v, pending' = [pending EXCEPT ![c] = v], Waits(v, w, prompts'),
         synthesizes' = synthesizes, ~synthesizes => v = Idle
  PROVE  IInv'
<1> DEFINE p == prompts'
<1>1. /\ \A r : RowFits(r, w, p) => RowFits(r, world', p)
      /\ \A x : Waits(x, w, p) => Waits(x, world', p)
  BY FitsOnward
<1>2. \A x : Waits(x, world, prompts) => Waits(x, w, p)
  BY FitsOnward DEF IInv
<1>3. pending' = [d \in Chains |-> IF d = c THEN v ELSE pending[d]]
  BY Zenon DEF IInv
<1>4. \A d \in Chains : pending'[d] = IF d = c THEN v ELSE pending[d]
  BY <1>3
<1>5. pending' = [d \in Chains |-> pending'[d]]
  BY <1>3, <1>4
<1>6. \A d \in Chains : Waits(pending'[d], world', p)
  BY <1>1, <1>2, <1>4 DEF IInv
<1>7. ~synthesizes' => \A d \in Chains : pending'[d] = Idle
  BY <1>4 DEF IInv
<1>8. World(world') /\ (row' # NoRow => RowFits(row', world', p))
  BY <1>1 DEF Onward
<1> QED
  BY <1>5, <1>6, <1>7, <1>8 DEF IInv

\* What a refresh stores when no model is asked.
Outcome(r, w, opts, next) == Stored(Refreshed(r, w, opts), w, next)

LEMMA RefreshKeeps ==
  ASSUME IInv, NEW c \in Chains, NEW w, Onward(world, w), NEW opts, opts.prompt \in Nat,
         prompts' \in Nat, prompts <= prompts', opts.prompt # 0 => opts.prompt = prompts',
         NEW next, NextOK(next, w), Refresh(c, w, opts, next), synthesizes' = synthesizes
  PROVE  IInv' /\ (~synthesizes => row' = Outcome(row, w, opts, next))
<1> DEFINE b == Refreshed(row, w, opts)
           p == prompts'
<1>1. row # NoRow => RowFits(row, w, prompts)
  BY FitsOnward DEF IInv
<1>2. RowFits(b, w, p)
  BY <1>1, RefreshedFits DEF IInv
<1>3. row # NoRow => RowFits(row, w, p)
  BY FitsOnward DEF IInv
<1>4. World(w) /\ Onward(w, w)
  BY DEF Onward
<1> HIDE DEF b
<1>5. CASE MustAsk(row, w, opts, cached)
  <2> DEFINE v == [step |-> "asking", draft |-> b, key |-> Prompt(row, opts),
                   agents |-> Waiting(w), next |-> next]
  <2>1. row' = row /\ pending' = [pending EXCEPT ![c] = v] /\ world' = w /\ synthesizes
    BY <1>5 DEF Refresh, AskModel, b, MustAsk
  <2>2. Waits(v, w, p)
    BY <1>2 DEF Waits
  <2> HIDE DEF v, p
  <2>3. IInv'
    BY <1>3, <1>4, <2>1, <2>2, Together DEF p
  <2> QED
    BY <2>1, <2>3
<1>6. CASE ~MustAsk(row, w, opts, cached)
  <2>1. Store(c, b, w, next, cached)
    BY <1>6 DEF Refresh, b
  <2>2. /\ Onward(w, world') /\ RowFits(row', w, p)
        /\ \E v : pending' = [pending EXCEPT ![c] = v] /\ Waits(v, w, p) /\ (~synthesizes => v = Idle)
        /\ ~synthesizes => row' = Stored(b, w, next)
    BY <1>2, <1>4, <2>1, StoreKeeps
  <2>3. PICK v : pending' = [pending EXCEPT ![c] = v] /\ Waits(v, w, p) /\ (~synthesizes => v = Idle)
    BY <2>2
  <2>4. IInv'
    BY <2>2, <2>3, Together
  <2> QED
    BY <2>2, <2>4 DEF Outcome, b
<1> QED
  BY <1>5, <1>6

LEMMA ReturnKeeps ==
  ASSUME IInv, NEW c \in Chains, NEW answered, Return(c, answered)
  PROVE  IInv' /\ synthesizes
<1>1. pending[c] # Idle /\ RowFits(pending[c].draft, world, prompts) /\ NextOK(pending[c].next, world)
  BY DEF IInv, Waits, Return, Active
<1>2. Store(c, pending[c].draft, world, pending[c].next, cached') /\ prompts' = prompts
      /\ synthesizes' = synthesizes
  BY DEF Return, env
<1>3. World(world) /\ prompts \in Nat
  BY DEF IInv
<1>4. /\ Onward(world, world') /\ RowFits(row', world, prompts)
      /\ \E v : pending' = [pending EXCEPT ![c] = v] /\ Waits(v, world, prompts) /\ (~synthesizes => v = Idle)
  BY <1>1, <1>2, <1>3, StoreKeeps
<1>5. PICK v : pending' = [pending EXCEPT ![c] = v] /\ Waits(v, world, prompts) /\ (~synthesizes => v = Idle)
  BY <1>4
<1>6. Onward(world, world)
  BY <1>3 DEF Onward
<1> QED
  BY <1>1, <1>2, <1>3, <1>4, <1>5, <1>6, Together DEF IInv

\* The tables change, or nothing does; the row and the pending writes stay.
LEMMA TablesMove ==
  ASSUME IInv, Onward(world, world'), row' = row, pending' = pending, prompts' = prompts,
         synthesizes' = synthesizes
  PROVE  IInv'
<1>1. /\ \A r : RowFits(r, world, prompts) => RowFits(r, world', prompts)
      /\ \A v : Waits(v, world, prompts) => Waits(v, world', prompts)
  BY FitsOnward DEF IInv
<1>2. World(world')
  BY DEF Onward
<1> QED
  BY <1>1, <1>2 DEF IInv

\* The steps that write the row when no model is asked.
Dismissed == row # NoRow /\ row.ask # NoAsk /\ row' = [row EXCEPT !.ask.dismissed = TRUE]
RefreshStep(w, opts, next) ==
  /\ Onward(world, w) /\ NextOK(next, w) /\ opts.prompt \in Nat
  /\ opts.prompt # 0 => opts.prompt = prompts + 1
  /\ opts.brief # {} => decisions' = decisions + 1
  /\ next.op = "packets" => w = world /\ opts.prompt # 0
  /\ next.op = "edge" => world.handoff[next.handoff] = "NONE"
  /\ row' = Outcome(row, w, opts, next)
PlainStep == row' = row \/ Dismissed \/ \E w, opts, next : RefreshStep(w, opts, next)

\* The tables with some fields changed are tables.
LEMMA TablesChanged ==
  ASSUME NEW w, World(w), NEW a, NEW s, NEW b
  PROVE  /\ Onward(w, [w EXCEPT !.state[a] = s])
         /\ Onward(w, [w EXCEPT !.state[a] = s, !.approval[a] = b])
         /\ Onward(w, [w EXCEPT !.state[a] = s, !.run[a] = b])
<1> DEFINE Names == {"state", "run", "approval", "handoff"}
<1>1. ASSUME NEW x, DOMAIN x = Names, x = [f \in DOMAIN x |-> x[f]], x.handoff = w.handoff
      PROVE  Onward(w, x)
  <2>1. x = [state |-> x.state, run |-> x.run, approval |-> x.approval, handoff |-> x.handoff]
    BY <1>1
  <2> QED
    BY <1>1, <2>1 DEF World, Onward
<1>2. DOMAIN w = Names
  BY DEF World
<1>3. Onward(w, [w EXCEPT !.state[a] = s])
  <2> DEFINE x == [w EXCEPT !.state[a] = s]
  <2>1. DOMAIN x = Names /\ x = [f \in DOMAIN x |-> x[f]] /\ x.handoff = w.handoff
    BY <1>2
  <2> HIDE DEF x
  <2> QED
    BY <1>1, <2>1 DEF x
<1>4. Onward(w, [w EXCEPT !.state[a] = s, !.approval[a] = b])
  <2> DEFINE x == [w EXCEPT !.state[a] = s, !.approval[a] = b]
  <2>1. DOMAIN x = Names /\ x = [f \in DOMAIN x |-> x[f]] /\ x.handoff = w.handoff
    BY <1>2
  <2> HIDE DEF x
  <2> QED
    BY <1>1, <2>1 DEF x
<1>5. Onward(w, [w EXCEPT !.state[a] = s, !.run[a] = b])
  <2> DEFINE x == [w EXCEPT !.state[a] = s, !.run[a] = b]
  <2>1. DOMAIN x = Names /\ x = [f \in DOMAIN x |-> x[f]] /\ x.handoff = w.handoff
    BY <1>2
  <2> HIDE DEF x
  <2> QED
    BY <1>1, <2>1 DEF x
<1> QED
  BY <1>3, <1>4, <1>5

LEMMA HandoffMoves ==
  ASSUME NEW w, World(w), NEW h \in Handoffs, NEW s \in {"OPEN", "ASSIGNED", "DONE", "DISMISSED"}
  PROVE  Onward(w, [w EXCEPT !.handoff[h] = s]) /\ [w EXCEPT !.handoff[h] = s].handoff[h] = s
<1> DEFINE x  == [w EXCEPT !.handoff[h] = s]
           hs == [w.handoff EXCEPT ![h] = s]
<1>1. x = [state |-> w.state, run |-> w.run, approval |-> w.approval, handoff |-> hs]
  BY DEF World
<1>2. /\ hs \in [Handoffs -> {"NONE", "OPEN", "ASSIGNED", "DONE", "DISMISSED"}] /\ hs[h] = s
      /\ \A d \in Handoffs : d # h => hs[d] = w.handoff[d]
  BY DEF World
<1> HIDE DEF x, hs
<1> QED
  BY <1>1, <1>2 DEF Onward, World, x

LEMMA RowDismissed ==
  ASSUME NEW r, IsRow(r)
  PROVE  [r EXCEPT !.ask.dismissed = TRUE] =
           [kind |-> "row", brief |-> r.brief, ask |-> [r.ask EXCEPT !.dismissed = TRUE],
            history |-> r.history, edge |-> r.edge, plan |-> r.plan,
            packets |-> r.packets, prompt |-> r.prompt]
<1> DEFINE v == [r.ask EXCEPT !.dismissed = TRUE]
<1>1. [r EXCEPT !.ask.dismissed = TRUE] = [r EXCEPT !.ask = v]
  OBVIOUS
<1> HIDE DEF v
<1>2. [r EXCEPT !.ask = v] =
        [kind |-> "row", brief |-> r.brief, ask |-> v, history |-> r.history, edge |-> r.edge,
         plan |-> r.plan, packets |-> r.packets, prompt |-> r.prompt]
  BY DEF IsRow
<1> QED
  BY <1>1, <1>2 DEF v

LEMMA StepKeeps ==
  ASSUME IInv, [Next]_vars PROVE IInv' /\ (~synthesizes => PlainStep)
<1> DEFINE Good == IInv' /\ (~synthesizes => PlainStep)
<1>1. World(world) /\ Onward(world, world) /\ prompts \in Nat
  BY DEF IInv, Onward
\* A refresh with what its caller passes it.
<1>2. ASSUME NEW c \in Chains, NEW w, Onward(world, w), NEW opts, NEW next, NextOK(next, w),
             Refresh(c, w, opts, next), synthesizes' = synthesizes,
             \/ prompts' = prompts /\ opts.prompt = 0
             \/ prompts' = prompts + 1 /\ opts.prompt = prompts + 1,
             opts.brief # {} => decisions' = decisions + 1,
             next.op = "packets" => w = world /\ opts.prompt # 0,
             next.op = "edge" => world.handoff[next.handoff] = "NONE"
      PROVE  Good
  <2>1. /\ opts.prompt \in Nat /\ prompts' \in Nat /\ prompts <= prompts'
        /\ opts.prompt # 0 => opts.prompt = prompts'
    BY <1>1, <1>2
  <2>2. IInv' /\ (~synthesizes => row' = Outcome(row, w, opts, next))
    BY <1>2, <2>1, RefreshKeeps
  <2>3. ~synthesizes => RefreshStep(w, opts, next)
    BY <1>1, <1>2, <2>1, <2>2 DEF RefreshStep
  <2> QED
    BY <2>2, <2>3 DEF PlainStep
\* A step that leaves the row alone.
<1>3. ASSUME Onward(world, world'), row' = row, pending' = pending, prompts' = prompts,
             synthesizes' = synthesizes
      PROVE  Good
  BY <1>3, TablesMove DEF PlainStep
<1>4. /\ \A h \in Handoffs, s \in {"OPEN", "ASSIGNED", "DONE", "DISMISSED"} :
           /\ Onward(world, [world EXCEPT !.handoff[h] = s])
           /\ [world EXCEPT !.handoff[h] = s].handoff[h] = s
      /\ \A a \in Agents : \A s, b : Onward(world, [world EXCEPT !.state[a] = s, !.approval[a] = b])
      /\ \A a \in Agents : \A s : Onward(world, [world EXCEPT !.state[a] = s])
      /\ \A a \in Agents : \A s, n : Onward(world, [world EXCEPT !.state[a] = s, !.run[a] = n])
  BY <1>1, TablesChanged, HandoffMoves
<1>5. \A w : NextOK([op |-> "done"], w) /\ NextOK([op |-> "packets"], w)
  BY DEF NextOK
<1>6. NoOptions.prompt = 0 /\ NoOptions.brief = {}
  BY DEF NoOptions
<1> HIDE DEF Good
<1>7. CASE Next
  <2>1. ASSUME NEW c \in Chains, Poll(c) PROVE Good
    BY <1>1, <1>2, <1>5, <1>6, <2>1 DEF Poll, env
  <2>2. ASSUME NEW c \in Chains, Dispatch(c) PROVE Good
    <3> DEFINE opts == [brief |-> {}, prompt |-> prompts + 1]
    <3>1. opts.brief = {} /\ opts.prompt = prompts + 1 /\ opts.prompt # 0
      BY <1>1
    <3>2. Refresh(c, world, opts, [op |-> "packets"]) /\ synthesizes' = synthesizes /\ prompts' = prompts + 1
      BY <2>2 DEF Dispatch
    <3> HIDE DEF opts
    <3> QED
      BY <1>1, <1>2, <1>5, <3>1, <3>2
  <2>3. ASSUME NEW c \in Chains, NEW answered, Return(c, answered) PROVE Good
    BY <2>3, ReturnKeeps DEF Good
  <2>4. ASSUME NEW c \in Chains, NEW b, PutBrief(c, b) \/ PatchBrief(c, b) PROVE Good
    <3> DEFINE opts == [brief |-> {b}, prompt |-> 0]
    <3>1. opts.prompt = 0
      OBVIOUS
    <3>2. /\ Refresh(c, world, opts, [op |-> "done"]) /\ synthesizes' = synthesizes
          /\ prompts' = prompts /\ decisions' = decisions + 1
      BY <2>4 DEF PutBrief, PatchBrief
    <3> HIDE DEF opts
    <3> QED
      BY <1>1, <1>2, <1>5, <3>1, <3>2
  <2>5. ASSUME NEW c \in Chains, NEW a \in Agents, Settle(c, a) PROVE Good
    <3>1. PICK s \in {"WAITING_INPUT", "ERROR"} :
            Refresh(c, [world EXCEPT !.state[a] = s], NoOptions, [op |-> "done"])
      BY <2>5 DEF Settle
    <3> QED
      BY <1>1, <1>2, <1>4, <1>5, <1>6, <2>5, <3>1 DEF Settle, env
  <2>6. ASSUME NEW c \in Chains, NEW a \in Agents, AskApproval(c, a) PROVE Good
    BY <1>3, <1>4, <2>6 DEF AskApproval
  <2>7. ASSUME NEW c \in Chains, NEW a \in Agents, Decide(c, a) PROVE Good
    <3> DEFINE w == [world EXCEPT !.state[a] = "RUNNING", !.approval[a] = FALSE]
    <3>1. Onward(world, w)
      BY <1>4
    <3>2. /\ Refresh(c, w, NoOptions, [op |-> "done"]) /\ synthesizes' = synthesizes
          /\ prompts' = prompts
      BY <2>7 DEF Decide, env
    <3> HIDE DEF w
    <3> QED
      BY <1>2, <1>5, <1>6, <3>1, <3>2
  <2>8. ASSUME NEW c \in Chains, NEW h \in Handoffs, CreateHandoff(c, h) PROVE Good
    <3> DEFINE w == [world EXCEPT !.handoff[h] = "OPEN"]
               next == [op |-> "edge", handoff |-> h]
    <3>1. Onward(world, w) /\ w.handoff[h] = "OPEN"
      BY <1>4
    <3>2. NextOK(next, w) /\ next.op = "edge" /\ next.handoff = h
      BY <3>1 DEF NextOK
    <3>3. /\ Refresh(c, w, NoOptions, next) /\ world.handoff[h] = "NONE"
          /\ synthesizes' = synthesizes /\ prompts' = prompts
      BY <2>8 DEF CreateHandoff, env
    <3> HIDE DEF w, next
    <3> QED
      BY <1>1, <1>2, <1>6, <3>1, <3>2, <3>3
  <2>9. ASSUME NEW c \in Chains, NEW h \in Handoffs, AssignHandoff(c, h) PROVE Good
    BY <1>1, <1>2, <1>4, <1>5, <1>6, <2>9 DEF AssignHandoff, env
  <2>10. ASSUME NEW c \in Chains, NEW h \in Handoffs, PatchHandoff(c, h) PROVE Good
    <3>1. PICK s \in {"DONE", "DISMISSED"} :
            Refresh(c, [world EXCEPT !.handoff[h] = s], NoOptions, [op |-> "resolve", handoff |-> h])
      BY <2>10 DEF PatchHandoff
    <3> DEFINE w == [world EXCEPT !.handoff[h] = s]
               next == [op |-> "resolve", handoff |-> h]
    <3>2. Onward(world, w) /\ w.handoff[h] = s
      BY <1>4
    <3>3. NextOK(next, w) /\ next.op = "resolve"
      BY <3>2 DEF NextOK
    <3>4. /\ Refresh(c, w, NoOptions, next) /\ synthesizes' = synthesizes /\ prompts' = prompts
      BY <2>10, <3>1 DEF PatchHandoff, env
    <3> HIDE DEF w, next
    <3> QED
      BY <1>1, <1>2, <1>6, <3>2, <3>3, <3>4
  <2>11. ASSUME NEW a \in Agents, Start(a) PROVE Good
    BY <1>3, <1>4, <2>11 DEF Start
  <2>12. CASE Age
    <3>1. world' = world /\ row' = row /\ pending' = pending /\ prompts' = prompts /\ synthesizes' = synthesizes
      BY <2>12 DEF Age, env
    <3> QED
      BY <1>1, <1>3, <3>1 DEF Good
  <2>13. CASE Dismiss
    <3>1. /\ row # NoRow /\ row' = [row EXCEPT !.ask.dismissed = TRUE] /\ world' = world
          /\ pending' = pending /\ prompts' = prompts /\ synthesizes' = synthesizes
      BY <2>13 DEF Dismiss
    <3>2. RowFits(row', world, prompts)
      <4>1. RowFits(row, world, prompts)
        BY <3>1 DEF IInv
      <4>2. IsRow(row) /\ IsAsk(row.ask)
        BY <4>1 DEF RowFits, RowOK, AskOK
      <4>3. /\ IsRow(row') /\ row'.history = row.history /\ row'.edge = row.edge
            /\ row'.prompt = row.prompt /\ row'.packets = row.packets
            /\ row'.ask = [row.ask EXCEPT !.dismissed = TRUE]
        <5>1. row' = [kind |-> "row", brief |-> row.brief, ask |-> [row.ask EXCEPT !.dismissed = TRUE],
                      history |-> row.history, edge |-> row.edge, plan |-> row.plan,
                      packets |-> row.packets, prompt |-> row.prompt]
          BY <3>1, <4>2, RowDismissed
        <5> QED
          BY <5>1 DEF IsRow
      <4>4. IsAsk(row'.ask) /\ Same(row'.ask, row.ask)
        BY <4>2, <4>3 DEF IsAsk, Same
      <4>5. row.ask # NoAsk
        BY <2>13 DEF Dismiss
      <4>6. AskOK(row'.ask, row'.history)
        BY <4>1, <4>3, <4>4, <4>5 DEF RowFits, RowOK, AskOK, Same
      <4> QED
        BY <4>1, <4>3, <4>6 DEF RowFits, RowOK, PacketsOK, KnownEdges
    <3>3. IInv'
      BY <3>1, <3>2 DEF IInv
    <3>4. PlainStep
      BY <2>13 DEF Dismiss, PlainStep, Dismissed
    <3> QED
      BY <3>3, <3>4 DEF Good
  <2>14. CASE Crash
    <3>1. /\ world' = world /\ row' = row /\ prompts' = prompts /\ pending' = [c \in Chains |-> Idle]
      BY <2>14 DEF Crash
    <3>2. IInv'
      BY <3>1 DEF IInv, Waits
    <3> QED
      BY <3>1, <3>2 DEF Good, PlainStep
  <2> QED
    <3>1. CASE \E a \in Agents : Start(a)
      BY <2>11, <3>1 DEF Good
    <3>2. ASSUME NEW c \in Chains, Poll(c) \/ Dispatch(c) \/ (\E answered \in BOOLEAN : Return(c, answered))
          PROVE  Good
      BY <2>1, <2>2, <2>3, <3>2
    <3>3. ASSUME NEW c \in Chains, \E b \in 0..MaxBriefs : PutBrief(c, b) \/ PatchBrief(c, b) PROVE Good
      BY <2>4, <3>3
    <3>4. ASSUME NEW c \in Chains, \E a \in Agents : Settle(c, a) \/ AskApproval(c, a) \/ Decide(c, a) PROVE Good
      BY <2>5, <2>6, <2>7, <3>4
    <3>5. ASSUME NEW c \in Chains,
                 \E h \in Handoffs : CreateHandoff(c, h) \/ AssignHandoff(c, h) \/ PatchHandoff(c, h)
          PROVE  Good
      BY <2>8, <2>9, <2>10, <3>5
    <3> QED
      BY <1>7, <2>12, <2>13, <2>14, <3>1, <3>2, <3>3, <3>4, <3>5 DEF Next, Good
<1>8. CASE UNCHANGED vars
  <2>1. world' = world /\ row' = row /\ pending' = pending /\ prompts' = prompts /\ synthesizes' = synthesizes
    BY <1>8 DEF vars, env
  <2> QED
    BY <1>1, <1>3, <2>1 DEF Good
<1> QED
  BY <1>7, <1>8 DEF Good

LEMMA FirstState == ASSUME Init PROVE IInv
<1>1. World(world)
  BY DEF Init, World
<1>2. row = NoRow /\ prompts = 0 /\ pending = [c \in Chains |-> Idle]
  BY DEF Init
<1> QED
  BY <1>1, <1>2 DEF IInv, Waits

LEMMA AlwaysIInv == Spec => []IInv
<1>1. Init => IInv
  BY FirstState
<1>2. IInv /\ [Next]_vars => IInv'
  BY StepKeeps
<1> QED
  BY <1>1, <1>2, PTL DEF Spec

-----------------------------------------------------------------------------
(* The ask on display                                                       *)

LEMMA HeadOnDisplay == IInv => AskHeadsHistory
<1> SUFFICES ASSUME IInv, row # NoRow, row.ask # NoAsk
             PROVE  /\ row.history # <<>>
                    /\ [row.ask EXCEPT !.dismissed = FALSE] = [row.history[1] EXCEPT !.dismissed = FALSE]
  BY DEF AskHeadsHistory
<1> DEFINE a == row.ask
           h == row.history[1]
<1>1. row.history # <<>> /\ IsAsk(a) /\ IsAsk(h) /\ Same(a, h)
  BY DEF IInv, RowFits, RowOK, AskOK, HistoryOK
<1> HIDE DEF a, h
<1>2. [a EXCEPT !.dismissed = FALSE] = [h EXCEPT !.dismissed = FALSE]
  BY <1>1 DEF IsAsk, Same
<1> QED
  BY <1>1, <1>2 DEF a, h

\* What a refresh after an edge was written stores.
LEMMA EdgeOutcome ==
  ASSUME NEW b, RowOK(b), NEW w, NEW h \in Handoffs, NEW e \in {WithEdge(b, h), WithoutEdge(b, h)}
  PROVE  LET o == Refreshed(e, w, NoOptions) IN
         /\ RowOK(e) /\ e # NoRow /\ e.history = b.history /\ e.prompt = b.prompt
         /\ Prompt(e, NoOptions) = b.prompt
         /\ RowOK(o) /\ o.prompt = b.prompt /\ o.packets = b.packets /\ (b.brief # 0 => o.brief = b.brief)
         /\ \A x \in Handoffs : x # h => o.edge[x] = b.edge[x]
         /\ o.edge[h] = EdgeAfter(b, h, e)
<1> DEFINE o == Refreshed(e, w, NoOptions)
<1>1. /\ RowOK(e) /\ e.history = b.history /\ e.prompt = b.prompt /\ e.packets = b.packets /\ e.brief = b.brief
      /\ \A x \in Handoffs : x # h => e.edge[x] = b.edge[x]
      /\ e.edge[h] = EdgeAfter(b, h, e)
  BY EdgeRow
<1>2. e # NoRow
  BY <1>1, RowIsThere DEF RowOK
<1>3. NoOptions.prompt = 0 /\ NoOptions.brief = {}
  BY DEF NoOptions
<1>4. NoOptions.prompt \in Nat /\ ~(e # NoRow /\ NoOptions.prompt # 0)
  BY <1>3
<1>5. /\ RowOK(o) /\ o.prompt = Prompt(e, NoOptions) /\ o.brief = BriefOf(e, NoOptions)
      /\ o.edge = (IF e = NoRow THEN [x \in Handoffs |-> "none"] ELSE e.edge)
      /\ o.packets = IF e = NoRow THEN <<>> ELSE e.packets
  BY <1>1, <1>4, RefreshedRow
<1> HIDE DEF o
<1>6. Prompt(e, NoOptions) = b.prompt /\ (b.brief # 0 => BriefOf(e, NoOptions) = b.brief)
  BY <1>1, <1>2, <1>3 DEF Prompt, BriefOf
<1> QED
  BY <1>1, <1>2, <1>5, <1>6 DEF o

\* The head of the history stays when the round and the requests do.
LEMMA HeadStays ==
  ASSUME NEW r, RowOK(r), NEW w, NEW opts, Prompt(r, opts) # 0,
         r.history # <<>>, r.history[1].prompt = Prompt(r, opts),
         NeedsInput(w) \in {{}, r.history[1].requests}
  PROVE  LET b == Refreshed(r, w, opts) IN
         RowOK(r) /\ b.history # <<>> /\ Same(b.history[1], r.history[1])
<1>1. History(r) = r.history
  BY RowIsThere DEF History, RowOK
<1> QED
  BY <1>1, RefreshedAsk

\* The row that a refresh without the model writes over a row.
LEMMA OverRow ==
  ASSUME IInv, row # NoRow, NEW w, NEW opts, NEW next, RefreshStep(w, opts, next)
  PROVE  LET b == Refreshed(row, w, opts) IN
         /\ RowOK(row) /\ row.prompt \in Nat /\ row.prompt <= prompts /\ World(w)
         /\ RowOK(b) /\ b.prompt = Prompt(row, opts) /\ b.brief = BriefOf(row, opts) /\ b.plan = PlanOf(w)
         /\ b.edge = row.edge /\ b.packets = row.packets
         /\ row' = Stored(b, w, next) /\ row'.prompt = b.prompt
         /\ opts.prompt # 0 => b.prompt > row.prompt
         /\ opts.prompt = 0 => b.prompt = row.prompt
<1> DEFINE b == Refreshed(row, w, opts)
<1>1. RowFits(row, world, prompts) /\ prompts \in Nat
  BY DEF IInv
<1>2. RowOK(row) /\ row.prompt \in Nat /\ row.prompt <= prompts
  BY <1>1 DEF RowFits, RowOK, PacketsOK
<1>3. opts.prompt \in Nat /\ (row # NoRow /\ opts.prompt # 0 => row.prompt <= opts.prompt)
  BY <1>1, <1>2 DEF RefreshStep
<1>4. /\ RowOK(b) /\ b.prompt = Prompt(row, opts) /\ b.brief = BriefOf(row, opts) /\ b.plan = PlanOf(w)
      /\ b.edge = (IF row = NoRow THEN [x \in Handoffs |-> "none"] ELSE row.edge)
      /\ b.packets = IF row = NoRow THEN <<>> ELSE row.packets
  BY <1>2, <1>3, RefreshedRow
<1>5. /\ opts.prompt # 0 => Prompt(row, opts) > row.prompt
      /\ opts.prompt = 0 => Prompt(row, opts) = row.prompt
  BY <1>1, <1>2 DEF Prompt, RefreshStep
<1> HIDE DEF b
<1>6. row' = Stored(b, w, next)
  BY DEF RefreshStep, Outcome, b
<1>7. row'.prompt = b.prompt
  <2>1. CASE next.op \in {"done", "packets"}
    <3>1. row' \in {b, WithPackets(b)}
      BY <1>6, <2>1 DEF Stored
    <3>2. WithPackets(b).prompt = b.prompt
      BY <1>4, PacketsRow
    <3> QED
      BY <3>1, <3>2
  <2>2. CASE next.op \in {"edge", "resolve"} /\ next.handoff \in Handoffs
    <3>1. PICK e \in {WithEdge(b, next.handoff), WithoutEdge(b, next.handoff)} : row' = Refreshed(e, w, NoOptions)
      BY <1>6, <2>2 DEF Stored
    <3> QED
      BY <1>4, <2>2, <3>1, EdgeOutcome
  <2> QED
    BY <2>1, <2>2 DEF RefreshStep, NextOK
<1> QED
  BY <1>2, <1>4, <1>5, <1>6, <1>7 DEF RefreshStep, Onward, b

LEMMA IdIsKept ==
  ASSUME IInv, PlainStep PROVE KeepsAskId
<1> SUFFICES ASSUME row # NoRow, row.ask # NoAsk, row.prompt # 0, row'.prompt = row.prompt,
                    row.ask.prompt = row.prompt, row'.ask.requests = row.ask.requests
             PROVE  row'.ask.id = row.ask.id
  BY DEF KeepsAskId
<1>1. /\ RowOK(row) /\ row.history # <<>> /\ Same(row.ask, row.history[1])
      /\ row.ask.requests # {} /\ IsAsk(row.ask) /\ IsRow(row)
  BY DEF IInv, RowFits, RowOK, AskOK
<1>2. CASE row' = row
  BY <1>2
<1>3. CASE Dismissed
  <2>1. row'.ask = [row.ask EXCEPT !.dismissed = TRUE]
    BY <1>1, <1>3, RowDismissed DEF Dismissed
  <2> QED
    BY <1>1, <2>1 DEF IsAsk
<1>4. ASSUME NEW w, NEW opts, NEW next, RefreshStep(w, opts, next)
      PROVE  row'.ask.id = row.ask.id
  <2> DEFINE b == Refreshed(row, w, opts)
             q == row.history[1].requests
  <2>1. /\ RowOK(b) /\ b.prompt = Prompt(row, opts) /\ row' = Stored(b, w, next)
        /\ row'.prompt = b.prompt
    BY <1>4, OverRow
  <2>2. Prompt(row, opts) = row.prompt
    BY <2>1
  <2>3. row.history[1].prompt = row.prompt /\ row'.ask.requests = q /\ q # {} /\ row.ask.id = row.history[1].id
    BY <1>1 DEF Same
  <2>4. NeedsInput(w) # {} => b.ask.requests = NeedsInput(w)
    BY <1>1, RefreshedAsk
  <2> HIDE DEF b
\* The head of what is built, when the requests are none or the same.
  <2>5. ASSUME NeedsInput(w) \in {{}, q}
        PROVE  b.history # <<>> /\ Same(b.history[1], row.history[1])
    BY <1>1, <2>2, <2>3, <2>5, HeadStays DEF b
  <2>6. ASSUME NEW r, RowOK(r), r.ask.requests = q, r.history # <<>>, Same(r.history[1], row.history[1])
        PROVE  r.ask.id = row.ask.id
    <3>1. r.ask # NoAsk
      BY <2>3, <2>6 DEF NoAsk
    <3>2. Same(r.ask, r.history[1])
      BY <2>6, <3>1 DEF RowOK, AskOK
    <3> QED
      BY <2>3, <2>6, <3>2 DEF Same
  <2>7. CASE next.op \in {"done", "packets"}
    <3>1. row' \in {b, WithPackets(b)}
      BY <2>1, <2>7 DEF Stored
    <3>2. RowOK(row') /\ row'.ask = b.ask
      BY <2>1, <3>1, PacketsRow
    <3>3. NeedsInput(w) \in {{}, q}
      BY <2>3, <2>4, <3>2
    <3>4. b.ask.requests = q /\ b.history # <<>> /\ Same(b.history[1], row.history[1])
      BY <2>3, <2>5, <3>2, <3>3
    <3> QED
      BY <2>1, <2>6, <3>2, <3>4
  <2>8. CASE next.op \in {"edge", "resolve"} /\ next.handoff \in Handoffs
    <3>1. PICK e \in {WithEdge(b, next.handoff), WithoutEdge(b, next.handoff)} : row' = Refreshed(e, w, NoOptions)
      BY <2>1, <2>8 DEF Stored
    <3>2. RowOK(row') /\ RowOK(e) /\ e.history = b.history /\ Prompt(e, NoOptions) = b.prompt
      BY <2>1, <2>8, <3>1, EdgeOutcome
    <3>3. NeedsInput(w) # {} => row'.ask.requests = NeedsInput(w)
      BY <3>1, <3>2, RefreshedAsk
    <3>4. NeedsInput(w) \in {{}, q}
      BY <2>3, <3>3
    <3>5. e.history # <<>> /\ Same(e.history[1], row.history[1])
      BY <2>5, <3>2, <3>4
    <3>6. e.history[1].prompt = Prompt(e, NoOptions) /\ Prompt(e, NoOptions) # 0 /\ e.history[1].requests = q
      BY <2>1, <2>2, <2>3, <3>2, <3>5 DEF Same
    <3>7. row'.history # <<>> /\ Same(row'.history[1], e.history[1])
      BY <3>1, <3>2, <3>4, <3>5, <3>6, HeadStays
    <3>8. Same(row'.history[1], row.history[1])
      BY <3>5, <3>7 DEF Same
    <3> QED
      BY <2>3, <2>6, <3>2, <3>7, <3>8
  <2> QED
    BY <1>4, <2>7, <2>8 DEF RefreshStep, NextOK
<1> QED
  BY <1>2, <1>3, <1>4 DEF PlainStep

(* The ask on display heads the history, whatever refreshes and whatever the *)
(* model answers; without the model the same requests of a round keep the id *)
(* of their ask (summarizeTeamAsk, the stable id).                           *)
THEOREM AskStaysSteady == Spec => AskIsSteady
<1>1. IInv => AskHeadsHistory
  BY HeadOnDisplay
<1>2. IInv /\ [Next]_vars => [~synthesizes => KeepsAskId]_vars
  BY StepKeeps, IdIsKept
<1> QED
  BY <1>1, <1>2, AlwaysIInv, PTL DEF Spec, AskIsSteady

-----------------------------------------------------------------------------
(* What is stored stays                                                     *)

\* The packets, the brief and the edges of the row after a refresh.
LEMMA WhatIsStored ==
  ASSUME IInv, row # NoRow, NEW w, NEW opts, NEW next, RefreshStep(w, opts, next)
  PROVE  LET b == Refreshed(row, w, opts) IN
         /\ \/ row'.packets = row.packets
            \/ /\ next.op = "packets" /\ row' = WithPackets(b)
               /\ row'.packets = Cut(NewPackets(b) \o row.packets, PacketCap)
         /\ row.brief # 0 /\ opts.brief = {} => row'.brief = row.brief
         /\ \A h \in Handoffs :
              \/ row'.edge[h] = row.edge[h]
              \/ row.edge[h] = "unresolved" /\ row'.edge[h] = "resolved"
              \/ row.edge[h] = "none"
<1> DEFINE b == Refreshed(row, w, opts)
<1>1. /\ RowOK(b) /\ b.brief = BriefOf(row, opts) /\ b.edge = row.edge /\ b.packets = row.packets
      /\ row' = Stored(b, w, next)
  BY OverRow
<1>2. row.brief # 0 /\ opts.brief = {} => b.brief = row.brief
  BY <1>1 DEF BriefOf
<1> HIDE DEF b
<1>3. CASE next.op \in {"done", "packets"}
  <2>1. \/ row' = b
        \/ next.op = "packets" /\ row' = WithPackets(b)
    <3>1. CASE next.op = "packets"
      BY <1>1, <3>1 DEF Stored
    <3>2. CASE next.op = "done"
      BY <1>1, <3>2 DEF Stored
    <3> QED
      BY <1>3, <3>1, <3>2
  <2>2. /\ WithPackets(b).edge = b.edge /\ WithPackets(b).brief = b.brief
        /\ WithPackets(b).packets = Cut(NewPackets(b) \o b.packets, PacketCap)
    BY <1>1, PacketsRow
  <2> QED
    BY <1>1, <1>2, <2>1, <2>2 DEF b
<1>4. CASE next.op \in {"edge", "resolve"} /\ next.handoff \in Handoffs
  <2> DEFINE h == next.handoff
  <2>1. PICK e \in {WithEdge(b, h), WithoutEdge(b, h)} : row' = Refreshed(e, w, NoOptions)
    BY <1>1, <1>4 DEF Stored
  <2>2. /\ row'.packets = b.packets /\ (b.brief # 0 => row'.brief = b.brief)
        /\ \A x \in Handoffs : x # h => row'.edge[x] = b.edge[x]
        /\ row'.edge[h] = EdgeAfter(b, h, e)
    BY <1>1, <1>4, <2>1, EdgeOutcome
  <2>3. \/ row'.edge[h] = row.edge[h]
        \/ row.edge[h] = "unresolved" /\ row'.edge[h] = "resolved"
        \/ row.edge[h] = "none"
    <3>1. CASE next.op = "edge"
      <4>1. world.handoff[h] = "NONE" /\ KnownEdges(row, world)
        BY <3>1 DEF RefreshStep, IInv, RowFits
      <4> QED
        BY <1>4, <4>1 DEF KnownEdges
    <3>2. CASE next.op = "resolve"
      <4>1. row' = Refreshed(WithoutEdge(b, h), w, NoOptions)
        BY <1>1, <3>2 DEF Stored
      <4>2. row'.edge[h] = EdgeAfter(b, h, WithoutEdge(b, h))
        BY <1>1, <1>4, <4>1, EdgeOutcome
      <4>3. WithoutEdge(b, h) # WithEdge(b, h)
        <5>1. IsRow(b) /\ b.edge \in [Handoffs -> EdgeStates]
          BY <1>1 DEF RowOK
        <5>2. WithEdge(b, h).edge[h] = "unresolved"
          BY <1>4, <5>1 DEF WithEdge, IsRow
        <5>3. WithoutEdge(b, h).edge[h] # "unresolved"
          BY <1>4, <5>1 DEF WithoutEdge, IsRow
        <5> QED
          BY <5>2, <5>3
      <4> QED
        BY <1>1, <4>2, <4>3 DEF EdgeAfter
    <3> QED
      BY <1>4, <3>1, <3>2
  <2> QED
    BY <1>1, <1>2, <2>2, <2>3
<1> QED
  BY <1>3, <1>4 DEF RefreshStep, NextOK, b

LEMMA DismissedOnly ==
  ASSUME IInv, Dismissed
  PROVE  /\ row'.packets = row.packets /\ row'.brief = row.brief /\ row'.edge = row.edge
<1>1. IsRow(row)
  BY DEF Dismissed, IInv, RowFits, RowOK
<1> QED
  BY <1>1, RowDismissed DEF Dismissed

LEMMA NothingLost ==
  ASSUME IInv, PlainStep PROVE KeepsPackets /\ KeepsBrief /\ KeepsEdges
<1> SUFFICES ASSUME row # NoRow PROVE KeepsPackets /\ KeepsBrief /\ KeepsEdges
  BY DEF KeepsPackets, KeepsBrief, KeepsEdges
<1>1. CASE row' = row
  BY <1>1 DEF KeepsPackets, KeepsBrief, KeepsEdges
<1>2. CASE Dismissed
  BY <1>2, DismissedOnly DEF KeepsPackets, KeepsBrief, KeepsEdges
<1>3. ASSUME NEW w, NEW opts, NEW next, RefreshStep(w, opts, next)
      PROVE  KeepsPackets /\ KeepsBrief /\ KeepsEdges
  <2> DEFINE b == Refreshed(row, w, opts)
  <2>1. /\ \/ row'.packets = row.packets
           \/ /\ next.op = "packets" /\ row' = WithPackets(b)
              /\ row'.packets = Cut(NewPackets(b) \o row.packets, PacketCap)
        /\ row.brief # 0 /\ opts.brief = {} => row'.brief = row.brief
        /\ \A h \in Handoffs :
             \/ row'.edge[h] = row.edge[h]
             \/ row.edge[h] = "unresolved" /\ row'.edge[h] = "resolved"
             \/ row.edge[h] = "none"
    BY <1>3, WhatIsStored
  <2>2. KeepsEdges
    BY <2>1 DEF KeepsEdges
  <2>3. KeepsBrief
    BY <1>3, <2>1 DEF KeepsBrief, RefreshStep
  <2>4. KeepsPackets
    <3>1. RowOK(b) /\ RowOK(row)
      BY <1>3, OverRow
    <3>2. NewPackets(b) \in Seq(Packets) /\ row.packets \in Seq(Packets)
      BY <3>1, ReadyPackets DEF RowOK, PacketsOK
    <3> DEFINE new == NewPackets(b)
               old == row.packets
               s   == Cut(new \o old, PacketCap)
    <3>3. new \in Seq(Packets) /\ old \in Seq(Packets) /\ PacketCap \in Nat
      BY <3>2, Bounds
    <3>a. s = Cut(new \o old, PacketCap)
      OBVIOUS
    <3> HIDE DEF new, old, s
    <3>4. OnlyPushedOut(old, s, PacketCap)
      BY <3>3, <3>a, PushedOut
    <3>5. row'.packets # old => row'.packets = s
      BY <2>1 DEF s, new, old
    <3> QED
      BY <3>4, <3>5 DEF KeepsPackets, OnlyPushedOut, old
  <2> QED
    BY <2>2, <2>3, <2>4
<1> QED
  BY <1>1, <1>2, <1>3 DEF PlainStep

(* Without the model no refresh loses what was stored: packets are only     *)
(* pushed out by newer ones, the brief is the operator's, edges stay.       *)
THEOREM RefreshesKeepAll == Spec => RefreshesLoseNothing
<1>1. IInv /\ [Next]_vars => [~synthesizes => KeepsPackets /\ KeepsBrief /\ KeepsEdges]_vars
  BY StepKeeps, NothingLost
<1> QED
  BY <1>1, AlwaysIInv, PTL DEF Spec, RefreshesLoseNothing

LEMMA Passed ==
  ASSUME IInv, PlainStep PROVE PassesUndecided
<1> SUFFICES ASSUME row # NoRow, row'.packets # row.packets, NEW i \in DOMAIN row'.packets,
                    row'.packets[i].prompt > row.prompt
             PROVE  ~world.approval[row'.packets[i].agent]
  BY DEF PassesUndecided
<1>1. PICK w, opts, next : RefreshStep(w, opts, next)
  BY DismissedOnly DEF PlainStep
<1> DEFINE b == Refreshed(row, w, opts)
<1>2. next.op = "packets" /\ row' = WithPackets(b)
  BY <1>1, WhatIsStored
<1>3. /\ RowOK(row) /\ RowOK(b) /\ b.plan = PlanOf(w) /\ b.packets = row.packets /\ row.prompt \in Nat
  BY <1>1, OverRow
<1> HIDE DEF b
<1>4. /\ RowOK(row')
      /\ \A j \in 1..Len(row'.packets) :
           \/ row'.packets[j].agent \in Ready(b)
           \/ \E k \in 1..Len(b.packets) : row'.packets[j] = b.packets[k]
  BY <1>2, <1>3, PacketsRow
<1>5. row'.packets \in Seq(Packets) /\ i \in 1..Len(row'.packets)
  BY <1>4 DEF RowOK, PacketsOK
<1>6. \A k \in 1..Len(row.packets) : row.packets[k].prompt \in Nat /\ row.packets[k].prompt <= row.prompt
  <2>1. /\ row.packets \in Seq(Packets)
        /\ \A k \in 1..Len(row.packets) : row.packets[k].prompt <= row.prompt
    BY <1>3 DEF RowOK, PacketsOK
  <2>2. \A k \in 1..Len(row.packets) : row.packets[k] \in Packets
    BY <2>1
  <2> QED
    BY <2>1, <2>2 DEF Packets
<1>7. row'.packets[i].agent \in Ready(b)
  BY <1>3, <1>4, <1>5, <1>6
<1>8. w = world
  BY <1>1, <1>2 DEF RefreshStep
<1> QED
  BY <1>3, <1>7, <1>8 DEF Ready, PlanOf

(* Without the model no packet goes to an agent whose approval is still to be *)
(* decided (buildExecutionPlan in the refresh of the very dispatch).          *)
THEOREM UndecidedWait == Spec => UndecidedArePassed
<1>1. IInv /\ [Next]_vars => [~synthesizes => PassesUndecided]_vars
  BY StepKeeps, Passed
<1> QED
  BY <1>1, AlwaysIInv, PTL DEF Spec, UndecidedArePassed
=============================================================================
