----------------------------- MODULE ForumProofs -----------------------------
(***************************************************************************)
(* Theorems about Forum, for forums of any length and pages of any size:   *)
(* types, that the pages, the list and the numbers agree with the forum,   *)
(* and that threads are listed in the forum's order, each once.            *)
(***************************************************************************)
EXTENDS Forum, Induction, SequenceTheorems

-----------------------------------------------------------------------------
(* What a pass over a page keeps. *)

\* The pass as a function of how many entries it has seen.
Passes(page, out) ==
  /\ out \in [0 .. Len(page) -> Seq(Event)]
  /\ out[0] = <<>>
  /\ \A n \in 1 .. Len(page) :
       out[n] = IF Readable(page[n]) THEN Append(out[n - 1], page[n]) ELSE out[n - 1]

LEMMA PassExists ==
  ASSUME NEW page \in Seq(Event)
  PROVE  \E out : Passes(page, out) /\ ReadableOf(page) = out[Len(page)]
<1> DEFINE step == [p \in Seq(Event) \X (1 .. Len(page)) |->
                      IF Readable(page[p[2]]) THEN Append(p[1], page[p[2]]) ELSE p[1]]
           is(out) == out = [n \in 0 .. Len(page) |->
                               IF n = 0 THEN <<>>
                               ELSE IF Readable(page[n]) THEN Append(out[n - 1], page[n])
                                                         ELSE out[n - 1]]
           pass == CHOOSE out : is(out)
<1> DEFINE N == Len(page)
<1>n. N \in Nat
  OBVIOUS
<1>1. step \in [Seq(Event) \X (1 .. N) -> Seq(Event)]
  OBVIOUS
<1>2. \A s \in Seq(Event), n \in 1 .. N :
        step[<<s, n>>] = IF Readable(page[n]) THEN Append(s, page[n]) ELSE s
  OBVIOUS
<1>3. PICK g \in [0 .. N -> Seq(Event)] :
        g[0] = <<>> /\ \A n \in 1 .. N : g[n] = step[<<g[n - 1], n>>]
  <2>1. <<>> \in Seq(Event)
    OBVIOUS
  <2> DEFINE T == Seq(Event)
             base == <<>>
  <2>2. base \in T /\ step \in [T \X (1 .. N) -> T]
    BY <1>1, <2>1
  <2> HIDE DEF step, N, T, base
  <2>3. \E g : Computes(g, N, T, base, step)
    BY <1>n, <2>2, Recursion
  <2> QED BY <2>3 DEF Computes, T, base
<1>4. \A n \in 1 .. N :
        g[n] = IF Readable(page[n]) THEN Append(g[n - 1], page[n]) ELSE g[n - 1]
  <2> TAKE n \in 1 .. N
  <2>1. g[n - 1] \in Seq(Event)
    BY <1>3, <1>n
  <2> HIDE DEF step
  <2> QED BY <1>2, <1>3, <2>1
<1>5. is(g)
  <2>1. g = [n \in 0 .. N |-> g[n]]
    BY <1>3
  <2>2. \A n \in 0 .. N : n # 0 => n \in 1 .. N
    BY <1>n
  <2> HIDE DEF N
  <2>3. \A n \in 0 .. N : g[n] = IF n = 0 THEN <<>>
                               ELSE IF Readable(page[n]) THEN Append(g[n - 1], page[n])
                                                         ELSE g[n - 1]
    BY <1>3, <1>4, <2>2
  <2> QED BY <2>1, <2>3 DEF N
<1>6. is(pass)
  <2> HIDE DEF is
  <2> QED BY <1>5
<1>7. pass[0] = <<>> /\ \A n \in 1 .. N :
        pass[n] = IF Readable(page[n]) THEN Append(pass[n - 1], page[n]) ELSE pass[n - 1]
  <2> HIDE DEF pass
  <2>1. \A n \in 0 .. N : pass[n] = IF n = 0 THEN <<>>
                               ELSE IF Readable(page[n]) THEN Append(pass[n - 1], page[n])
                                                         ELSE pass[n - 1]
    BY <1>6
  <2>2. 0 \in 0 .. N /\ \A n \in 1 .. N : n \in 0 .. N /\ n # 0
    BY <1>n
  <2> HIDE DEF N
  <2> QED BY <2>1, <2>2
<1>8. \A n \in 0 .. N : pass[n] \in Seq(Event)
  <2> DEFINE S == {n \in 0 .. N : pass[n] \in Seq(Event)}
  <2> HIDE DEF pass
  <2>1. 0 \in S
    <3>1. <<>> \in Seq(Event)
      OBVIOUS
    <3>2. pass[0] \in Seq(Event)
      BY <1>7, <3>1, Zenon
    <3>3. 0 \in 0 .. N
      BY <1>n
    <3> QED BY <3>2, <3>3
  <2>2. \A n \in 0 .. N - 1 : n \in S => n + 1 \in S
    <3> SUFFICES ASSUME NEW n \in 0 .. N - 1, pass[n] \in Seq(Event)
                 PROVE  pass[n + 1] \in Seq(Event) /\ n + 1 \in 0 .. N
      OBVIOUS
    <3>1. n + 1 \in 1 .. N /\ page[n + 1] \in Event
      BY <1>n
    <3>2. Append(pass[n], page[n + 1]) \in Seq(Event)
      BY <3>1
    <3>3. pass[n + 1] = IF Readable(page[n + 1]) THEN Append(pass[n], page[n + 1]) ELSE pass[n]
      BY <1>7, <3>1
    <3> QED BY <3>1, <3>2, <3>3
  <2>3. 0 .. N \subseteq S
    <3> HIDE DEF S, N
    <3> QED BY <1>n, <2>1, <2>2, InductionUpTo
  <2> QED BY <2>3
<1>9. pass = [n \in 0 .. N |-> pass[n]]
  <2> HIDE DEF pass
  <2> QED BY <1>6
<1>10. Passes(page, pass)
  <2> HIDE DEF pass
  <2> QED BY <1>7, <1>8, <1>9 DEF Passes
<1> QED BY <1>10 DEF ReadableOf

LEMMA ReadableType ==
  ASSUME NEW page \in Seq(Event)
  PROVE  ReadableOf(page) \in Seq(Event)
<1>1. PICK out : Passes(page, out) /\ ReadableOf(page) = out[Len(page)]
  BY PassExists
<1>2. Len(page) \in 0 .. Len(page)
  OBVIOUS
<1> QED BY <1>1, <1>2 DEF Passes

LEMMA ConcatAppend ==
  ASSUME NEW s \in Seq(Event), NEW t \in Seq(Event), NEW e \in Event
  PROVE  s \o Append(t, e) = Append(s \o t, e)
<1> DEFINE u == s \o Append(t, e)
           v == Append(s \o t, e)
<1>1. u \in Seq(Event) /\ v \in Seq(Event)
  OBVIOUS
<1>2. Len(u) = Len(s) + Len(t) + 1 /\ Len(v) = Len(u)
  OBVIOUS
<1>3. \A k \in 1 .. Len(u) : u[k] = v[k]
  OBVIOUS
<1> HIDE DEF u, v
<1>4. u = v
  BY <1>1, <1>2, <1>3, SeqEqual
<1> QED BY <1>4 DEF u, v

\* Two pages read one after the other give what one page of both gives.
LEMMA ReadableConcat ==
  ASSUME NEW s \in Seq(Event), NEW t \in Seq(Event)
  PROVE  ReadableOf(s \o t) = ReadableOf(s) \o ReadableOf(t)
<1> DEFINE u == s \o t
           M == Len(s)
           N == Len(t)
<1>1. /\ u \in Seq(Event) /\ M \in Nat /\ N \in Nat /\ Len(u) = M + N
      /\ \A n \in 1 .. M : u[n] = s[n]
      /\ \A n \in 1 .. N : u[M + n] = t[n]
  OBVIOUS
<1>s. PICK a : Passes(s, a) /\ ReadableOf(s) = a[M]
  BY PassExists
<1>t. PICK b : Passes(t, b) /\ ReadableOf(t) = b[N]
  BY PassExists
<1> HIDE DEF u
<1>u. PICK c : Passes(u, c) /\ ReadableOf(u) = c[Len(u)]
  BY <1>1, PassExists
<1> HIDE DEF M, N
<1>2. /\ a \in [0 .. M -> Seq(Event)] /\ a[0] = <<>>
      /\ \A n \in 1 .. M : a[n] = IF Readable(s[n]) THEN Append(a[n - 1], s[n]) ELSE a[n - 1]
  BY <1>s DEF Passes, M
<1>3. /\ b \in [0 .. N -> Seq(Event)] /\ b[0] = <<>>
      /\ \A n \in 1 .. N : b[n] = IF Readable(t[n]) THEN Append(b[n - 1], t[n]) ELSE b[n - 1]
  BY <1>t DEF Passes, N
<1>4. /\ c \in [0 .. M + N -> Seq(Event)] /\ c[0] = <<>>
      /\ \A n \in 1 .. M + N :
           c[n] = IF Readable(u[n]) THEN Append(c[n - 1], u[n]) ELSE c[n - 1]
  BY <1>u, <1>1 DEF Passes
<1>5. c[M] = a[M]
  <2> DEFINE S == {n \in 0 .. M : c[n] = a[n]}
  <2>1. 0 \in S
    BY <1>1, <1>2, <1>4
  <2>2. \A n \in 0 .. M - 1 : n \in S => n + 1 \in S
    <3> SUFFICES ASSUME NEW n \in 0 .. M - 1, c[n] = a[n]
                 PROVE  c[n + 1] = a[n + 1] /\ n + 1 \in 0 .. M
      OBVIOUS
    <3>1. n + 1 \in 1 .. M /\ n + 1 \in 1 .. M + N /\ n + 1 \in 0 .. M /\ (n + 1) - 1 = n
      BY <1>1
    <3>2. c[n + 1] = IF Readable(u[n + 1]) THEN Append(c[n], u[n + 1]) ELSE c[n]
      BY <1>4, <3>1
    <3>3. a[n + 1] = IF Readable(s[n + 1]) THEN Append(a[n], s[n + 1]) ELSE a[n]
      BY <1>2, <3>1
    <3>4. u[n + 1] = s[n + 1]
      BY <1>1, <3>1
    <3> QED BY <3>1, <3>2, <3>3, <3>4
  <2>3. 0 .. M \subseteq S
    <3> HIDE DEF S
    <3> QED BY <1>1, <2>1, <2>2, InductionUpTo
  <2> QED BY <1>1, <2>3
<1>6. c[M + N] = a[M] \o b[N]
  <2> DEFINE S == {n \in 0 .. N : c[M + n] = a[M] \o b[n]}
  <2>a. a[M] \in Seq(Event)
    BY <1>1, <1>2
  <2>1. 0 \in S
    <3>1. a[M] \o <<>> = a[M]
      BY <2>a
    <3>2. M + 0 = M /\ 0 \in 0 .. N
      BY <1>1
    <3>3. c[M + 0] = a[M] \o b[0]
      BY <1>3, <1>5, <3>1, <3>2, Zenon
    <3> QED BY <3>2, <3>3
  <2>2. \A n \in 0 .. N - 1 : n \in S => n + 1 \in S
    <3> SUFFICES ASSUME NEW n \in 0 .. N - 1, c[M + n] = a[M] \o b[n]
                 PROVE  c[M + (n + 1)] = a[M] \o b[n + 1] /\ n + 1 \in 0 .. N
      OBVIOUS
    <3>1. /\ n + 1 \in 1 .. N /\ M + (n + 1) \in 1 .. M + N /\ n + 1 \in 0 .. N
          /\ (n + 1) - 1 = n /\ (M + (n + 1)) - 1 = M + n
      BY <1>1
    <3> DEFINE m == M + (n + 1)
    <3>2. c[m] = IF Readable(u[m]) THEN Append(c[m - 1], u[m]) ELSE c[m - 1]
      BY <1>4, <3>1, Zenon
    <3>3. b[n + 1] = IF Readable(t[n + 1]) THEN Append(b[n], t[n + 1]) ELSE b[n]
      BY <1>3, <3>1
    <3>4. u[m] = t[n + 1] /\ m - 1 = M + n
      BY <1>1, <3>1
    <3>5. b[n] \in Seq(Event) /\ t[n + 1] \in Event
      BY <1>1, <1>3, <3>1 DEF N
    <3>6. a[M] \o Append(b[n], t[n + 1]) = Append(a[M] \o b[n], t[n + 1])
      BY <2>a, <3>5, ConcatAppend
    <3> HIDE DEF m
    <3>7. c[m] = a[M] \o b[n + 1]
      BY <3>2, <3>3, <3>4, <3>6, Zenon
    <3> QED BY <3>1, <3>7 DEF m
  <2>3. 0 .. N \subseteq S
    <3> HIDE DEF S
    <3> QED BY <1>1, <2>1, <2>2, InductionUpTo
  <2>4. N \in S
    <3> HIDE DEF S
    <3> QED BY <1>1, <2>3
  <2> QED BY <2>4
<1> QED BY <1>1, <1>s, <1>t, <1>u, <1>6 DEF u

\* r holds, in the forum's order, what is readable of the first n events.
ReadableUpTo(r, s, n) ==
  /\ \A k \in 1 .. Len(r) : r[k].id \in 1 .. n /\ r[k] = s[r[k].id] /\ Readable(r[k])
  /\ \A j, k \in 1 .. Len(r) : j < k => r[j].id < r[k].id
  /\ \A i \in 1 .. n : Readable(s[i]) => \E k \in 1 .. Len(r) : r[k].id = i

LEMMA ReadableInOrder ==
  ASSUME NEW s \in Seq(Event), \A i \in 1 .. Len(s) : s[i].id = i
  PROVE  ReadableUpTo(ReadableOf(s), s, Len(s))
<1> DEFINE N == Len(s)
<1>n. N \in Nat
  OBVIOUS
<1>1. PICK out : Passes(s, out) /\ ReadableOf(s) = out[N]
  BY PassExists
<1>2. /\ out \in [0 .. N -> Seq(Event)] /\ out[0] = <<>>
      /\ \A n \in 1 .. N :
           out[n] = IF Readable(s[n]) THEN Append(out[n - 1], s[n]) ELSE out[n - 1]
  BY <1>1 DEF Passes
<1> DEFINE S == {n \in 0 .. N : ReadableUpTo(out[n], s, n)}
<1>3. 0 \in S
  <2>1. 0 \in 0 .. N
    BY <1>n
  <2>2. ReadableUpTo(<<>>, s, 0)
    BY DEF ReadableUpTo
  <2> QED BY <1>2, <2>1, <2>2
<1>4. \A n \in 0 .. N - 1 : n \in S => n + 1 \in S
  <2> SUFFICES ASSUME NEW n \in 0 .. N - 1, ReadableUpTo(out[n], s, n)
               PROVE  ReadableUpTo(out[n + 1], s, n + 1) /\ n + 1 \in 0 .. N
    OBVIOUS
  <2>1. n + 1 \in 1 .. N /\ n + 1 \in 0 .. N /\ (n + 1) - 1 = n
    BY <1>n
  <2>2. out[n + 1] = IF Readable(s[n + 1]) THEN Append(out[n], s[n + 1]) ELSE out[n]
    BY <1>2, <2>1
  <2>3. s[n + 1] \in Event /\ s[n + 1].id = n + 1 /\ out[n] \in Seq(Event)
    BY <1>2, <2>1
  <2> HIDE DEF N
  <2>4. CASE ~ Readable(s[n + 1])
    BY <2>2, <2>4, <2>1 DEF ReadableUpTo
  <2>5. CASE Readable(s[n + 1])
    <3> DEFINE r == out[n]
               q == Append(r, s[n + 1])
    <3>1. out[n + 1] = q
      BY <2>2, <2>5
    <3>2. /\ Len(q) = Len(r) + 1 /\ Len(r) \in Nat
          /\ \A k \in 1 .. Len(r) : q[k] = r[k]
          /\ q[Len(r) + 1] = s[n + 1]
      BY <2>3
    <3> HIDE DEF r, q
    <3>3. ReadableUpTo(r, s, n)
      BY DEF r
    <3>4. \A k \in 1 .. Len(q) : k \in 1 .. Len(r) \/ k = Len(r) + 1
      BY <3>2
    <3>5. \A k \in 1 .. Len(q) : q[k].id \in 1 .. n + 1 /\ q[k] = s[q[k].id] /\ Readable(q[k])
      <4> SUFFICES ASSUME NEW k \in 1 .. Len(q)
                   PROVE  q[k].id \in 1 .. n + 1 /\ q[k] = s[q[k].id] /\ Readable(q[k])
        OBVIOUS
      <4>1. CASE k = Len(r) + 1
        BY <4>1, <2>1, <2>3, <2>5, <3>2
      <4>2. CASE k \in 1 .. Len(r)
        <5>1. r[k].id \in 1 .. n /\ r[k] = s[r[k].id] /\ Readable(r[k]) /\ q[k] = r[k]
          BY <4>2, <3>2, <3>3 DEF ReadableUpTo
        <5> QED BY <5>1
      <4> QED BY <3>4, <4>1, <4>2
    <3>6. \A j, k \in 1 .. Len(q) : j < k => q[j].id < q[k].id
      <4> SUFFICES ASSUME NEW j \in 1 .. Len(q), NEW k \in 1 .. Len(q), j < k
                   PROVE  q[j].id < q[k].id
        OBVIOUS
      <4>1. j \in 1 .. Len(r) /\ q[j] = r[j] /\ r[j].id \in 1 .. n
        BY <3>2, <3>3 DEF ReadableUpTo
      <4>2. CASE k = Len(r) + 1
        BY <4>1, <4>2, <3>2, <2>3
      <4>3. CASE k \in 1 .. Len(r)
        BY <4>1, <4>3, <3>2, <3>3 DEF ReadableUpTo
      <4> QED BY <3>4, <4>2, <4>3
    <3>7. \A i \in 1 .. n + 1 : Readable(s[i]) => \E k \in 1 .. Len(q) : q[k].id = i
      <4> SUFFICES ASSUME NEW i \in 1 .. n + 1, Readable(s[i])
                   PROVE  \E k \in 1 .. Len(q) : q[k].id = i
        OBVIOUS
      <4>1. CASE i = n + 1
        BY <4>1, <3>2, <2>3
      <4>2. CASE i \in 1 .. n
        <5>1. PICK k \in 1 .. Len(r) : r[k].id = i
          BY <4>2, <3>3 DEF ReadableUpTo
        <5> QED BY <5>1, <3>2
      <4> QED BY <4>1, <4>2
    <3> QED BY <3>1, <3>5, <3>6, <3>7, <2>1 DEF ReadableUpTo
  <2> QED BY <2>4, <2>5
<1>5. 0 .. N \subseteq S
  <2> HIDE DEF S, N
  <2> QED BY <1>n, <1>3, <1>4, InductionUpTo
<1> QED BY <1>1, <1>5, <1>n

-----------------------------------------------------------------------------
(* The inductive invariant. *)

\* A number is a place in the log, and a post answers a thread stored before it.
LogInv ==
  \A i \in 1 .. Len(log) :
    /\ log[i].id = i
    /\ log[i].kind = "post" => log[i].thread \in 1 .. i - 1 /\ log[log[i].thread].kind = "thread"

\* Posts under way answer a thread of the forum.
DraftsInv ==
  \A d \in drafts : d.kind = "post" => d.thread \in 1 .. Len(log) /\ log[d.thread].kind = "thread"

\* How far loadForum has got.
LoadInv ==
  /\ after <= Len(log) /\ heldFirst <= Len(log)
  /\ phase = "off" => fetched = <<>>
  /\ phase \in {"off", "paging"} => replayed = 0
  /\ phase = "ready" => replayed = Len(fetched)

\* Everything relayed is lost, on the wire or handled, in that order, and before
\* the subscription it is lost.
WireInv ==
  /\ \A k \in 1 .. Len(wire) : wire[k].id \in 1 .. relayed /\ wire[k] = log[wire[k].id]
  /\ \A j, k \in 1 .. Len(wire) : j < k => wire[j].id < wire[k].id
  /\ lost \subseteq 1 .. relayed /\ lost \cap Ids(wire) = {}
  /\ ~ online => wire = <<>>
  /\ phase # "ready" => ~ online /\ 1 .. relayed \subseteq lost
  /\ \A i \in 1 .. relayed : i \notin lost \cup Ids(wire) => \A j \in Ids(wire) : i < j

\* What the list has been told of: the part of the pages replayed, then
\* whatever reached the reader.
Told == IF phase = "ready" THEN Reached ELSE {fetched[k].id : k \in 1 .. replayed}

\* The list th, rp under the title ti is what the events D of the log l give.
ListIs(D, l, ti, th, rp) ==
  LET T == {i \in D : l[i].kind = "thread"}
      P == {i \in D : l[i].kind = "post" /\ l[i].thread \in T}
      F == {i \in D : l[i].kind = "forum"}
  IN /\ D \subseteq 1 .. Len(l)
     /\ Ascending(th) /\ Elements(th) = T
     /\ \A j, k \in 1 .. Len(rp) : j < k => rp[j].id < rp[k].id
     /\ Ids(rp) = P
     /\ \A k \in 1 .. Len(rp) : rp[k] = l[rp[k].id]
     /\ IF F = {} THEN ti = 0 ELSE ti \in F /\ \A i \in F : ti <= i

ListInv == ListIs(Told, log, title, threads, replies)

IInv == /\ TypeOK /\ LogInv /\ DraftsInv /\ LoadInv /\ LoadedWhole /\ WireInv
        /\ ListInv /\ NumbersStand

-----------------------------------------------------------------------------
(* The list. *)

\* The n-th of ascending numbers is at least n.
LEMMA AscendingBound ==
  ASSUME NEW s \in Seq(Numbers), Ascending(s)
  PROVE  \A n \in 1 .. Len(s) : n <= s[n]
<1> DEFINE N == Len(s)
           S == {n \in 0 .. N : n # 0 => n <= s[n]}
<1>n. N \in Nat /\ \A n \in 1 .. N : s[n] \in Numbers
  OBVIOUS
<1>m. \A n \in 1 .. N : s[n] \in Nat /\ s[n] > 0
  <2>1. \A m \in Numbers : m \in Nat /\ m > 0
    BY DEF Numbers
  <2> QED BY <1>n, <2>1
<1>1. 0 \in S
  BY <1>n
<1>2. \A n \in 0 .. N - 1 : n \in S => n + 1 \in S
  <2> SUFFICES ASSUME NEW n \in 0 .. N - 1, n # 0 => n <= s[n]
               PROVE  n + 1 \in 0 .. N /\ n + 1 <= s[n + 1]
    OBVIOUS
  <2>1. n + 1 \in 1 .. N /\ s[n + 1] \in Nat /\ s[n + 1] > 0
    BY <1>n, <1>m
  <2>2. CASE n = 0
    BY <2>1, <2>2
  <2>3. CASE n # 0
    <3>1. n \in 1 .. N /\ s[n] \in Nat /\ n <= s[n]
      BY <2>3, <1>n, <1>m
    <3>2. s[n] < s[n + 1]
      BY <3>1, <2>1 DEF Ascending
    <3> QED BY <3>1, <3>2, <2>1
  <2> QED BY <2>2, <2>3
<1>3. 0 .. N \subseteq S
  <2> HIDE DEF S, N
  <2> QED BY <1>n, <1>1, <1>2, InductionUpTo
<1> QED BY <1>3, <1>n

\* Adding the next event to the list, or again one it has.
LEMMA ThreadApplied ==
  ASSUME TypeOK, LogInv, NumbersStand, NEW D, ListIs(D, log, title, threads, replies),
         NEW i \in 1 .. Len(log), i \in D \/ \A j \in D : j < i,
         NEW live \in BOOLEAN, ApplyThread(log[i], live)
  PROVE  /\ ListIs(D \cup {i}, log, title', threads', replies')
         /\ threads' \in Seq(Numbers) /\ shownAs' \subseteq Numbers \X Numbers
         /\ NumbersStand'
         /\ \/ threads' = threads
            \/ /\ i \notin D /\ log[i].kind = "thread" /\ threads' = Append(threads, i)
               /\ \A j \in Elements(threads) : j < i
<1> DEFINE T == {j \in D : log[j].kind = "thread"}
<1>1. /\ log[i] \in Event /\ log[i].id = i /\ log[i].kind = "thread" /\ i \in Numbers
      /\ D \subseteq 1 .. Len(log) /\ threads \in Seq(Numbers)
  <2>1. log[i] \in Event
    BY DEF TypeOK
  <2>2. log[i].id \in Numbers
    BY <2>1 DEF Event
  <2>3. log[i].id = i /\ log[i].kind = "thread" /\ threads \in Seq(Numbers)
    BY DEF LogInv, ApplyThread, TypeOK
  <2>4. D \subseteq 1 .. Len(log)
    BY DEF ListIs
  <2> QED BY <2>1, <2>2, <2>3, <2>4
<1>2. Elements(threads) = T /\ Ascending(threads) /\ title' = title /\ replies' = replies
  BY DEF ListIs, ApplyThread
<1>3. CASE i \in D
  <2>1. threads' = threads /\ shownAs' = shownAs
    BY <1>1, <1>2, <1>3 DEF ApplyThread, NewThread
  <2>2. D \cup {i} = D
    BY <1>3
  <2> QED BY <2>1, <2>2, <1>2 DEF TypeOK, NumbersStand
<1>4. CASE i \notin D
  <2>1. \A j \in D : j < i
    BY <1>4
  <2>2. /\ threads' = Append(threads, i)
        /\ shownAs' = IF live THEN shownAs \cup {<<i, Len(threads) + 1>>} ELSE shownAs
    BY <1>1, <1>2, <1>4 DEF ApplyThread, NewThread, AddThread, NumberOfNew
  <2>3. /\ threads' \in Seq(Numbers) /\ Len(threads') = Len(threads) + 1 /\ Len(threads) \in Nat
        /\ \A k \in 1 .. Len(threads) : threads'[k] = threads[k] /\ threads[k] \in T
        /\ threads'[Len(threads) + 1] = i
    BY <1>1, <1>2, <2>2 DEF Elements
  <2>4. Ascending(threads')
    BY <1>2, <2>1, <2>3 DEF Ascending
  <2>5. Len(threads) + 1 <= i
    <3>1. \A n \in 1 .. Len(threads') : n <= threads'[n]
      BY <2>3, <2>4, AscendingBound
    <3> QED BY <3>1, <2>3
  <2>6. Len(threads) + 1 \in Numbers
    BY <2>3, <2>5, <1>1, ForumAssumption DEF Numbers
  <2>7. shownAs' \subseteq Numbers \X Numbers
    BY <1>1, <2>2, <2>6 DEF TypeOK
  <2>8. NumbersStand'
    <3> SUFFICES ASSUME NEW p \in shownAs'
                 PROVE  p[2] <= Len(threads') /\ threads'[p[2]] = p[1]
      BY DEF NumbersStand
    <3>1. CASE p \in shownAs
      <4>1. p[2] \in 1 .. Len(threads) /\ threads[p[2]] = p[1]
        BY <3>1, <2>3 DEF NumbersStand, TypeOK, Numbers
      <4> QED BY <4>1, <2>3
    <3>2. CASE p = <<i, Len(threads) + 1>>
      BY <3>2, <2>3
    <3> QED BY <3>1, <3>2, <2>2
  <2>9. ListIs(D \cup {i}, log, title', threads', replies')
    <3> DEFINE E == D \cup {i}
               U == {j \in E : log[j].kind = "thread"}
               P == {j \in D : log[j].kind = "post" /\ log[j].thread \in T}
               Q == {j \in E : log[j].kind = "post" /\ log[j].thread \in U}
               F == {j \in D : log[j].kind = "forum"}
               G == {j \in E : log[j].kind = "forum"}
    <3>1. U = T \cup {i} /\ G = F
      BY <1>1
    <3>2. Elements(threads') = U
      <4>1. \A k \in 1 .. Len(threads') : threads'[k] \in U
        BY <2>3, <3>1
      <4>2. \A j \in T : \E k \in 1 .. Len(threads) : threads[k] = j
        BY <1>2 DEF Elements
      <4>3. \A j \in U : \E k \in 1 .. Len(threads') : threads'[k] = j
        BY <4>2, <2>3, <3>1
      <4> QED BY <4>1, <4>3 DEF Elements
    <3>3. P = Q
      <4>1. \A j \in D : log[j].kind = "post" => log[j].thread # i
        BY <1>1, <2>1 DEF LogInv
      <4> QED BY <4>1, <1>1, <3>1
    <3>4. Ids(replies) = P /\ E \subseteq 1 .. Len(log)
      BY <1>1 DEF ListIs
    <3> HIDE DEF E, T, U, P, Q, F, G
    <3>5. /\ \A j, k \in 1 .. Len(replies) : j < k => replies[j].id < replies[k].id
          /\ \A k \in 1 .. Len(replies) : replies[k] = log[replies[k].id]
          /\ IF F = {} THEN title = 0 ELSE title \in F /\ \A j \in F : title <= j
      BY DEF ListIs, F
    <3>6. /\ E \subseteq 1 .. Len(log) /\ Ascending(threads') /\ Elements(threads') = U
          /\ \A j, k \in 1 .. Len(replies') : j < k => replies'[j].id < replies'[k].id
          /\ Ids(replies') = Q
          /\ \A k \in 1 .. Len(replies') : replies'[k] = log[replies'[k].id]
          /\ IF G = {} THEN title' = 0 ELSE title' \in G /\ \A j \in G : title' <= j
      BY <1>2, <2>4, <3>1, <3>2, <3>3, <3>4, <3>5
    <3> QED BY <3>6 DEF ListIs, U, Q, G, E
  <2> QED BY <1>1, <1>2, <1>4, <2>1, <2>2, <2>3, <2>7, <2>8, <2>9
<1> QED BY <1>3, <1>4

LEMMA PostApplied ==
  ASSUME TypeOK, LogInv, NEW D, ListIs(D, log, title, threads, replies),
         NEW i \in 1 .. Len(log), i \in D \/ \A j \in D : j < i, ApplyPost(log[i])
  PROVE  /\ ListIs(D \cup {i}, log, title', threads', replies')
         /\ replies' \in Seq(Event)
<1> DEFINE E == D \cup {i}
           T == {j \in D : log[j].kind = "thread"}
           U == {j \in E : log[j].kind = "thread"}
           P == {j \in D : log[j].kind = "post" /\ log[j].thread \in T}
           Q == {j \in E : log[j].kind = "post" /\ log[j].thread \in U}
           F == {j \in D : log[j].kind = "forum"}
           G == {j \in E : log[j].kind = "forum"}
<1>1. log[i] \in Event /\ log[i].id = i /\ log[i].kind = "post" /\ replies \in Seq(Event)
  BY DEF TypeOK, LogInv, ApplyPost
<1>2. /\ D \subseteq 1 .. Len(log) /\ Elements(threads) = T /\ Ascending(threads)
      /\ \A j, k \in 1 .. Len(replies) : j < k => replies[j].id < replies[k].id
      /\ Ids(replies) = P
      /\ \A k \in 1 .. Len(replies) : replies[k] = log[replies[k].id]
      /\ IF F = {} THEN title = 0 ELSE title \in F /\ \A j \in F : title <= j
  BY DEF ListIs
<1>3. title' = title /\ threads' = threads /\ U = T /\ G = F /\ E \subseteq 1 .. Len(log)
  BY <1>1, <1>2 DEF ApplyPost
<1>4. Q = IF log[i].thread \in T THEN P \cup {i} ELSE P \ {i}
  <2>1. log[i].thread \notin T => i \notin P
    BY <1>3
  <2> QED BY <1>1, <1>3, <2>1
<1>5. NewReply(log[i]) <=> log[i].thread \in T /\ i \notin P
  <2>1. \A k \in 1 .. Len(replies) : replies[k].id = i => replies[k].thread = log[i].thread
    BY <1>2
  <2>2. i \in P <=> \E k \in 1 .. Len(replies) : replies[k].id = i
    BY <1>2 DEF Ids
  <2> HIDE DEF P, T
  <2> QED BY <1>1, <1>2, <2>1, <2>2 DEF NewReply
<1>6. CASE NewReply(log[i])
  <2>1. /\ replies' = Append(replies, log[i]) /\ Q = P \cup {i} /\ i \notin D
        /\ \A j \in P : j < i
    <3>1. replies' = Append(replies, log[i])
      BY <1>6 DEF ApplyPost
    <3>2. log[i].thread \in T /\ i \notin P
      BY <1>5, <1>6
    <3>3. Q = P \cup {i}
      BY <1>4, <3>2
    <3>4. i \notin D
      BY <1>1, <3>2
    <3> QED BY <3>1, <3>3, <3>4
  <2>2. /\ replies' \in Seq(Event) /\ Len(replies) \in Nat /\ Len(replies') = Len(replies) + 1
        /\ \A k \in 1 .. Len(replies) : replies'[k] = replies[k] /\ replies[k].id \in P
        /\ replies'[Len(replies) + 1] = log[i]
    BY <1>1, <1>2, <2>1 DEF Ids
  <2> HIDE DEF E, T, U, P, Q, F, G
  <2>3. \A j, k \in 1 .. Len(replies') : j < k => replies'[j].id < replies'[k].id
    <3> SUFFICES ASSUME NEW j \in 1 .. Len(replies'), NEW k \in 1 .. Len(replies'), j < k
                 PROVE  replies'[j].id < replies'[k].id
      OBVIOUS
    <3>1. j \in 1 .. Len(replies) /\ (k \in 1 .. Len(replies) \/ k = Len(replies) + 1)
      BY <2>2
    <3> QED BY <1>1, <1>2, <2>1, <2>2, <3>1
  <2>4. Ids(replies') = Q
    <3>1. \A k \in 1 .. Len(replies') : replies'[k].id \in Q
      BY <1>1, <2>1, <2>2
    <3>2. \A j \in P : \E k \in 1 .. Len(replies) : replies[k].id = j
      BY <1>2 DEF Ids
    <3>3. \A j \in Q : \E k \in 1 .. Len(replies') : replies'[k].id = j
      BY <1>1, <2>1, <2>2, <3>2
    <3> QED BY <3>1, <3>3 DEF Ids
  <2>5. \A k \in 1 .. Len(replies') : replies'[k] = log[replies'[k].id]
    BY <1>1, <1>2, <2>2
  <2>6. /\ E \subseteq 1 .. Len(log) /\ Ascending(threads') /\ Elements(threads') = U
        /\ IF G = {} THEN title' = 0 ELSE title' \in G /\ \A j \in G : title' <= j
    BY <1>2, <1>3
  <2> QED BY <2>2, <2>3, <2>4, <2>5, <2>6 DEF ListIs, U, Q, G, E
<1>7. CASE ~ NewReply(log[i])
  <2>1. replies' = replies
    BY <1>7 DEF ApplyPost
  <2>2. Q = P
    BY <1>4, <1>5, <1>7
  <2> HIDE DEF E, T, U, P, Q, F, G
  <2>3. /\ E \subseteq 1 .. Len(log) /\ Ascending(threads') /\ Elements(threads') = U
        /\ \A j, k \in 1 .. Len(replies') : j < k => replies'[j].id < replies'[k].id
        /\ Ids(replies') = Q
        /\ \A k \in 1 .. Len(replies') : replies'[k] = log[replies'[k].id]
        /\ IF G = {} THEN title' = 0 ELSE title' \in G /\ \A j \in G : title' <= j
    BY <1>2, <1>3, <2>1, <2>2
  <2> QED BY <1>1, <2>1, <2>3 DEF ListIs, U, Q, G, E
<1> QED BY <1>6, <1>7

LEMMA ForumApplied ==
  ASSUME TypeOK, LogInv, NEW D, ListIs(D, log, title, threads, replies),
         NEW i \in 1 .. Len(log), i \in D \/ \A j \in D : j < i, ApplyForum(log[i])
  PROVE  /\ ListIs(D \cup {i}, log, title', threads', replies')
         /\ title' \in 0 .. MaxEvents
<1> DEFINE E == D \cup {i}
           T == {j \in D : log[j].kind = "thread"}
           U == {j \in E : log[j].kind = "thread"}
           P == {j \in D : log[j].kind = "post" /\ log[j].thread \in T}
           Q == {j \in E : log[j].kind = "post" /\ log[j].thread \in U}
           F == {j \in D : log[j].kind = "forum"}
           G == {j \in E : log[j].kind = "forum"}
<1>1. /\ log[i].id = i /\ log[i].kind = "forum" /\ Len(log) \in Nat /\ Len(log) <= MaxEvents
      /\ title' = IF title = 0 THEN i ELSE title
  BY DEF TypeOK, LogInv, ApplyForum
<1>2. /\ D \subseteq 1 .. Len(log) /\ Elements(threads) = T /\ Ascending(threads)
      /\ \A j, k \in 1 .. Len(replies) : j < k => replies[j].id < replies[k].id
      /\ Ids(replies) = P
      /\ \A k \in 1 .. Len(replies) : replies[k] = log[replies[k].id]
      /\ IF F = {} THEN title = 0 ELSE title \in F /\ \A j \in F : title <= j
  BY DEF ListIs
<1>3. /\ replies' = replies /\ threads' = threads /\ U = T /\ Q = P /\ G = F \cup {i}
      /\ E \subseteq 1 .. Len(log) /\ F \subseteq D
  BY <1>1, <1>2 DEF ApplyForum
<1>4. i \in F \/ \A j \in F : j < i
  BY <1>1, <1>3
<1> HIDE DEF E, T, U, P, Q, F, G
<1>5. title' \in G /\ \A j \in G : title' <= j
  <2>1. CASE F = {}
    BY <2>1, <1>1, <1>2, <1>3
  <2>2. CASE F # {}
    <3>1. title \in F /\ title # 0 /\ title' = title /\ title \in Nat
      <4>1. title \in F /\ title \in 1 .. Len(log)
        BY <2>2, <1>2, <1>3
      <4>2. title # 0 /\ title \in Nat
        BY <4>1, <1>1
      <4> QED BY <4>1, <4>2, <1>1
    <3>2. title <= i
      BY <3>1, <1>1, <1>2, <1>4
    <3> QED BY <3>1, <3>2, <1>2, <1>3
  <2> QED BY <2>1, <2>2
<1>6. title' \in 0 .. MaxEvents
  BY <1>1, ForumAssumption DEF TypeOK
<1>7. G # {}
  BY <1>3
<1>8. /\ E \subseteq 1 .. Len(log) /\ Ascending(threads') /\ Elements(threads') = U
      /\ \A j, k \in 1 .. Len(replies') : j < k => replies'[j].id < replies'[k].id
      /\ Ids(replies') = Q
      /\ \A k \in 1 .. Len(replies') : replies'[k] = log[replies'[k].id]
      /\ IF G = {} THEN title' = 0 ELSE title' \in G /\ \A j \in G : title' <= j
  BY <1>2, <1>3, <1>5, <1>7
<1> QED BY <1>6, <1>8 DEF ListIs, U, Q, G, E

\* applyForum keeps the list right, and lists a thread or leaves the list of
\* them alone.
LEMMA EventApplied ==
  ASSUME TypeOK, LogInv, NumbersStand, NEW D, ListIs(D, log, title, threads, replies),
         NEW i \in 1 .. Len(log), i \in D \/ \A j \in D : j < i,
         NEW live \in BOOLEAN, Apply(log[i], live)
  PROVE  /\ ListIs(D \cup {i}, log, title', threads', replies')
         /\ title' \in 0 .. MaxEvents /\ threads' \in Seq(Numbers) /\ replies' \in Seq(Event)
         /\ shownAs' \subseteq Numbers \X Numbers
         /\ NumbersStand'
         /\ \/ threads' = threads
            \/ /\ i \notin D /\ log[i].kind = "thread" /\ threads' = Append(threads, i)
               /\ \A j \in Elements(threads) : j < i
<1>1. CASE ApplyForum(log[i])
  <2>1. UNCHANGED <<threads, replies, shownAs>>
    BY <1>1 DEF ApplyForum
  <2>2. ListIs(D \cup {i}, log, title', threads', replies') /\ title' \in 0 .. MaxEvents
    BY <1>1, ForumApplied
  <2> QED BY <2>1, <2>2 DEF TypeOK, NumbersStand
<1>2. CASE ApplyThread(log[i], live)
  <2>1. UNCHANGED <<title, replies>>
    BY <1>2 DEF ApplyThread
  <2>2. /\ ListIs(D \cup {i}, log, title', threads', replies')
        /\ threads' \in Seq(Numbers) /\ shownAs' \subseteq Numbers \X Numbers
        /\ NumbersStand'
        /\ \/ threads' = threads
           \/ /\ i \notin D /\ log[i].kind = "thread" /\ threads' = Append(threads, i)
              /\ \A j \in Elements(threads) : j < i
    BY <1>2, ThreadApplied
  <2> QED BY <2>1, <2>2 DEF TypeOK
<1>3. CASE ApplyPost(log[i])
  <2>1. UNCHANGED <<title, threads, shownAs>>
    BY <1>3 DEF ApplyPost
  <2>2. ListIs(D \cup {i}, log, title', threads', replies') /\ replies' \in Seq(Event)
    BY <1>3, PostApplied
  <2> QED BY <2>1, <2>2 DEF TypeOK, NumbersStand
<1> QED BY <1>1, <1>2, <1>3 DEF Apply

-----------------------------------------------------------------------------
(* What the server stores. *)

\* An event stored at the end of the log.
LEMMA StoredLog ==
  ASSUME TypeOK, LogInv,
         NEW kind \in {"forum", "thread", "post", "sealed"}, NEW thread \in 0 .. MaxEvents,
         kind = "post" => thread \in 1 .. Len(log) /\ log[thread].kind = "thread",
         Stored(kind, thread)
  PROVE  /\ log' \in Seq(Event) /\ Len(log') = Len(log) + 1 /\ Len(log') <= MaxEvents
         /\ \A i \in 1 .. Len(log) : log'[i] = log[i]
         /\ log'[Len(log) + 1] = [id |-> Len(log) + 1, kind |-> kind, thread |-> thread]
         /\ LogInv'
<1> DEFINE e == [id |-> Len(log) + 1, kind |-> kind, thread |-> thread]
<1>1. Len(log) \in Nat /\ Len(log) < MaxEvents /\ log \in Seq(Event) /\ log' = Append(log, e)
  BY DEF TypeOK, Stored
<1>2. e \in Event
  BY <1>1, ForumAssumption DEF Event, Numbers
<1>3. e.id = Len(log) + 1 /\ e.kind = kind /\ e.thread = thread
  OBVIOUS
<1> HIDE DEF e
<1>4. /\ log' \in Seq(Event) /\ Len(log') = Len(log) + 1
      /\ \A i \in 1 .. Len(log) : log'[i] = log[i]
      /\ log'[Len(log) + 1] = e
  BY <1>1, <1>2
<1>5. LogInv'
  <2> SUFFICES ASSUME NEW i \in 1 .. Len(log')
               PROVE  /\ log'[i].id = i
                      /\ log'[i].kind = "post" =>
                           log'[i].thread \in 1 .. i - 1 /\ log'[log'[i].thread].kind = "thread"
    BY DEF LogInv
  <2>1. CASE i \in 1 .. Len(log)
    <3>1. log'[i].kind = "post" => log[i].thread \in 1 .. i - 1 /\ log[i].thread \in 1 .. Len(log)
      BY <2>1, <1>1, <1>4 DEF LogInv
    <3> QED BY <2>1, <3>1, <1>4 DEF LogInv
  <2>2. CASE i = Len(log) + 1
    BY <2>2, <1>1, <1>3, <1>4
  <2> QED BY <2>1, <2>2, <1>1, <1>4
<1> QED BY <1>1, <1>4, <1>5, ForumAssumption DEF e

\* A longer log changes nothing for the reader.
LEMMA LogGrows ==
  ASSUME IInv, log' \in Seq(Event), Len(log') >= Len(log), \A i \in 1 .. Len(log) : log'[i] = log[i],
         UNCHANGED <<relayed, link, load, list>>
  PROVE  LoadInv' /\ LoadedWhole' /\ WireInv' /\ ListInv' /\ NumbersStand'
<1> USE DEF link, load, list
<1>1. Len(log) \in Nat /\ Len(log') \in Nat /\ relayed <= Len(log) /\ after \in Nat /\ relayed \in Nat
  BY DEF IInv, TypeOK
<1>2. LoadInv'
  BY <1>1 DEF IInv, TypeOK, LoadInv
<1>3. LoadedWhole'
  <2>1. after <= Len(log)
    BY DEF IInv, LoadInv
  <2> DEFINE s == SubSeq(log, 1, after)
             t == SubSeq(log', 1, after)
  <2>2. s = t
    BY <1>1, <2>1 DEF IInv, TypeOK
  <2> HIDE DEF s, t
  <2>3. fetched' = ReadableOf(t)
    BY <2>2 DEF IInv, LoadedWhole, s
  <2>4. SubSeq(log', 1, after') = t
    BY DEF t
  <2>5. fetched' = ReadableOf(SubSeq(log', 1, after'))
    BY <2>3, <2>4
  <2>6. phase' \in {"replaying", "ready"} => after' >= heldFirst'
    BY DEF IInv, LoadedWhole
  <2> QED BY <2>5, <2>6 DEF LoadedWhole
<1>4. WireInv'
  <2>1. Ids(wire)' = Ids(wire)
    BY DEF Ids
  <2>2. \A k \in 1 .. Len(wire) : wire[k].id \in 1 .. relayed /\ wire[k] = log'[wire[k].id]
    BY <1>1 DEF IInv, WireInv
  <2> QED BY <2>1, <2>2 DEF IInv, WireInv
<1>5. Told' = Told
  <2>1. Reached' = Reached
    <3>1. Ids(wire)' = Ids(wire) /\ after <= Len(log)
      BY DEF Ids, IInv, LoadInv
    <3> QED BY <1>1, <3>1 DEF Reached
  <2> QED BY <2>1 DEF Told
<1>6. ListInv'
  <2> DEFINE D == Told
             T(l) == {i \in D : l[i].kind = "thread"}
             P(l) == {i \in D : l[i].kind = "post" /\ l[i].thread \in T(l)}
             F(l) == {i \in D : l[i].kind = "forum"}
  <2>1. D \subseteq 1 .. Len(log) /\ \A k \in 1 .. Len(replies) : replies[k].id \in D
    BY DEF IInv, ListInv, ListIs, Ids
  <2>2. D \subseteq 1 .. Len(log') /\ \A i \in D : log'[i] = log[i]
    BY <1>1, <2>1
  <2> HIDE DEF D
  <2>3. T(log') = T(log) /\ P(log') = P(log) /\ F(log') = F(log)
    BY <2>2
  <2>4. ListIs(D, log, title, threads, replies)
    BY DEF IInv, ListInv, D
  <2>5. ListIs(D, log', title, threads, replies)
    BY <2>1, <2>2, <2>3, <2>4 DEF ListIs
  <2> QED BY <1>5, <2>5 DEF ListInv, D
<1>7. NumbersStand'
  BY DEF IInv, NumbersStand
<1> QED BY <1>2, <1>3, <1>4, <1>6, <1>7

-----------------------------------------------------------------------------
(* The actions. *)

USE ForumAssumption

LEMMA InitHolds == Init => IInv
<1> SUFFICES ASSUME Init PROVE IInv
  OBVIOUS
<1> USE DEF Init
<1>1. TypeOK
  <2>1. <<>> \in Seq(Event) /\ <<>> \in Seq(Numbers) /\ Len(<<>>) = 0
    OBVIOUS
  <2>2. FALSE \in BOOLEAN /\ 0 \in 0 .. MaxDrops /\ 0 \in Nat /\ 0 \in 0 .. MaxEvents /\ 0 \in 0 .. MaxOwn
    OBVIOUS
  <2>3. 0 \in 0 .. 0 /\ 0 <= MaxEvents
    OBVIOUS
  <2> QED BY <2>1, <2>2, <2>3 DEF TypeOK
<1>2. LoadedWhole
  <2>1. SubSeq(log, 1, after) = <<>>
    OBVIOUS
  <2>2. <<>> \in Seq(Event) /\ Len(<<>>) = 0
    OBVIOUS
  <2>3. PICK out : Passes(<<>>, out) /\ ReadableOf(<<>>) = out[Len(<<>>)]
    BY <2>2, PassExists
  <2>4. ReadableOf(<<>>) = <<>>
    BY <2>2, <2>3 DEF Passes
  <2> QED BY <2>1, <2>4 DEF LoadedWhole
<1>3. Told = {}
  BY DEF Told
<1>4. ListInv
  BY <1>3 DEF ListInv, ListIs, Ascending, Elements, Ids
<1>5. LogInv /\ DraftsInv /\ LoadInv /\ WireInv /\ NumbersStand
  BY DEF LogInv, DraftsInv, LoadInv, WireInv, Ids, NumbersStand
<1> QED BY <1>1, <1>2, <1>4, <1>5 DEF IInv

LEMMA OthersStoreStep ==
  ASSUME IInv, NEW kind \in {"forum", "thread", "post", "sealed"}, NEW thread \in 0 .. MaxEvents,
         kind = "post" => thread \in 1 .. Len(log) /\ log[thread].kind = "thread",
         OthersStore(kind, thread)
  PROVE  IInv'
<1>1. Stored(kind, thread) /\ UNCHANGED <<relayed, link, load, list, own>>
  BY DEF OthersStore
<1>2. /\ log' \in Seq(Event) /\ Len(log') = Len(log) + 1 /\ Len(log') <= MaxEvents
      /\ \A i \in 1 .. Len(log) : log'[i] = log[i]
      /\ LogInv'
  BY <1>1, StoredLog DEF IInv
<1>3. Len(log) \in Nat
  BY DEF IInv, TypeOK
<1>4. LoadInv' /\ LoadedWhole' /\ WireInv' /\ ListInv' /\ NumbersStand'
  BY <1>1, <1>2, <1>3, LogGrows
<1>5. TypeOK'
  BY <1>1, <1>2, <1>3 DEF IInv, TypeOK, link, load, list, own
<1>6. DraftsInv'
  BY <1>1, <1>2, <1>3 DEF IInv, DraftsInv, own
<1> QED BY <1>2, <1>4, <1>5, <1>6 DEF IInv

LEMMA OwnStep ==
  ASSUME IInv, NEW d \in drafts, OwnStored(d) \/ OwnFails(d)
  PROVE  IInv'
<1>t. d \in Draft
  BY DEF IInv, TypeOK
<1>1. CASE OwnStored(d)
  <2>1. Stored(d.kind, d.thread) /\ drafts' = drafts \ {d} /\ UNCHANGED <<relayed, link, load, list, owned>>
    BY <1>1 DEF OwnStored
  <2>2. /\ d.kind \in {"forum", "thread", "post", "sealed"} /\ d.thread \in 0 .. MaxEvents
        /\ d.kind = "post" => d.thread \in 1 .. Len(log) /\ log[d.thread].kind = "thread"
    BY <1>t DEF Draft, IInv, DraftsInv
  <2>3. /\ log' \in Seq(Event) /\ Len(log') = Len(log) + 1 /\ Len(log') <= MaxEvents
        /\ \A i \in 1 .. Len(log) : log'[i] = log[i]
        /\ LogInv'
    BY <2>1, <2>2, StoredLog DEF IInv
  <2>4. Len(log) \in Nat
    BY DEF IInv, TypeOK
  <2>5. LoadInv' /\ LoadedWhole' /\ WireInv' /\ ListInv' /\ NumbersStand'
    BY <2>1, <2>3, <2>4, LogGrows
  <2>6. TypeOK'
    BY <2>1, <2>3, <2>4 DEF IInv, TypeOK, link, load, list
  <2>7. DraftsInv'
    BY <2>1, <2>3, <2>4 DEF IInv, DraftsInv
  <2> QED BY <2>3, <2>5, <2>6, <2>7 DEF IInv
<1>2. CASE OwnFails(d)
  <2>1. drafts' = drafts \ {d} /\ UNCHANGED <<server, link, load, list, owned>>
    BY <1>2 DEF OwnFails
  <2>2. log' = log
    BY <2>1 DEF server
  <2>3. UNCHANGED <<relayed, link, load, list>>
    BY <2>1 DEF server
  <2>4. Len(log) \in Nat /\ log \in Seq(Event)
    BY DEF IInv, TypeOK
  <2>5. LoadInv' /\ LoadedWhole' /\ WireInv' /\ ListInv' /\ NumbersStand'
    BY <2>2, <2>3, <2>4, LogGrows
  <2>6. TypeOK'
    BY <2>1 DEF IInv, TypeOK, server, link, load, list
  <2>7. DraftsInv' /\ LogInv'
    BY <2>1, <2>2 DEF IInv, DraftsInv, LogInv
  <2> QED BY <2>5, <2>6, <2>7 DEF IInv
<1> QED BY <1>1, <1>2

LEMMA DraftStep ==
  ASSUME IInv, TypeThread \/ \E n \in 1 .. Len(threads) : TypePost(n)
  PROVE  IInv'
<1>1. PICK kind \in {"thread", "post"}, thread \in 0 .. MaxEvents :
        /\ Drafted(kind, thread)
        /\ kind = "post" => thread \in 1 .. Len(log) /\ log[thread].kind = "thread"
  <2>1. CASE TypeThread
    BY <2>1 DEF TypeThread
  <2>2. CASE \E n \in 1 .. Len(threads) : TypePost(n)
    <3>1. PICK n \in 1 .. Len(threads) : Drafted("post", threads[n])
      BY <2>2 DEF TypePost
    <3>2. threads[n] \in Told /\ log[threads[n]].kind = "thread" /\ Told \subseteq 1 .. Len(log)
      BY DEF IInv, ListInv, ListIs, Elements
    <3>3. threads[n] \in 0 .. MaxEvents
      <4>1. threads[n] \in 1 .. Len(log)
        BY <3>2
      <4>2. Len(log) \in Nat /\ Len(log) <= MaxEvents
        BY DEF IInv, TypeOK
      <4> QED BY <4>1, <4>2
    <3> QED BY <3>1, <3>2, <3>3
  <2> QED BY <2>1, <2>2
<1> DEFINE d == [own |-> owned + 1, kind |-> kind, thread |-> thread]
<1>2. /\ owned < MaxOwn /\ owned' = owned + 1 /\ drafts' = drafts \cup {d}
      /\ UNCHANGED <<server, link, load, list>>
  BY <1>1 DEF Drafted
<1>3. d \in Draft
  BY <1>2 DEF Draft, IInv, TypeOK
<1>4. TypeOK'
  BY <1>2, <1>3 DEF IInv, TypeOK, server, link, load, list
<1>5. log' = log /\ log \in Seq(Event) /\ Len(log) \in Nat /\ UNCHANGED <<relayed, link, load, list>>
  BY <1>2 DEF server, IInv, TypeOK
<1>6. LoadInv' /\ LoadedWhole' /\ WireInv' /\ ListInv' /\ NumbersStand'
  BY <1>5, LogGrows
<1>7. LogInv'
  BY <1>5 DEF IInv, LogInv
<1>8. DraftsInv'
  BY <1>1, <1>2, <1>5 DEF IInv, DraftsInv
<1> QED BY <1>4, <1>6, <1>7, <1>8 DEF IInv

\* What the list is made of does not change when the link alone does.
LEMMA LinkOnly ==
  ASSUME IInv, UNCHANGED <<log, load, list>>, Reached' = Reached
  PROVE  LogInv' /\ LoadInv' /\ LoadedWhole' /\ ListInv' /\ NumbersStand'
<1> USE DEF load, list
<1>1. LogInv' /\ LoadInv' /\ LoadedWhole' /\ NumbersStand'
  BY DEF IInv, LogInv, LoadInv, LoadedWhole, NumbersStand
<1>2. Told' = Told
  BY DEF Told
<1> QED BY <1>1, <1>2 DEF IInv, ListInv

LEMMA RelayStep == ASSUME IInv, Relay PROVE IInv'
<1>1. /\ relayed < Len(log) /\ relayed' = relayed + 1 /\ relayed \in Nat /\ Len(log) \in Nat
      /\ UNCHANGED <<log, online, drops, load, list, own>>
  BY DEF IInv, TypeOK, Relay
<1>e. log[relayed + 1] \in Event /\ log[relayed + 1].id = relayed + 1
  <2>1. relayed + 1 \in 1 .. Len(log) /\ log \in Seq(Event)
    BY <1>1 DEF IInv, TypeOK
  <2>2. log[relayed + 1] \in Event
    BY <2>1
  <2> QED BY <2>1, <2>2 DEF IInv, LogInv
<1>w. wire \in Seq(Event) /\ lost \subseteq Numbers /\ Len(log) <= MaxEvents /\ after <= Len(log) /\ after \in Nat
  BY DEF IInv, TypeOK, LoadInv
<1>n. relayed + 1 \in Numbers
  BY <1>1, <1>w DEF Numbers
<1>W. WireInv
  BY DEF IInv
<1>2. CASE online
  <2>1. wire' = Append(wire, log[relayed + 1]) /\ lost' = lost
    BY <1>2 DEF Relay
  <2>2. /\ wire' \in Seq(Event) /\ Len(wire') = Len(wire) + 1 /\ Len(wire) \in Nat
        /\ \A k \in 1 .. Len(wire) : wire'[k] = wire[k]
        /\ wire'[Len(wire) + 1] = log[relayed + 1]
    BY <2>1, <1>w, <1>e
  <2>i. Ids(wire') = Ids(wire) \cup {relayed + 1}
    <3>1. \A k \in 1 .. Len(wire') : wire'[k].id \in Ids(wire) \cup {relayed + 1}
      BY <2>2, <1>e DEF Ids
    <3>2. \A k \in 1 .. Len(wire) : wire[k].id = wire'[k].id /\ k \in 1 .. Len(wire')
      BY <2>2
    <3>3. relayed + 1 = wire'[Len(wire')].id /\ Len(wire') \in 1 .. Len(wire')
      BY <2>2, <1>e
    <3> QED BY <3>1, <3>2, <3>3 DEF Ids
  <2>3. TypeOK'
    BY <1>1, <2>1, <2>2 DEF IInv, TypeOK, load, list, own
  <2>4. phase = "ready"
    BY <1>2, <1>W DEF WireInv
  <2>r. \A j \in Ids(wire) : j \in 1 .. relayed
    BY <1>W DEF WireInv, Ids
  <2>5. WireInv'
    <3>1. \A k \in 1 .. Len(wire') : wire'[k].id \in 1 .. relayed' /\ wire'[k] = log'[wire'[k].id]
      BY <1>1, <1>e, <1>W, <2>2 DEF WireInv
    <3>2. \A j, k \in 1 .. Len(wire') : j < k => wire'[j].id < wire'[k].id
      <4> SUFFICES ASSUME NEW j \in 1 .. Len(wire'), NEW k \in 1 .. Len(wire'), j < k
                   PROVE  wire'[j].id < wire'[k].id
        OBVIOUS
      <4>1. j \in 1 .. Len(wire) /\ (k \in 1 .. Len(wire) \/ k = Len(wire) + 1)
        BY <2>2
      <4>2. wire[j].id \in 1 .. relayed
        BY <4>1, <1>W DEF WireInv
      <4> QED BY <1>1, <1>e, <1>W, <2>2, <4>1, <4>2 DEF WireInv
    <3>3. lost' \subseteq 1 .. relayed' /\ lost' \cap Ids(wire') = {}
      BY <1>1, <1>W, <2>1, <2>i, <2>r DEF WireInv
    <3>4. \A i \in 1 .. relayed' : i \notin lost' \cup Ids(wire') => \A j \in Ids(wire') : i < j
      BY <1>1, <1>W, <2>1, <2>i, <2>r DEF WireInv
    <3>5. (phase' # "ready" => ~ online' /\ 1 .. relayed' \subseteq lost') /\ (~ online' => wire' = <<>>)
      BY <1>1, <1>2, <2>4 DEF load
    <3>6. Ids(wire)' = Ids(wire')
      BY DEF Ids
    <3> QED BY <3>1, <3>2, <3>3, <3>4, <3>5, <3>6 DEF WireInv
  <2>6. Reached' = Reached
    <3>1. Ids(wire)' = Ids(wire) \cup {relayed + 1}
      BY <2>i DEF Ids
    <3> QED BY <1>1, <1>w, <2>1, <3>1, <2>r DEF Reached, load
  <2>7. LogInv' /\ LoadInv' /\ LoadedWhole' /\ ListInv' /\ NumbersStand'
    BY <1>1, <2>6, LinkOnly
  <2>8. DraftsInv'
    BY <1>1 DEF IInv, DraftsInv, own
  <2> QED BY <2>3, <2>5, <2>7, <2>8 DEF IInv
<1>3. CASE ~ online
  <2>1. lost' = lost \cup {relayed + 1} /\ wire' = wire /\ wire = <<>>
    BY <1>3, <1>W DEF Relay, WireInv
  <2>i. Ids(wire) = {} /\ Ids(wire)' = {}
    BY <2>1 DEF Ids
  <2>3. TypeOK'
    BY <1>1, <1>n, <2>1 DEF IInv, TypeOK, load, list, own
  <2>5. WireInv'
    <3>1. lost' \subseteq 1 .. relayed' /\ lost' \cap Ids(wire)' = {}
      BY <1>1, <1>W, <2>1, <2>i DEF WireInv
    <3>2. phase' # "ready" => ~ online' /\ 1 .. relayed' \subseteq lost'
      BY <1>1, <1>W, <2>1 DEF WireInv, load
    <3>3. /\ \A k \in 1 .. Len(wire') : wire'[k].id \in 1 .. relayed' /\ wire'[k] = log'[wire'[k].id]
          /\ \A j, k \in 1 .. Len(wire') : j < k => wire'[j].id < wire'[k].id
          /\ ~ online' => wire' = <<>>
      BY <2>1
    <3> QED BY <2>i, <3>1, <3>2, <3>3 DEF WireInv
  <2>6. Reached' = Reached
    BY <1>1, <1>w, <2>1, <2>i DEF Reached, load
  <2>7. LogInv' /\ LoadInv' /\ LoadedWhole' /\ ListInv' /\ NumbersStand'
    BY <1>1, <2>6, LinkOnly
  <2>8. DraftsInv'
    BY <1>1 DEF IInv, DraftsInv, own
  <2> QED BY <2>3, <2>5, <2>7, <2>8 DEF IInv
<1> QED BY <1>2, <1>3

LEMMA DropStep == ASSUME IInv, Drop PROVE IInv'
<1>1. /\ online /\ drops < MaxDrops /\ online' = FALSE /\ wire' = <<>> /\ drops' = drops + 1
      /\ lost' = lost \cup Ids(wire) /\ UNCHANGED <<log, relayed, load, list, own>>
  BY DEF Drop, server
<1>W. WireInv /\ wire \in Seq(Event) /\ lost \subseteq Numbers
  BY DEF IInv, TypeOK
<1>2. Ids(wire)' = {}
  BY <1>1 DEF Ids
<1>3. Ids(wire) \subseteq Numbers /\ Ids(wire) \subseteq 1 .. relayed
  <2>1. \A k \in 1 .. Len(wire) : wire[k].id \in Numbers
    <3> TAKE k \in 1 .. Len(wire)
    <3>1. wire[k] \in Event
      BY <1>W
    <3> QED BY <3>1 DEF Event
  <2> QED BY <2>1, <1>W DEF Ids, WireInv
<1>4. <<>> \in Seq(Event)
  OBVIOUS
<1>5. TypeOK'
  <2>1. lost' \subseteq Numbers /\ wire' \in Seq(Event) /\ online' \in BOOLEAN
    BY <1>1, <1>3, <1>4, <1>W
  <2>2. drops' \in 0 .. MaxDrops
    BY <1>1 DEF IInv, TypeOK
  <2>3. UNCHANGED <<log, relayed, load, list, own>>
    BY <1>1
  <2> QED BY <2>1, <2>2, <2>3 DEF IInv, TypeOK, load, list, own
<1>6. WireInv'
  <2>1. lost' \subseteq 1 .. relayed' /\ lost' \cap Ids(wire)' = {} /\ phase' = "ready"
    BY <1>1, <1>2, <1>3, <1>W DEF WireInv, load
  <2>2. Len(wire') = 0
    BY <1>1
  <2> QED BY <1>1, <1>2, <2>1, <2>2 DEF WireInv
<1>7. Reached' = Reached
  BY <1>1, <1>2 DEF Reached, load
<1>8. LogInv' /\ LoadInv' /\ LoadedWhole' /\ ListInv' /\ NumbersStand'
  BY <1>1, <1>7, LinkOnly
<1>9. DraftsInv'
  BY <1>1 DEF IInv, DraftsInv, own
<1> QED BY <1>5, <1>6, <1>8, <1>9 DEF IInv

LEMMA SubscribeStep == ASSUME IInv, Subscribe PROVE IInv'
<1>1. /\ phase = "ready" /\ online' = TRUE /\ UNCHANGED <<log, relayed, wire, drops, lost, load, list, own>>
  BY DEF Subscribe, server
<1>2. Ids(wire)' = Ids(wire)
  BY <1>1 DEF Ids
<1>3. TypeOK'
  BY <1>1 DEF IInv, TypeOK, load, list, own
<1>4. WireInv'
  BY <1>1, <1>2 DEF IInv, WireInv, load
<1>5. Reached' = Reached
  BY <1>1, <1>2 DEF Reached, load
<1>6. LogInv' /\ LoadInv' /\ LoadedWhole' /\ ListInv' /\ NumbersStand'
  BY <1>1, <1>5, LinkOnly
<1>7. DraftsInv'
  BY <1>1 DEF IInv, DraftsInv, own
<1> QED BY <1>3, <1>4, <1>6, <1>7 DEF IInv

LEMMA BeginStep == ASSUME IInv, Begin PROVE IInv'
<1>1. /\ phase = "off" /\ phase' = "paging" /\ heldFirst' = Len(log)
      /\ UNCHANGED <<log, relayed, link, after, fetched, replayed, list, own>>
  BY DEF Begin, server
<1>2. TypeOK'
  BY <1>1 DEF IInv, TypeOK, link, list, own
<1>3. LoadInv'
  BY <1>1 DEF IInv, TypeOK, LoadInv
<1>4. LoadedWhole'
  BY <1>1 DEF IInv, LoadedWhole
<1>5. WireInv'
  BY <1>1 DEF IInv, WireInv, Ids, link
<1>6. Told' = Told
  BY <1>1 DEF Told
<1>7. ListInv' /\ LogInv' /\ DraftsInv' /\ NumbersStand'
  BY <1>1, <1>6 DEF IInv, ListInv, LogInv, DraftsInv, NumbersStand, list, own
<1> QED BY <1>2, <1>3, <1>4, <1>5, <1>7 DEF IInv

LEMMA LoadFailsStep == ASSUME IInv, LoadFails PROVE IInv'
<1>1. /\ phase \in {"off", "paging"} /\ phase' = "failed"
      /\ UNCHANGED <<log, relayed, link, heldFirst, after, fetched, replayed, list, own>>
  BY DEF LoadFails, server
<1>2. TypeOK'
  BY <1>1 DEF IInv, TypeOK, link, list, own
<1>3. LoadInv'
  BY <1>1 DEF IInv, TypeOK, LoadInv
<1>4. LoadedWhole'
  BY <1>1 DEF IInv, LoadedWhole
<1>5. WireInv'
  BY <1>1 DEF IInv, WireInv, Ids, link
<1>6. Told' = Told
  BY <1>1 DEF Told
<1>7. ListInv' /\ LogInv' /\ DraftsInv' /\ NumbersStand'
  BY <1>1, <1>6 DEF IInv, ListInv, LogInv, DraftsInv, NumbersStand, list, own
<1> QED BY <1>2, <1>3, <1>4, <1>5, <1>7 DEF IInv

\* The next page continues where the last one ended.
LEMMA ReadPageStep == ASSUME IInv, ReadPage PROVE IInv'
<1>1. /\ phase = "paging" /\ fetched' = fetched \o ReadableOf(Page) /\ after' = LastOfPage
      /\ phase' \in {"paging", "replaying"}
      /\ phase' = "replaying" => Len(Page) < PageLimit
      /\ UNCHANGED <<log, relayed, link, heldFirst, replayed, list, own>>
  BY DEF ReadPage, LastPage, server
<1>2. /\ log \in Seq(Event) /\ Len(log) \in Nat /\ after \in Nat /\ after <= Len(log)
      /\ heldFirst \in Nat /\ heldFirst <= Len(log) /\ replayed = 0 /\ fetched \in Seq(Event)
      /\ LogInv
  BY <1>1 DEF IInv, TypeOK, LoadInv
<1> DEFINE m == IF after + PageLimit < Len(log) THEN after + PageLimit ELSE Len(log)
<1>3. m \in Nat /\ after <= m /\ m <= Len(log)
  BY <1>2
<1>4. Page = SubSeq(log, after + 1, m)
  BY DEF Page
<1>5. m - after < PageLimit => m = Len(log)
  BY <1>2
<1> HIDE DEF m
<1>6. /\ Page \in Seq(Event) /\ Len(Page) = m - after
      /\ \A k \in 1 .. Len(Page) : Page[k] = log[after + k]
  BY <1>2, <1>3, <1>4
<1>7. LastOfPage = m
  <2>1. CASE m = after
    <3>1. Page = <<>>
      BY <2>1, <1>2, <1>6
    <3> QED BY <2>1, <3>1 DEF LastOfPage
  <2>2. CASE m # after
    <3>1. Len(Page) \in 1 .. Len(Page) /\ Page # <<>> /\ after + Len(Page) = m /\ m \in 1 .. Len(log)
      BY <2>2, <1>2, <1>3, <1>6
    <3>2. Page[Len(Page)] = log[m]
      BY <3>1, <1>6
    <3> QED BY <3>1, <3>2, <1>2 DEF LastOfPage, LogInv
  <2> QED BY <2>1, <2>2
<1>8. fetched' = ReadableOf(SubSeq(log, 1, m))
  <2> DEFINE s == SubSeq(log, 1, after)
             t == SubSeq(log, 1, m)
  <2>1. s \in Seq(Event) /\ t \in Seq(Event) /\ Len(s) = after /\ Len(t) = m
    BY <1>2, <1>3
  <2>2. (\A k \in 1 .. after : s[k] = log[k]) /\ \A k \in 1 .. m : t[k] = log[k]
    BY <1>2, <1>3
  <2> HIDE DEF s, t
  <2>3. t = s \o Page
    <3> DEFINE u == s \o Page
    <3>1. u \in Seq(Event) /\ Len(u) = m
      <4>1. u \in Seq(Event) /\ Len(u) = Len(s) + Len(Page)
        BY <1>6, <2>1, ConcatProperties
      <4> QED BY <4>1, <1>2, <1>3, <1>6, <2>1
    <3>c. /\ \A k \in 1 .. after : u[k] = s[k]
          /\ \A k \in 1 .. Len(Page) : u[after + k] = Page[k]
      BY <1>2, <1>6, <2>1
    <3> HIDE DEF u
    <3>2. \A k \in 1 .. Len(t) : t[k] = u[k]
      <4> SUFFICES ASSUME NEW k \in 1 .. m PROVE log[k] = u[k]
        BY <2>1, <2>2
      <4>1. CASE k <= after
        BY <4>1, <1>2, <2>2, <3>c
      <4>2. CASE k > after
        <5>1. k - after \in 1 .. Len(Page) /\ after + (k - after) = k
          BY <4>2, <1>2, <1>3, <1>6
        <5>2. u[k] = Page[k - after]
          BY <5>1, <3>c
        <5>3. Page[k - after] = log[after + (k - after)]
          BY <5>1, <1>6
        <5> QED BY <5>1, <5>2, <5>3
      <4> QED BY <4>1, <4>2, <1>2
    <3>3. t = u
      BY <2>1, <3>1, <3>2, SeqEqual
    <3> QED BY <3>3 DEF u
  <2>4. ReadableOf(t) = ReadableOf(s) \o ReadableOf(Page)
    BY <1>6, <2>1, <2>3, ReadableConcat
  <2>5. fetched = ReadableOf(s)
    BY DEF IInv, LoadedWhole, s
  <2> QED BY <1>1, <2>4, <2>5 DEF t
<1>9. fetched' \in Seq(Event)
  <2>1. SubSeq(log, 1, m) \in Seq(Event)
    BY <1>2, <1>3
  <2> QED BY <1>8, <2>1, ReadableType
<1>10. TypeOK'
  <2>1. phase' \in {"off", "paging", "replaying", "ready", "failed"} /\ after' \in Nat
    BY <1>1, <1>3, <1>7
  <2>2. replayed' \in 0 .. Len(fetched')
    BY <1>1, <1>2, <1>9
  <2> QED BY <1>1, <1>9, <2>1, <2>2 DEF IInv, TypeOK, link, list, own
<1>11. LoadInv'
  BY <1>1, <1>2, <1>3, <1>7 DEF LoadInv
<1>12. LoadedWhole'
  <2>1. fetched' = ReadableOf(SubSeq(log, 1, after)')
    BY <1>1, <1>7, <1>8
  <2>2. phase' \in {"replaying", "ready"} => after' >= heldFirst'
    BY <1>1, <1>2, <1>3, <1>5, <1>6, <1>7
  <2> QED BY <2>1, <2>2 DEF LoadedWhole
<1>13. WireInv'
  BY <1>1 DEF IInv, WireInv, Ids, link
<1>14. Told' = Told
  <2>1. Told = {} /\ Told' = {}
    BY <1>1, <1>2 DEF Told
  <2> QED BY <2>1
<1>15. ListInv' /\ LogInv' /\ DraftsInv' /\ NumbersStand'
  BY <1>1, <1>14 DEF IInv, ListInv, LogInv, DraftsInv, NumbersStand, list, own
<1> QED BY <1>10, <1>11, <1>12, <1>13, <1>15 DEF IInv

\* What was fetched: the readable events up to after.
LEMMA FetchedInOrder ==
  ASSUME IInv
  PROVE  ReadableUpTo(fetched, log, after)
<1> DEFINE s == SubSeq(log, 1, after)
<1>1. log \in Seq(Event) /\ Len(log) \in Nat /\ after \in Nat /\ after <= Len(log)
  BY DEF IInv, TypeOK, LoadInv
<1>2. s \in Seq(Event) /\ Len(s) = after /\ \A i \in 1 .. after : s[i] = log[i]
  BY <1>1
<1>3. fetched = ReadableOf(s)
  BY DEF IInv, LoadedWhole
<1> HIDE DEF s
<1>4. \A i \in 1 .. Len(s) : s[i].id = i
  BY <1>1, <1>2 DEF IInv, LogInv
<1>5. ReadableUpTo(fetched, s, after)
  BY <1>2, <1>3, <1>4, ReadableInOrder
<1> QED BY <1>2, <1>5 DEF ReadableUpTo

LEMMA ReplayOneStep ==
  ASSUME IInv, ReplayOne
  PROVE  /\ IInv'
         /\ \/ threads' = threads
            \/ \E i \in 1 .. Len(log) : /\ log[i].kind = "thread" /\ threads' = Append(threads, i)
                                       /\ \A j \in Elements(threads) : j < i
<1> DEFINE e == fetched[replayed + 1]
           i == e.id
<1>1. /\ phase = "replaying" /\ replayed < Len(fetched) /\ replayed' = replayed + 1
      /\ Apply(e, FALSE)
      /\ UNCHANGED <<log, relayed, link, phase, heldFirst, after, fetched, own>>
  BY DEF ReplayOne, server
<1>2. TypeOK /\ LogInv /\ NumbersStand /\ ListIs(Told, log, title, threads, replies)
  BY DEF IInv, ListInv
<1>3. replayed \in Nat /\ Len(fetched) \in Nat /\ replayed + 1 \in 1 .. Len(fetched)
  BY <1>1, <1>2 DEF TypeOK
<1>4. i \in 1 .. Len(log) /\ e = log[i]
  <2>1. i \in 1 .. after /\ e = log[i]
    BY <1>3, FetchedInOrder DEF ReadableUpTo
  <2>2. after \in Nat /\ Len(log) \in Nat /\ after <= Len(log)
    BY DEF IInv, TypeOK, LoadInv
  <2> QED BY <2>1, <2>2
<1>5. Told = {fetched[k].id : k \in 1 .. replayed}
  BY <1>1 DEF Told
<1>6. \A j \in Told : j < i
  <2>1. \A k \in 1 .. replayed : k \in 1 .. Len(fetched) /\ k < replayed + 1
    BY <1>3
  <2>2. \A k \in 1 .. replayed : fetched[k].id < fetched[replayed + 1].id
    BY <1>3, <2>1, FetchedInOrder DEF ReadableUpTo
  <2> QED BY <1>5, <2>2
<1>7. Told' = Told \cup {i}
  <2>1. 1 .. replayed + 1 = 1 .. replayed \cup {replayed + 1}
    BY <1>3
  <2>2. Told' = {fetched[k].id : k \in 1 .. replayed + 1}
    BY <1>1 DEF Told
  <2> QED BY <1>5, <2>1, <2>2
<1> HIDE DEF i, e
<1>8. /\ ListIs(Told \cup {i}, log, title', threads', replies')
      /\ title' \in 0 .. MaxEvents /\ threads' \in Seq(Numbers) /\ replies' \in Seq(Event)
      /\ shownAs' \subseteq Numbers \X Numbers
      /\ NumbersStand'
      /\ \/ threads' = threads
         \/ /\ i \notin Told /\ log[i].kind = "thread" /\ threads' = Append(threads, i)
            /\ \A j \in Elements(threads) : j < i
  <2>1. Apply(log[i], FALSE)
    BY <1>1, <1>4
  <2> QED BY <2>1, <1>2, <1>4, <1>6, EventApplied
<1>9. TypeOK'
  BY <1>1, <1>2, <1>3, <1>8 DEF TypeOK, link, own
<1>10. LoadInv' /\ LoadedWhole' /\ WireInv'
  BY <1>1 DEF IInv, LoadInv, LoadedWhole, WireInv, Ids, link
<1>11. ListInv' /\ LogInv' /\ DraftsInv'
  BY <1>1, <1>7, <1>8 DEF IInv, ListInv, LogInv, DraftsInv, own
<1> QED BY <1>4, <1>8, <1>9, <1>10, <1>11 DEF IInv

\* With the last page replayed, what the list was told is all that can be read of
\* what reached the reader.
LEMMA ReadyStep == ASSUME IInv, Ready PROVE IInv'
<1>1. /\ phase = "replaying" /\ replayed = Len(fetched) /\ phase' = "ready"
      /\ shownAs' = shownAs \cup {<<threads[n], n>> : n \in 1 .. Len(threads)}
      /\ UNCHANGED <<log, relayed, link, heldFirst, after, fetched, replayed, title, threads, replies, own>>
  BY DEF Ready, server
<1>2. /\ TypeOK /\ ListIs(Told, log, title, threads, replies) /\ Len(log) \in Nat /\ Len(log) <= MaxEvents
      /\ after \in Nat /\ after <= Len(log) /\ log \in Seq(Event) /\ Len(fetched) \in Nat
      /\ relayed \in Nat /\ relayed <= Len(log)
  BY DEF IInv, ListInv, TypeOK, LoadInv
<1> DEFINE D == Told
           E == 1 .. after
<1>3. E \subseteq 1 .. Len(log) /\ Reached' = E
  <2>1. 1 .. relayed \subseteq lost
    BY <1>1 DEF IInv, WireInv
  <2>2. E \subseteq 1 .. Len(log)
    BY <1>2
  <2>3. relayed' = relayed /\ lost' = lost /\ after' = after /\ log' = log
    BY <1>1 DEF link
  <2>4. \A j \in 1 .. Len(log) : j <= after \/ (j <= relayed /\ j \notin lost \cup Ids(wire)') <=> j \in E
    BY <1>2, <2>1
  <2> QED BY <2>2, <2>3, <2>4 DEF Reached
<1>4. Told' = E
  BY <1>1, <1>3 DEF Told
<1>5. D \subseteq E /\ \A j \in E : Readable(log[j]) => j \in D
  <2>1. D = {fetched[k].id : k \in 1 .. Len(fetched)}
    BY <1>1 DEF Told
  <2> QED BY <2>1, FetchedInOrder DEF ReadableUpTo
<1> HIDE DEF D, E
<1>6. ListIs(D, log, title, threads, replies)
  BY <1>2 DEF D
<1>7. ListIs(E, log, title, threads, replies)
  <2> DEFINE T(X) == {j \in X : log[j].kind = "thread"}
             P(X) == {j \in X : log[j].kind = "post" /\ log[j].thread \in T(X)}
             F(X) == {j \in X : log[j].kind = "forum"}
  <2>1. \A j \in E : log[j].kind # "sealed" => j \in D
    BY <1>5 DEF Readable
  <2>2. T(D) = T(E)
    BY <1>5, <2>1
  <2>3. P(D) = P(E) /\ F(D) = F(E)
    BY <1>5, <2>1, <2>2
  <2> QED BY <1>3, <1>6, <2>2, <2>3 DEF ListIs
<1>8. ListInv'
  BY <1>1, <1>4, <1>7 DEF ListInv
<1>9. \A n \in 1 .. Len(threads) : threads[n] \in Numbers /\ n \in Numbers
  <2>1. threads \in Seq(Numbers) /\ Ascending(threads) /\ Len(threads) \in Nat
    BY <1>2 DEF TypeOK, ListIs
  <2>2. \A n \in 1 .. Len(threads) : n <= threads[n]
    BY <2>1, AscendingBound
  <2>3. \A n \in 1 .. Len(threads) : threads[n] \in Numbers
    BY <2>1
  <2> QED BY <2>1, <2>2, <2>3 DEF Numbers
<1>10. TypeOK'
  <2>1. shownAs' \subseteq Numbers \X Numbers
    BY <1>1, <1>2, <1>9 DEF TypeOK
  <2> QED BY <1>1, <1>2, <2>1 DEF TypeOK, link, own
<1>11. NumbersStand'
  <2>1. \A p \in shownAs : p[2] <= Len(threads) /\ threads[p[2]] = p[1]
    BY DEF IInv, NumbersStand
  <2>2. \A n \in 1 .. Len(threads) : n <= Len(threads)
    BY <1>2 DEF TypeOK
  <2> QED BY <1>1, <2>1, <2>2 DEF NumbersStand
<1>12. LoadInv' /\ LogInv' /\ DraftsInv'
  BY <1>1 DEF IInv, LoadInv, LogInv, DraftsInv, own
<1>13. LoadedWhole'
  BY <1>1 DEF IInv, LoadedWhole
<1>14. WireInv'
  BY <1>1 DEF IInv, WireInv, Ids, link
<1> QED BY <1>8, <1>10, <1>11, <1>12, <1>13, <1>14 DEF IInv

\* Taking the first event of the wire: what is left, and what has now reached
\* the reader.
LEMMA Taken ==
  ASSUME IInv, Take, UNCHANGED <<log, relayed, online, drops, lost, load, own>>
  PROVE  LET i == Head(wire).id
         IN /\ i \in 1 .. Len(log) /\ Head(wire) = log[i]
            /\ phase = "ready" /\ Told' = Told \cup {i}
            /\ i \in Told \/ \A j \in Told : j < i
            /\ wire' \in Seq(Event) /\ WireInv'
<1> DEFINE e == Head(wire)
           i == e.id
<1>1. online /\ wire # <<>> /\ wire' = Tail(wire) /\ wire \in Seq(Event) /\ WireInv
  BY DEF Take, IInv, TypeOK
<1>2. /\ Len(log) \in Nat /\ relayed \in Nat /\ relayed <= Len(log) /\ after \in Nat /\ after <= Len(log)
  BY DEF IInv, TypeOK, LoadInv
<1>3. /\ Len(wire) \in Nat /\ Len(wire) > 0 /\ e = wire[1]
      /\ wire' \in Seq(Event) /\ Len(wire') = Len(wire) - 1
      /\ \A k \in 1 .. Len(wire') : wire'[k] = wire[k + 1]
  BY <1>1
<1>4. i \in 1 .. relayed /\ e = log[i] /\ i \in 1 .. Len(log)
  BY <1>1, <1>2, <1>3 DEF WireInv
<1>5. phase = "ready"
  BY <1>1 DEF WireInv
<1> HIDE DEF e
<1>6. Ids(wire) = Ids(wire') \cup {i} /\ \A j \in Ids(wire') : i < j
  <2>1. \A k \in 1 .. Len(wire) : k = 1 \/ (k - 1 \in 1 .. Len(wire') /\ wire'[k - 1] = wire[k])
    BY <1>3
  <2>2. \A k \in 1 .. Len(wire') : k + 1 \in 1 .. Len(wire) /\ wire'[k] = wire[k + 1] /\ 1 < k + 1
    BY <1>3
  <2>3. 1 \in 1 .. Len(wire)
    BY <1>3
  <2>4. \A k \in 1 .. Len(wire') : i < wire'[k].id
    BY <1>1, <1>3, <2>2, <2>3 DEF WireInv
  <2>5. Ids(wire) \subseteq Ids(wire') \cup {i}
    <3>1. \A k \in 1 .. Len(wire) : wire[k].id = i \/ wire[k].id \in Ids(wire')
      BY <1>3, <2>1 DEF Ids
    <3> QED BY <3>1 DEF Ids
  <2>6. Ids(wire') \subseteq Ids(wire)
    BY <2>2 DEF Ids
  <2>7. i \in Ids(wire)
    BY <1>3, <2>3 DEF Ids
  <2> QED BY <2>4, <2>5, <2>6, <2>7 DEF Ids
<1>7. Ids(wire)' = Ids(wire')
  BY DEF Ids
<1>8. i \notin lost /\ i \notin Ids(wire')
  <2>1. i \notin lost
    BY <1>1, <1>6 DEF WireInv
  <2> QED BY <2>1, <1>4, <1>6
<1>9. Reached' = Reached \cup {i}
  BY <1>2, <1>4, <1>6, <1>7, <1>8 DEF Reached, load
<1>10. Told = Reached /\ Told' = Reached'
  BY <1>5 DEF Told, load
<1>11. i \in Reached \/ \A j \in Reached : j < i
  <2> SUFFICES ASSUME i \notin Reached, NEW j \in Reached PROVE j < i
    OBVIOUS
  <2>1. after < i
    BY <1>2, <1>4 DEF Reached
  <2>2. CASE j <= after
    BY <2>1, <2>2, <1>2, <1>4 DEF Reached
  <2>3. CASE j \in 1 .. relayed /\ j \notin lost \cup Ids(wire)
    BY <2>3, <1>1, <1>6 DEF WireInv
  <2> QED BY <2>2, <2>3, <1>2 DEF Reached
<1>12. WireInv'
  <2>1. \A k \in 1 .. Len(wire') : k + 1 \in 1 .. Len(wire) /\ wire'[k] = wire[k + 1]
    BY <1>3
  <2>2. \A k \in 1 .. Len(wire') : wire'[k].id \in 1 .. relayed /\ wire'[k] = log[wire'[k].id]
    BY <1>1, <2>1 DEF WireInv
  <2>3. \A j, k \in 1 .. Len(wire') : j < k => wire'[j].id < wire'[k].id
    <3> SUFFICES ASSUME NEW j \in 1 .. Len(wire'), NEW k \in 1 .. Len(wire'), j < k
                 PROVE  wire'[j].id < wire'[k].id
      OBVIOUS
    <3>1. j + 1 < k + 1
      BY <1>3
    <3> QED BY <3>1, <1>1, <2>1 DEF WireInv
  <2>4. lost \subseteq 1 .. relayed /\ lost \cap Ids(wire') = {}
    BY <1>1, <1>6 DEF WireInv
  <2>5. \A j \in 1 .. relayed : j \notin lost \cup Ids(wire') => \A k \in Ids(wire') : j < k
    BY <1>1, <1>6 DEF WireInv
  <2> QED BY <1>1, <1>5, <1>7, <2>2, <2>3, <2>4, <2>5 DEF WireInv, load
<1> QED BY <1>3, <1>4, <1>5, <1>9, <1>10, <1>11, <1>12 DEF e

LEMMA ReceiveStep ==
  ASSUME IInv, Receive
  PROVE  /\ IInv'
         /\ \/ threads' = threads
            \/ \E i \in 1 .. Len(log) : /\ log[i].kind = "thread" /\ threads' = Append(threads, i)
                                       /\ \A j \in Elements(threads) : j < i
<1> DEFINE i == Head(wire).id
<1>1. /\ Take /\ Apply(Head(wire), TRUE) /\ UNCHANGED <<log, relayed, online, drops, lost, load, own>>
  BY DEF Receive, server
<1>2. TypeOK /\ LogInv /\ NumbersStand /\ ListIs(Told, log, title, threads, replies)
  BY DEF IInv, ListInv
<1>3. /\ i \in 1 .. Len(log) /\ Head(wire) = log[i]
      /\ phase = "ready" /\ Told' = Told \cup {i}
      /\ i \in Told \/ \A j \in Told : j < i
      /\ wire' \in Seq(Event) /\ WireInv'
  BY <1>1, Taken
<1> HIDE DEF i
<1>4. Apply(log[i], TRUE)
  BY <1>1, <1>3
<1>5. /\ ListIs(Told \cup {i}, log, title', threads', replies')
      /\ title' \in 0 .. MaxEvents /\ threads' \in Seq(Numbers) /\ replies' \in Seq(Event)
      /\ shownAs' \subseteq Numbers \X Numbers
      /\ NumbersStand'
      /\ \/ threads' = threads
         \/ /\ i \notin Told /\ log[i].kind = "thread" /\ threads' = Append(threads, i)
            /\ \A j \in Elements(threads) : j < i
  BY <1>2, <1>3, <1>4, EventApplied
<1>6. TypeOK'
  BY <1>1, <1>2, <1>3, <1>5 DEF TypeOK, load, own
<1>7. LoadInv' /\ LoadedWhole' /\ DraftsInv' /\ LogInv'
  BY <1>1 DEF IInv, LoadInv, LoadedWhole, DraftsInv, LogInv, load, own
<1>8. ListInv'
  BY <1>1, <1>3, <1>5 DEF ListInv
<1> QED BY <1>3, <1>5, <1>6, <1>7, <1>8 DEF IInv

LEMMA ReceiveSealedStep == ASSUME IInv, ReceiveSealed PROVE IInv'
<1> DEFINE i == Head(wire).id
<1>1. Take /\ Head(wire).kind = "sealed" /\ UNCHANGED <<log, relayed, online, drops, lost, load, list, own>>
  BY DEF ReceiveSealed, server
<1>2. ListIs(Told, log, title, threads, replies)
  BY DEF IInv, ListInv
<1>3. /\ i \in 1 .. Len(log) /\ Head(wire) = log[i]
      /\ phase = "ready" /\ Told' = Told \cup {i}
      /\ wire' \in Seq(Event) /\ WireInv'
  BY <1>1, Taken
<1>4. log[i].kind = "sealed"
  BY <1>1, <1>3
<1> HIDE DEF i
<1>5. ListIs(Told \cup {i}, log, title, threads, replies)
  <2> DEFINE D == Told
             E == Told \cup {i}
             T(X) == {j \in X : log[j].kind = "thread"}
             P(X) == {j \in X : log[j].kind = "post" /\ log[j].thread \in T(X)}
             F(X) == {j \in X : log[j].kind = "forum"}
  <2>1. E \subseteq 1 .. Len(log)
    BY <1>2, <1>3 DEF ListIs
  <2>2. T(E) = T(D)
    BY <1>4
  <2>3. P(E) = P(D) /\ F(E) = F(D)
    BY <1>4, <2>2
  <2> HIDE DEF D, E
  <2>4. ListIs(D, log, title, threads, replies)
    BY <1>2 DEF D
  <2>5. ListIs(E, log, title, threads, replies)
    BY <2>1, <2>2, <2>3, <2>4 DEF ListIs
  <2> QED BY <2>5 DEF E
<1>6. ListInv'
  BY <1>1, <1>3, <1>5 DEF ListInv, list
<1>7. TypeOK'
  BY <1>1, <1>3 DEF IInv, TypeOK, load, list, own
<1>8. LoadInv' /\ LoadedWhole' /\ DraftsInv' /\ LogInv' /\ NumbersStand'
  BY <1>1 DEF IInv, LoadInv, LoadedWhole, DraftsInv, LogInv, NumbersStand, load, list, own
<1> QED BY <1>3, <1>6, <1>7, <1>8 DEF IInv

LEMMA StutterStep == ASSUME IInv, UNCHANGED vars PROVE IInv'
<1> USE DEF vars, server, link, load, list, own
<1>1. TypeOK' /\ LogInv' /\ DraftsInv' /\ LoadInv' /\ LoadedWhole' /\ NumbersStand'
  BY DEF IInv, TypeOK, LogInv, DraftsInv, LoadInv, LoadedWhole, NumbersStand
<1>2. WireInv'
  BY DEF IInv, WireInv, Ids
<1>3. Told' = Told
  BY DEF Told, Reached, Ids
<1>4. ListInv'
  BY <1>3 DEF IInv, ListInv
<1> QED BY <1>1, <1>2, <1>4 DEF IInv

\* The list of threads of a step: it grows by a later thread of the forum, if at all.
ThreadsGrow ==
  \/ threads' = threads
  \/ \E i \in 1 .. Len(log) : /\ log[i].kind = "thread" /\ threads' = Append(threads, i)
                             /\ \A j \in Elements(threads) : j < i

\* The log of a step: it grows by one event, if at all, and then the list stays.
LogExtends ==
  \/ log' = log
  \/ /\ threads' = threads
     /\ Len(log') = Len(log) + 1 /\ \A i \in 1 .. Len(log) : log'[i] = log[i]

LEMMA OthersStep ==
  ASSUME IInv, Others
  PROVE  IInv' /\ ThreadsGrow /\ LogExtends
<1>1. PICK kind \in {"forum", "thread", "post", "sealed"}, thread \in 0 .. MaxEvents :
        /\ OthersStore(kind, thread)
        /\ kind = "post" => thread \in 1 .. Len(log) /\ log[thread].kind = "thread"
  <2>1. ASSUME NEW kind \in {"forum", "thread", "sealed"}, OthersStore(kind, 0)
        PROVE  \E th \in 0 .. MaxEvents : OthersStore(kind, th)
    BY <2>1
  <2>2. ASSUME NEW t \in ThreadIds(log), OthersStore("post", t)
        PROVE  t \in 0 .. MaxEvents /\ t \in 1 .. Len(log) /\ log[t].kind = "thread"
    <3>1. t \in 1 .. Len(log) /\ log[t].kind = "thread"
      BY DEF ThreadIds, IInv, LogInv
    <3>2. Len(log) \in Nat /\ Len(log) <= MaxEvents
      BY DEF IInv, TypeOK
    <3> QED BY <3>1, <3>2
  <2> QED BY <2>1, <2>2 DEF Others
<1>2. IInv'
  BY <1>1, OthersStoreStep
<1>3. Stored(kind, thread) /\ threads' = threads
  BY <1>1 DEF OthersStore, list
<1>4. /\ Len(log') = Len(log) + 1 /\ \A i \in 1 .. Len(log) : log'[i] = log[i]
  BY <1>1, <1>3, StoredLog DEF IInv
<1> QED BY <1>2, <1>3, <1>4 DEF ThreadsGrow, LogExtends

LEMMA NextStep ==
  ASSUME IInv, [Next]_vars
  PROVE  IInv' /\ ThreadsGrow /\ LogExtends
<1>1. CASE Others
  BY <1>1, OthersStep
<1>2. CASE Relay
  <2>1. IInv'
    BY <1>2, RelayStep
  <2> QED BY <1>2, <2>1 DEF Relay, list, ThreadsGrow, LogExtends
<1>3. CASE Drop
  <2>1. IInv'
    BY <1>3, DropStep
  <2> QED BY <1>3, <2>1 DEF Drop, server, list, ThreadsGrow, LogExtends
<1>4. CASE Begin
  <2>1. IInv'
    BY <1>4, BeginStep
  <2> QED BY <1>4, <2>1 DEF Begin, server, list, ThreadsGrow, LogExtends
<1>5. CASE ReadPage
  <2>1. IInv'
    BY <1>5, ReadPageStep
  <2> QED BY <1>5, <2>1 DEF ReadPage, server, list, ThreadsGrow, LogExtends
<1>6. CASE ReplayOne
  <2>1. IInv' /\ ThreadsGrow
    BY <1>6, ReplayOneStep DEF ThreadsGrow
  <2> QED BY <1>6, <2>1 DEF ReplayOne, server, LogExtends
<1>7. CASE Ready
  <2>1. IInv'
    BY <1>7, ReadyStep
  <2> QED BY <1>7, <2>1 DEF Ready, server, ThreadsGrow, LogExtends
<1>8. CASE LoadFails
  <2>1. IInv'
    BY <1>8, LoadFailsStep
  <2> QED BY <1>8, <2>1 DEF LoadFails, server, list, ThreadsGrow, LogExtends
<1>9. CASE Subscribe
  <2>1. IInv'
    BY <1>9, SubscribeStep
  <2> QED BY <1>9, <2>1 DEF Subscribe, server, list, ThreadsGrow, LogExtends
<1>10. CASE Receive
  <2>1. IInv' /\ ThreadsGrow
    BY <1>10, ReceiveStep DEF ThreadsGrow
  <2> QED BY <1>10, <2>1 DEF Receive, server, LogExtends
<1>11. CASE ReceiveSealed
  <2>1. IInv'
    BY <1>11, ReceiveSealedStep
  <2> QED BY <1>11, <2>1 DEF ReceiveSealed, server, list, ThreadsGrow, LogExtends
<1>12. CASE TypeThread \/ \E n \in 1 .. Len(threads) : TypePost(n)
  <2>1. IInv'
    BY <1>12, DraftStep
  <2> QED BY <1>12, <2>1 DEF TypeThread, TypePost, Drafted, server, list, ThreadsGrow, LogExtends
<1>13. CASE Own
  <2>1. PICK d \in drafts : OwnStored(d) \/ OwnFails(d)
    BY <1>13 DEF Own
  <2>2. IInv'
    BY <2>1, OwnStep
  <2>3. CASE OwnFails(d)
    BY <2>2, <2>3 DEF OwnFails, server, list, ThreadsGrow, LogExtends
  <2>4. CASE OwnStored(d)
    <3>1. Stored(d.kind, d.thread) /\ threads' = threads
      BY <2>4 DEF OwnStored, list
    <3>2. /\ d.kind \in {"forum", "thread", "post", "sealed"} /\ d.thread \in 0 .. MaxEvents
          /\ d.kind = "post" => d.thread \in 1 .. Len(log) /\ log[d.thread].kind = "thread"
      BY DEF Draft, IInv, TypeOK, DraftsInv
    <3>3. /\ Len(log') = Len(log) + 1 /\ \A i \in 1 .. Len(log) : log'[i] = log[i]
      BY <3>1, <3>2, StoredLog DEF IInv
    <3> QED BY <2>2, <3>1, <3>3 DEF ThreadsGrow, LogExtends
  <2> QED BY <2>1, <2>3, <2>4
<1>14. CASE UNCHANGED vars
  <2>1. IInv'
    BY <1>14, StutterStep
  <2> QED BY <1>14, <2>1 DEF vars, server, list, ThreadsGrow, LogExtends
<1> QED BY <1>1, <1>2, <1>3, <1>4, <1>5, <1>6, <1>7, <1>8, <1>9, <1>10, <1>11, <1>12, <1>13, <1>14
        DEF Next, Loading, Listen

LEMMA Inductive == Spec => []IInv
<1>1. IInv /\ [Next]_vars => IInv'
  BY NextStep
<1> QED BY InitHolds, <1>1, PTL DEF Spec

-----------------------------------------------------------------------------
(* The theorems. *)

\* Every state is well-typed: in particular a thread is never printed with a
\* number beyond the number of events.
THEOREM TypeCorrect == Spec => []TypeOK
<1>1. IInv => TypeOK
  BY DEF IInv
<1> QED BY Inductive, <1>1, PTL

\* ForumLog's pages skip and repeat nothing, and once the forum is loaded the
\* list is what replaying everything that reached the reader gives, and a printed
\* number stands for its thread for good: for a forum of any length, pages of any
\* size, and any number of lost connections.
THEOREM ForumIsFollowed == Spec => []ForumInv
<1>1. IInv => ForumInv
  <2> SUFFICES ASSUME IInv PROVE ForumInv
    OBVIOUS
  <2>1. FollowsLog
    <3> SUFFICES ASSUME phase = "ready" PROVE FollowsLog
      BY DEF FollowsLog
    <3>1. ListIs(Reached, log, title, threads, replies)
      BY DEF IInv, ListInv, Told
    <3> DEFINE ids == [k \in 1 .. Len(replies) |-> replies[k].id]
    <3>2. Len(replies) \in Nat
      BY DEF IInv, TypeOK
    <3>3. Len(ids) = Len(replies) /\ \A k \in 1 .. Len(replies) : ids[k] = replies[k].id
      BY <3>2
    <3>4. Ascending(ids)
      <4> HIDE DEF ids
      <4> QED BY <3>1, <3>3 DEF ListIs, Ascending
    <3> QED BY <3>1, <3>4 DEF ListIs, FollowsLog, KnownThreads, KnownPosts, KnownTitles
  <2> QED BY <2>1 DEF IInv, ForumInv
<1> QED BY Inductive, <1>1, PTL

\* What a reader is shown of a forum is a transcript of its threads: each once,
\* in the order in which the forum took them, though pages and the websocket
\* deliver some twice.
THEOREM ThreadsAreATranscript == Spec => ImplementsTranscript
<1>1. Init => Promise!Init
  <2> SUFFICES ASSUME Init PROVE ThreadIds(log) = {} /\ threads = <<>>
    BY DEF Promise!Init
  <2> QED BY DEF Init, ThreadIds
<1>2. IInv /\ [Next]_vars => [Promise!Next]_(Promise!vars)
  <2> SUFFICES ASSUME IInv, [Next]_vars
               PROVE  Promise!Next \/ UNCHANGED Promise!vars
    OBVIOUS
  <2>1. ThreadsGrow /\ LogExtends /\ IInv'
    BY NextStep
  <2>2. log \in Seq(Event) /\ Len(log) \in Nat /\ \A i \in 1 .. Len(log) : log[i].id = i
    BY DEF IInv, TypeOK, LogInv
  <2>3. log' \in Seq(Event) /\ Len(log') \in Nat /\ \A i \in 1 .. Len(log') : log'[i].id = i
    <3>1. TypeOK' /\ LogInv'
      BY <2>1 DEF IInv
    <3>2. log' \in Seq(Event)
      BY <3>1 DEF TypeOK
    <3> QED BY <3>1, <3>2 DEF LogInv
  <2>4. ThreadIds(log) = {i \in 1 .. Len(log) : log[i].kind = "thread"}
    BY <2>2 DEF ThreadIds
  <2>5. ThreadIds(log)' = {i \in 1 .. Len(log') : log'[i].kind = "thread"}
    BY <2>3 DEF ThreadIds
  <2>6. CASE log' = log
    <3>1. ThreadIds(log)' = ThreadIds(log)
      BY <2>6, <2>4, <2>5
    <3>2. CASE threads' = threads
      BY <3>1, <3>2 DEF Promise!vars
    <3>3. CASE threads' # threads
      <4>1. PICK i \in 1 .. Len(log) : /\ log[i].kind = "thread" /\ threads' = Append(threads, i)
                                     /\ \A j \in Elements(threads) : j < i
        BY <2>1, <3>3 DEF ThreadsGrow
      <4>2. i \in ThreadIds(log) /\ \A j \in Promise!HeardSet : j < i
        BY <4>1, <2>4 DEF Promise!HeardSet, Elements
      <4>3. Promise!Hear
        BY <3>1, <4>1, <4>2 DEF Promise!Hear
      <4> QED BY <4>3 DEF Promise!Next
    <3> QED BY <3>2, <3>3
  <2>7. CASE log' # log
    <3>1. threads' = threads /\ Len(log') = Len(log) + 1 /\ \A i \in 1 .. Len(log) : log'[i] = log[i]
      BY <2>1, <2>7 DEF LogExtends
    <3>2. \A i \in 1 .. Len(log') : i \in 1 .. Len(log) \/ i = Len(log) + 1
      BY <2>2, <3>1
    <3>3. ThreadIds(log) \subseteq ThreadIds(log)'
      BY <2>2, <2>4, <2>5, <3>1
    <3>4. \A n \in ThreadIds(log)' \ ThreadIds(log) : n = Len(log) + 1
      BY <2>4, <2>5, <3>1, <3>2
    <3>5. \A n \in ThreadIds(log)' \ ThreadIds(log) : \A o \in ThreadIds(log) : o < n
      BY <2>2, <2>4, <3>4
    <3>6. CASE ThreadIds(log)' = ThreadIds(log)
      BY <3>1, <3>6 DEF Promise!vars
    <3>7. CASE ThreadIds(log)' # ThreadIds(log)
      <4>1. Promise!Say
        BY <3>1, <3>3, <3>5, <3>7 DEF Promise!Say
      <4> QED BY <4>1 DEF Promise!Next
    <3> QED BY <3>6, <3>7
  <2> QED BY <2>6, <2>7
<1> QED BY Inductive, <1>1, <1>2, PTL DEF Spec, ImplementsTranscript, Promise!Spec
===============================================================================
