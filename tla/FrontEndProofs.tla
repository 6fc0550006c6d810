--------------------------- MODULE FrontEndProofs ---------------------------
(***************************************************************************)
(* The front end, for every menu of suites: the search of the `use:` graph  *)
(* keeps expansion within the bound on a chain (UsesSafeHolds), the walk    *)
(* over directories has each feature once (FilesOnceHolds), and scenarios,  *)
(* generated values and bindings of a pack keep apart what they are told    *)
(* apart by (IdentitiesKeptHolds).                                          *)
(***************************************************************************)
EXTENDS FrontEnd, FiniteSetTheorems, WellFoundedInduction, TLAPS

(***************************************************************************)
(* The search of the `use:` graph.  `own` says of each frame of the stack   *)
(* to which macro of the path it belongs, by its place: an exit frame to    *)
(* its own macro, an enter frame to the one whose target it is, 0 if none.  *)
(***************************************************************************)
Leaves(frame) == frame[1] = "exit"
Rise(frame) == IF Leaves(frame) THEN 1 ELSE 0

Stepped(w, own, n) == \A j \in 1..n : own[j] = Rise(w[j]) + (IF j = 1 THEN 0 ELSE own[j - 1])
Mounting(w, own, n) == \A j, k \in 1..n : j < k => own[j] <= own[k] /\ (Leaves(w[k]) => own[j] < own[k])
Placed(w, p, own, n) == \A j \in 1..n : Leaves(w[j]) => own[j] \in 1..Len(p) /\ w[j][2] = p[own[j]]

Stacked(w, p, own) ==
    /\ own \in Seq(Nat) /\ Len(own) = Len(w)
    /\ Stepped(w, own, Len(w)) /\ Mounting(w, own, Len(w)) /\ Placed(w, p, own, Len(w))
    /\ Len(p) = IF w = <<>> THEN 0 ELSE own[Len(w)]

\* A target that waits is one of the macro it waits for, and not on the path
\* that leads there.
Waiting(graph, w, p, own) ==
    \A j \in 1..Len(w) : ~ Leaves(w[j]) /\ own[j] > 0 =>
        /\ \E k \in 1..Len(graph[p[own[j]]]) : graph[p[own[j]]][k] = w[j][2]
        /\ \A i \in 1..own[j] : p[i] # w[j][2]

\* A target n of the i-th macro of the path is known, waits, or comes next.
Seen(n, i, col, w, p, own) ==
    \/ col[n] = "black"
    \/ \E j \in 1..Len(w) : w[j] = <<"enter", n>> /\ own[j] = i
    \/ i < Len(p) /\ n = p[i + 1]

\* So does every target that was looked at; of the last one, those after k0.
Accounted(graph, col, w, p, own, k0) ==
    \A i \in 1..Len(p) : \A k \in 1..Len(graph[p[i]]) :
        i < Len(p) \/ k > k0 => Seen(graph[p[i]][k], i, col, w, p, own)

Coloured ==
    /\ \A m \in Macros : colors[m] = "gray" <=> \E i \in 1..Len(path) : path[i] = m
    /\ \A i, k \in 1..Len(path) : path[i] = path[k] => i = k
    /\ \A i \in 1..Len(path) : i > 1 => path[i] \in Targets(path[i - 1])
    /\ left > 0 => path # <<>> /\ left <= Len(uses[Top(path)])

RankedAt(m) ==
    /\ \A n \in Targets(m) : 0 < chains[n] /\ chains[n] < chains[m]
    /\ chains[m] = 1 \/ \E n \in Targets(m) : chains[m] = chains[n] + 1

Measured ==
    \A m \in Macros : /\ colors[m] = "black" <=> chains[m] > 0
                      /\ colors[m] = "black" /\ rings = {} => RankedAt(m)

Owned(own) ==
    /\ Stacked(work, path, own) /\ Waiting(uses, work, path, own)
    /\ rings = {} => Accounted(uses, colors, work, path, own, left)

Searching == GraphTypeOK /\ Coloured /\ Measured /\ CyclesReal /\ \E own : Owned(own)

LEMMA TopOf ==
    ASSUME NEW S, NEW s \in Seq(S), s # <<>>
    PROVE  /\ Len(s) \in Nat \ {0} /\ Len(s) \in DOMAIN s /\ Top(s) = s[Len(s)] /\ Top(s) \in S
           /\ Pop(s) \in Seq(S) /\ Len(Pop(s)) = Len(s) - 1
           /\ \A j \in 1..(Len(s) - 1) : Pop(s)[j] = s[j]
           /\ Len(s) = 1 => Pop(s) = <<>>
  <1>1. Len(s) \in Nat \ {0} /\ Len(s) \in DOMAIN s /\ DOMAIN s = 1..Len(s)
    OBVIOUS
  <1>2. Top(s) = s[Len(s)] /\ Top(s) \in S
    BY <1>1 DEF Top
  <1>3. Pop(s) \in Seq(S) /\ Len(Pop(s)) = Len(s) - 1 /\ \A j \in 1..(Len(s) - 1) : Pop(s)[j] = s[j]
    BY <1>1 DEF Pop
  <1>4. Len(s) = 1 => Pop(s) = <<>>
    BY <1>3
  <1> QED
    BY <1>1, <1>2, <1>3, <1>4

LEMMA NoneBelow ==
    ASSUME NEW w \in Seq(Frames), NEW p \in Seq(Macros), NEW own, Stacked(w, p, own)
    PROVE  \A j \in 1..Len(w) : own[j] \in Nat /\ own[j] <= Len(p)
  <1>1. own \in Seq(Nat) /\ Len(own) = Len(w) /\ Len(w) \in Nat /\ Mounting(w, own, Len(w))
    BY DEF Stacked
  <1> TAKE j \in 1..Len(w)
  <1>2. own[j] \in Nat /\ own[Len(w)] \in Nat
    BY <1>1
  <1>3. w # <<>>
    OBVIOUS
  <1>4. Len(p) = own[Len(w)]
    BY <1>3 DEF Stacked
  <1>5. j = Len(w) \/ own[j] <= own[Len(w)]
    <2>1. Len(w) \in 1..Len(w) /\ (j = Len(w) \/ j < Len(w))
      BY <1>1
    <2> QED
      BY <1>1, <2>1 DEF Mounting
  <1> QED
    BY <1>2, <1>4, <1>5

\* A frame less: an enter frame, or an exit frame and the end of the path.
LEMMA StackPops ==
    ASSUME NEW w \in Seq(Frames), w # <<>>, NEW p \in Seq(Macros), NEW own, Stacked(w, p, own),
           NEW q \in Seq(Macros),
           IF Leaves(Top(w)) THEN q = Pop(p) ELSE q = p
    PROVE  /\ Pop(own) \in Seq(Nat) /\ \A j \in 1..(Len(w) - 1) : Pop(own)[j] = own[j] /\ Pop(w)[j] = w[j]
           /\ own[Len(w)] = Len(p)
           /\ Stacked(Pop(w), q, Pop(own)) /\ \A i \in 1..Len(q) : i \in 1..Len(p) /\ q[i] = p[i]
           /\ Leaves(Top(w)) => /\ p # <<>> /\ Top(w)[2] = p[Len(p)]
                                /\ \A j \in 1..(Len(w) - 1) : own[j] < Len(p)
  <1> DEFINE L == Len(w)
             v == Pop(w)
             o == Pop(own)
  <1>1. /\ own \in Seq(Nat) /\ Len(own) = L /\ own[L] = Len(p)
        /\ Stepped(w, own, L) /\ Mounting(w, own, L) /\ Placed(w, p, own, L)
    BY DEF Stacked
  <1>2. /\ L \in Nat \ {0} /\ v \in Seq(Frames) /\ Len(v) = L - 1 /\ \A j \in 1..(L - 1) : v[j] = w[j]
        /\ Top(w) = w[L] /\ (L = 1 => v = <<>>)
    BY TopOf
  <1>3. own # <<>>
    BY <1>1, <1>2
  <1>4. o \in Seq(Nat) /\ Len(o) = L - 1 /\ \A j \in 1..(L - 1) : o[j] = own[j]
    BY ONLY <1>1, <1>3, TopOf
  <1>5. \A j \in 1..L : own[j] \in Nat
    BY <1>1
  <1>6. Len(p) \in Nat
    OBVIOUS
  <1> HIDE DEF L, v, o
  <1>7. Stepped(v, o, L - 1)
    <2> SUFFICES ASSUME NEW j \in 1..(L - 1)
                 PROVE  o[j] = Rise(v[j]) + (IF j = 1 THEN 0 ELSE o[j - 1])
      BY DEF Stepped
    <2>1. j \in 1..L /\ (j # 1 => j - 1 \in 1..(L - 1))
      BY <1>2
    <2>2. own[j] = Rise(w[j]) + (IF j = 1 THEN 0 ELSE own[j - 1])
      BY <1>1, <2>1 DEF Stepped
    <2> QED
      BY <1>2, <1>4, <2>1, <2>2
  <1>8. Mounting(v, o, L - 1)
    <2> SUFFICES ASSUME NEW j \in 1..(L - 1), NEW k \in 1..(L - 1), j < k
                 PROVE  o[j] <= o[k] /\ (Leaves(v[k]) => o[j] < o[k])
      BY DEF Mounting
    <2>1. j \in 1..L /\ k \in 1..L
      BY <1>2
    <2>2. own[j] <= own[k] /\ (Leaves(w[k]) => own[j] < own[k])
      BY <1>1, <2>1 DEF Mounting
    <2>3. o[j] = own[j] /\ o[k] = own[k] /\ v[k] = w[k]
      BY <1>2, <1>4
    <2> QED
      BY <2>2, <2>3
  <1>9. Leaves(w[L]) => /\ p # <<>> /\ w[L][2] = p[Len(p)]
                        /\ \A j \in 1..(L - 1) : own[j] < Len(p)
    <2> SUFFICES ASSUME Leaves(w[L])
                 PROVE  /\ p # <<>> /\ w[L][2] = p[Len(p)]
                        /\ \A j \in 1..(L - 1) : own[j] < Len(p)
      OBVIOUS
    <2>1. L \in 1..L /\ \A j \in 1..(L - 1) : j \in 1..L /\ j < L
      BY <1>2
    <2>2. own[L] \in 1..Len(p) /\ w[L][2] = p[own[L]]
      BY <1>1, <2>1 DEF Placed
    <2>3. p # <<>> /\ w[L][2] = p[Len(p)]
      BY <1>1, <2>2
    <2>4. \A j \in 1..(L - 1) : own[j] < Len(p)
      BY <1>1, <2>1 DEF Mounting
    <2> QED
      BY <2>3, <2>4
  <1>10. /\ Len(q) = Len(p) - Rise(w[L]) /\ Rise(w[L]) \in {0, 1}
         /\ \A i \in 1..Len(q) : i \in 1..Len(p) /\ q[i] = p[i]
    <2>1. CASE Leaves(w[L])
      <3>1. p # <<>> /\ q = Pop(p)
        BY <1>2, <1>9, <2>1
      <3>2. Len(q) = Len(p) - 1 /\ \A i \in 1..(Len(p) - 1) : q[i] = p[i]
        BY <3>1, TopOf
      <3>3. Rise(w[L]) = 1
        BY <2>1 DEF Rise
      <3> QED
        BY <1>6, <3>2, <3>3
    <2>2. CASE ~ Leaves(w[L])
      <3>1. q = p /\ Rise(w[L]) = 0
        BY <1>2, <2>2 DEF Rise
      <3> QED
        BY <1>6, <3>1
    <2> QED
      BY <2>1, <2>2
  <1>11. Len(q) = IF v = <<>> THEN 0 ELSE o[Len(v)]
    <2>1. L \in 1..L
      BY <1>2
    <2>2. own[L] = Rise(w[L]) + (IF L = 1 THEN 0 ELSE own[L - 1])
      BY <1>1, <2>1 DEF Stepped
    <2>3. CASE L = 1
      BY <1>1, <1>2, <1>6, <1>10, <2>2, <2>3
    <2>4. CASE L # 1
      <3>1. L - 1 \in 1..(L - 1) /\ L - 1 \in 1..L /\ v # <<>>
        BY <1>2, <2>4
      <3>2. o[Len(v)] = own[L - 1] /\ own[L - 1] \in Nat
        BY <1>2, <1>4, <1>5, <3>1
      <3> QED
        BY <1>1, <1>6, <1>10, <2>2, <2>4, <3>1, <3>2
    <2> QED
      BY <2>3, <2>4
  <1>12. Placed(v, q, o, L - 1)
    <2> SUFFICES ASSUME NEW j \in 1..(L - 1), Leaves(v[j])
                 PROVE  o[j] \in 1..Len(q) /\ v[j][2] = q[o[j]]
      BY DEF Placed
    <2>1. j \in 1..L /\ j < L /\ L \in 1..L /\ v[j] = w[j] /\ o[j] = own[j]
      BY <1>2, <1>4
    <2>2. own[j] \in 1..Len(p) /\ w[j][2] = p[own[j]]
      BY <1>1, <2>1 DEF Placed
    <2>3. own[j] <= Len(p) /\ (Leaves(w[L]) => own[j] < Len(p))
      BY <1>9, <2>2
    <2>4. own[j] <= Len(p) - Rise(w[L])
      <3>1. CASE Leaves(w[L])
        BY <1>6, <2>2, <2>3, <3>1 DEF Rise
      <3>2. CASE ~ Leaves(w[L])
        BY <1>6, <2>2, <2>3, <3>2 DEF Rise
      <3> QED
        BY <3>1, <3>2
    <2>5. own[j] \in 1..Len(q)
      BY <1>6, <1>10, <2>2, <2>4
    <2> QED
      BY <1>10, <2>1, <2>2, <2>5
  <1>13. Stacked(v, q, o)
    BY <1>2, <1>4, <1>7, <1>8, <1>11, <1>12 DEF Stacked
  <1>14. \A j \in 1..(L - 1) : o[j] = own[j] /\ v[j] = w[j]
    BY <1>2, <1>4
  <1> QED
    BY <1>1, <1>2, <1>4, <1>9, <1>10, <1>13, <1>14 DEF L, v, o

\* A frame more: an enter frame, or an exit frame and one more macro on the path.
LEMMA StackGrows ==
    ASSUME NEW w \in Seq(Frames), NEW p \in Seq(Macros), NEW own, Stacked(w, p, own),
           NEW frame \in Frames, NEW q \in Seq(Macros),
           IF Leaves(frame) THEN q = Append(p, frame[2]) ELSE q = p
    PROVE  /\ Stacked(Append(w, frame), q, Append(own, Len(q)))
           /\ \A i \in 1..Len(p) : i \in 1..Len(q) /\ q[i] = p[i]
  <1> DEFINE L == Len(w)
             v == Append(w, frame)
             o == Append(own, Len(q))
  <1>1. /\ own \in Seq(Nat) /\ Len(own) = L
        /\ Stepped(w, own, L) /\ Mounting(w, own, L) /\ Placed(w, p, own, L)
        /\ Len(p) = IF w = <<>> THEN 0 ELSE own[Len(w)]
    BY DEF Stacked
  <1>2. /\ L \in Nat /\ (w = <<>> <=> L = 0) /\ Len(p) \in Nat /\ Len(q) \in Nat
        /\ \A j \in 1..(L + 1) : j = L + 1 \/ j \in 1..L
    OBVIOUS
  <1>3. /\ v \in Seq(Frames) /\ Len(v) = L + 1 /\ v # <<>> /\ v[L + 1] = frame
        /\ \A j \in 1..L : v[j] = w[j]
    OBVIOUS
  <1>4. o \in Seq(Nat) /\ Len(o) = L + 1 /\ o[L + 1] = Len(q) /\ \A j \in 1..L : o[j] = own[j]
    BY <1>1, <1>2
  <1>5. \A j \in 1..L : own[j] \in Nat /\ own[j] <= Len(p)
    BY NoneBelow
  <1>6. /\ Len(q) = Len(p) + Rise(frame) /\ Rise(frame) \in {0, 1}
        /\ \A i \in 1..Len(p) : i \in 1..Len(q) /\ q[i] = p[i]
    <2>1. CASE Leaves(frame)
      <3>1. frame[2] \in Macros /\ q = Append(p, frame[2]) /\ Rise(frame) = 1
        BY <2>1 DEF Frames, Rise
      <3> QED
        BY <1>2, <3>1
    <2>2. CASE ~ Leaves(frame)
      <3>1. q = p /\ Rise(frame) = 0
        BY <2>2 DEF Rise
      <3> QED
        BY <1>2, <3>1
    <2> QED
      BY <2>1, <2>2
  <1>7. Leaves(frame) => Len(q) \in 1..Len(q) /\ frame[2] = q[Len(q)]
    <2>1. ASSUME Leaves(frame) PROVE Len(q) \in 1..Len(q) /\ frame[2] = q[Len(q)]
      <3>1. frame[2] \in Macros /\ q = Append(p, frame[2])
        BY <2>1 DEF Frames
      <3> QED
        BY <1>2, <3>1
    <2> QED
      BY <2>1
  <1> HIDE DEF L, v, o
  <1>8. Stepped(v, o, L + 1)
    <2> SUFFICES ASSUME NEW j \in 1..(L + 1)
                 PROVE  o[j] = Rise(v[j]) + (IF j = 1 THEN 0 ELSE o[j - 1])
      BY DEF Stepped
    <2>1. CASE j \in 1..L
      <3>1. j # 1 => j - 1 \in 1..L
        BY <1>2, <2>1
      <3>2. own[j] = Rise(w[j]) + (IF j = 1 THEN 0 ELSE own[j - 1])
        BY <1>1, <2>1 DEF Stepped
      <3> QED
        BY <1>3, <1>4, <2>1, <3>1, <3>2
    <2>2. CASE j = L + 1
      <3>1. o[j] = Len(p) + Rise(v[j]) /\ Rise(v[j]) \in {0, 1}
        BY <1>3, <1>4, <1>6, <2>2
      <3>2. CASE L = 0
        <4>1. Len(p) = 0 /\ j = 1
          BY <1>1, <1>2, <2>2, <3>2
        <4> QED
          BY <3>1, <4>1
      <3>3. CASE L # 0
        <4>1. L \in 1..L /\ j - 1 = L /\ j # 1
          BY <1>2, <2>2, <3>3
        <4>2. Len(p) = own[L]
          BY <1>1, <1>2, <3>3 DEF L
        <4>3. o[j - 1] = Len(p)
          BY <1>4, <4>1, <4>2
        <4> QED
          BY <1>2, <3>1, <4>1, <4>3
      <3> QED
        BY <3>2, <3>3
    <2> QED
      BY <1>2, <2>1, <2>2
  <1>9. Mounting(v, o, L + 1)
    <2> SUFFICES ASSUME NEW j \in 1..(L + 1), NEW k \in 1..(L + 1), j < k
                 PROVE  o[j] <= o[k] /\ (Leaves(v[k]) => o[j] < o[k])
      BY DEF Mounting
    <2>1. j \in 1..L
      BY <1>2
    <2>2. CASE k \in 1..L
      <3>1. own[j] <= own[k] /\ (Leaves(w[k]) => own[j] < own[k])
        BY <1>1, <2>1, <2>2 DEF Mounting
      <3>2. o[j] = own[j] /\ o[k] = own[k] /\ v[k] = w[k]
        BY <1>3, <1>4, <2>1, <2>2
      <3> QED
        BY <3>1, <3>2
    <2>3. CASE k = L + 1
      <3>1. /\ own[j] \in Nat /\ own[j] <= Len(p) /\ o[j] = own[j] /\ v[k] = frame
            /\ o[k] = Len(p) + Rise(frame)
        BY <1>3, <1>4, <1>5, <1>6, <2>1, <2>3
      <3>2. o[j] <= o[k]
        BY <1>2, <1>6, <3>1
      <3>3. Leaves(frame) => Rise(frame) = 1
        BY DEF Rise
      <3>4. Rise(frame) = 1 => o[j] < o[k]
        BY <1>2, <3>1
      <3> QED
        BY <3>1, <3>2, <3>3, <3>4
    <2> QED
      BY <1>2, <2>2, <2>3
  <1>10. Placed(v, q, o, L + 1)
    <2> SUFFICES ASSUME NEW j \in 1..(L + 1), Leaves(v[j])
                 PROVE  o[j] \in 1..Len(q) /\ v[j][2] = q[o[j]]
      BY DEF Placed
    <2>1. CASE j \in 1..L
      <3>1. v[j] = w[j] /\ o[j] = own[j]
        BY <1>3, <1>4, <2>1
      <3>2. own[j] \in 1..Len(p) /\ w[j][2] = p[own[j]]
        BY <1>1, <2>1, <3>1 DEF Placed
      <3> QED
        BY <1>6, <3>1, <3>2
    <2>2. CASE j = L + 1
      <3>1. v[j] = frame /\ o[j] = Len(q)
        BY <1>3, <1>4, <2>2
      <3> QED
        BY <1>7, <3>1
    <2> QED
      BY <1>2, <2>1, <2>2
  <1>11. Len(q) = o[Len(v)]
    BY <1>3, <1>4
  <1>12. Stacked(v, q, o)
    BY <1>3, <1>4, <1>8, <1>9, <1>10, <1>11 DEF Stacked
  <1> QED
    BY <1>6, <1>12 DEF v, o

LEMMA WaitingPops ==
    ASSUME NEW w \in Seq(Frames), w # <<>>, NEW p \in Seq(Macros), NEW own, Stacked(w, p, own),
           NEW q \in Seq(Macros),
           IF Leaves(Top(w)) THEN q = Pop(p) ELSE q = p,
           NEW graph, Waiting(graph, w, p, own)
    PROVE  Waiting(graph, Pop(w), q, Pop(own))
  <1> DEFINE v == Pop(w)
             o == Pop(own)
  <1>1. Stacked(v, q, o)
    BY StackPops
  <1>2. \A j \in 1..(Len(w) - 1) : o[j] = own[j] /\ v[j] = w[j]
    BY StackPops
  <1>3. \A i \in 1..Len(q) : i \in 1..Len(p) /\ q[i] = p[i]
    BY StackPops
  <1>4. v \in Seq(Frames) /\ Len(v) = Len(w) - 1 /\ Len(w) \in Nat \ {0}
    BY TopOf
  <1> HIDE DEF v, o
  <1>5. \A j \in 1..Len(v) : o[j] \in Nat /\ o[j] <= Len(q)
    BY <1>1, <1>4, NoneBelow
  <1> SUFFICES ASSUME NEW j \in 1..Len(v), ~ Leaves(v[j]), o[j] > 0
               PROVE  /\ \E k \in 1..Len(graph[q[o[j]]]) : graph[q[o[j]]][k] = v[j][2]
                      /\ \A i \in 1..o[j] : q[i] # v[j][2]
    BY DEF Waiting, v, o
  <1>6. j \in 1..Len(w) /\ j \in 1..(Len(w) - 1) /\ Len(q) \in Nat
    BY <1>4
  <1>7. v[j] = w[j] /\ o[j] = own[j]
    BY <1>2, <1>6
  <1>8. /\ \E k \in 1..Len(graph[p[own[j]]]) : graph[p[own[j]]][k] = w[j][2]
        /\ \A i \in 1..own[j] : p[i] # w[j][2]
    BY <1>6, <1>7 DEF Waiting
  <1>9. o[j] \in 1..Len(q) /\ \A i \in 1..o[j] : i \in 1..Len(q)
    BY <1>5, <1>6
  <1>10. q[o[j]] = p[own[j]] /\ \A i \in 1..o[j] : q[i] = p[i]
    BY <1>3, <1>7, <1>9
  <1> QED
    BY <1>7, <1>8, <1>10

LEMMA WaitingGrows ==
    ASSUME NEW w \in Seq(Frames), NEW p \in Seq(Macros), NEW own, Stacked(w, p, own),
           NEW frame \in Frames, NEW q \in Seq(Macros),
           IF Leaves(frame) THEN q = Append(p, frame[2]) ELSE q = p,
           NEW graph, Waiting(graph, w, p, own),
           ~ Leaves(frame) /\ q # <<>> =>
               /\ \E k \in 1..Len(graph[Top(q)]) : graph[Top(q)][k] = frame[2]
               /\ \A i \in 1..Len(q) : q[i] # frame[2]
    PROVE  Waiting(graph, Append(w, frame), q, Append(own, Len(q)))
  <1> DEFINE v == Append(w, frame)
             o == Append(own, Len(q))
  <1>1. \A i \in 1..Len(p) : i \in 1..Len(q) /\ q[i] = p[i]
    BY StackGrows
  <1>2. own \in Seq(Nat) /\ Len(own) = Len(w) /\ Len(w) \in Nat /\ Len(q) \in Nat /\ Len(p) \in Nat
    BY DEF Stacked
  <1>3. Len(v) = Len(w) + 1 /\ v[Len(w) + 1] = frame /\ \A j \in 1..Len(w) : v[j] = w[j]
    OBVIOUS
  <1>4. o[Len(w) + 1] = Len(q) /\ \A j \in 1..Len(w) : o[j] = own[j]
    BY <1>2
  <1>5. \A j \in 1..Len(w) : own[j] \in Nat /\ own[j] <= Len(p)
    BY NoneBelow
  <1> HIDE DEF v, o
  <1> SUFFICES ASSUME NEW j \in 1..Len(v), ~ Leaves(v[j]), o[j] > 0
               PROVE  /\ \E k \in 1..Len(graph[q[o[j]]]) : graph[q[o[j]]][k] = v[j][2]
                      /\ \A i \in 1..o[j] : q[i] # v[j][2]
    BY DEF Waiting, v, o
  <1>6. j \in 1..Len(w) \/ j = Len(w) + 1
    BY <1>2, <1>3
  <1>7. CASE j \in 1..Len(w)
    <2>1. v[j] = w[j] /\ o[j] = own[j]
      BY <1>3, <1>4, <1>7
    <2>2. /\ \E k \in 1..Len(graph[p[own[j]]]) : graph[p[own[j]]][k] = w[j][2]
          /\ \A i \in 1..own[j] : p[i] # w[j][2]
      BY <1>7, <2>1 DEF Waiting
    <2>5. o[j] \in Nat /\ o[j] <= Len(p) /\ o[j] > 0
      BY <1>5, <1>7, <2>1
    <2>3. o[j] \in 1..Len(p) /\ \A i \in 1..o[j] : i \in 1..Len(p)
      BY <1>2, <2>5
    <2>4. q[o[j]] = p[own[j]] /\ \A i \in 1..o[j] : q[i] = p[i]
      BY <1>1, <2>1, <2>3
    <2> QED
      BY <2>1, <2>2, <2>4
  <1>8. CASE j = Len(w) + 1
    <2>1. v[j] = frame /\ o[j] = Len(q)
      BY <1>3, <1>4, <1>8
    <2>2. q # <<>> /\ q[o[j]] = Top(q)
      BY <1>2, <2>1 DEF Top
    <2> QED
      BY <2>1, <2>2
  <1> QED
    BY <1>6, <1>7, <1>8

LEMMA GraphStarts ==
    ASSUME NEW graph \in Graphs, InitGraph(graph)
    PROVE  Searching
  <1>1. /\ uses = graph /\ colors = [m \in Macros |-> "none"] /\ chains = [m \in Macros |-> 0]
        /\ work = <<>> /\ path = <<>> /\ left = 0 /\ rings = {}
    BY DEF InitGraph
  <1>2. GraphTypeOK
    BY <1>1 DEF GraphTypeOK
  <1>3. Coloured /\ Measured /\ CyclesReal
    BY <1>1 DEF Coloured, Measured, CyclesReal
  <1>4. Stacked(work, path, <<>>) /\ Waiting(uses, work, path, <<>>)
    BY <1>1 DEF Stacked, Stepped, Mounting, Placed, Waiting
  <1>5. Accounted(uses, colors, work, path, <<>>, left)
    BY <1>1 DEF Accounted
  <1> QED
    BY <1>2, <1>3, <1>4, <1>5 DEF Searching, Owned

\* What the root and the enter frames leave alone.
LEMMA RankKept ==
    ASSUME Measured, UNCHANGED <<uses, chains>>, GraphTypeOK, GraphTypeOK',
           \A m \in Macros : (colors'[m] = "black") <=> (colors[m] = "black"),
           rings' = {} => rings = {}
    PROVE  Measured'
  <1> SUFFICES ASSUME NEW m \in Macros
               PROVE  /\ colors'[m] = "black" <=> chains'[m] > 0
                      /\ colors'[m] = "black" /\ rings' = {} => RankedAt(m)'
    BY DEF Measured
  <1>1. chains'[m] = chains[m] /\ (colors[m] = "black" <=> chains[m] > 0)
    BY DEF Measured
  <1>2. colors'[m] = "black" <=> chains'[m] > 0
    BY <1>1
  <1>3. RankedAt(m) = RankedAt(m)'
    BY DEF RankedAt, Targets
  <1>4. colors'[m] = "black" /\ rings' = {} => RankedAt(m)
    BY DEF Measured
  <1> QED
    BY <1>2, <1>3, <1>4

LEMMA RootSearches ==
    ASSUME Searching, Root
    PROVE  Searching'
  <1>1. GraphTypeOK /\ Coloured /\ Measured /\ CyclesReal
    BY DEF Searching
  <1>2. work = <<>> /\ path' = <<>> /\ uses' = uses /\ colors' = colors /\ chains' = chains
        /\ left' = left /\ rings' = rings
    BY DEF Root
  <1>3. PICK m \in Macros : colors[m] = "none" /\ work' = <<<<"enter", m>>>>
    BY DEF Root, Uncoloured
  <1>4. PICK own : Owned(own)
    BY DEF Searching
  <1>5. path = <<>>
    <2>1. Len(path) = 0
      BY <1>2, <1>4 DEF Owned, Stacked
    <2> QED
      BY <1>1, <2>1 DEF GraphTypeOK
  <1>6. <<"enter", m>> \in Frames /\ ~ Leaves(<<"enter", m>>) /\ work \in Seq(Frames) /\ path \in Seq(Macros)
    BY <1>1 DEF Frames, Leaves, GraphTypeOK
  <1>7. Append(work, <<"enter", m>>) = work'
    BY <1>2, <1>3
  <1>8. GraphTypeOK'
    <2>1. work' \in Seq(Frames)
      BY <1>3, <1>6
    <2> QED
      BY <1>1, <1>2, <2>1 DEF GraphTypeOK
  <1>9. Coloured'
    BY <1>1, <1>2, <1>5 DEF Coloured, Top, Targets
  <1>10. CyclesReal' /\ Measured'
    <2>1. Measured'
      BY <1>1, <1>2, <1>8, RankKept
    <2>2. CyclesReal'
      BY <1>1, <1>2 DEF CyclesReal, Targets
    <2> QED
      BY <2>1, <2>2
  <1>11. Stacked(work, path, own) /\ Waiting(uses, work, path, own)
    BY <1>4 DEF Owned
  <1>12. PICK o : o = Append(own, Len(path))
    OBVIOUS
  <1>13. Stacked(work', path, o)
    BY <1>6, <1>7, <1>11, <1>12, StackGrows
  <1>14. Waiting(uses, work', path, o)
    BY <1>5, <1>6, <1>7, <1>11, <1>12, WaitingGrows
  <1>15. Accounted(uses', colors', work', path', o, left')
    BY <1>2 DEF Accounted
  <1> QED
    BY <1>2, <1>5, <1>8, <1>9, <1>10, <1>13, <1>14, <1>15 DEF Searching, Owned

\* The waiting macro whose turn it is: it is not on the path.
LEMMA TurnOf ==
    ASSUME Searching, work # <<>>, Top(work)[1] = "enter", NEW own, Owned(own)
    PROVE  /\ Top(work) = <<"enter", Top(work)[2]>> /\ Top(work)[2] \in Macros /\ ~ Leaves(Top(work))
           /\ colors[Top(work)[2]] # "gray"
           /\ path # <<>> => Top(work)[2] \in Targets(Top(path))
           /\ Pop(work) \in Seq(Frames) /\ Len(Pop(work)) = Len(work) - 1 /\ Len(work) \in Nat \ {0}
  <1>1. GraphTypeOK /\ Coloured
    BY DEF Searching
  <1>2. work \in Seq(Frames) /\ path \in Seq(Macros)
    BY <1>1 DEF GraphTypeOK
  <1>3. /\ Top(work) \in Frames /\ Top(work) = work[Len(work)] /\ Len(work) \in 1..Len(work)
        /\ Pop(work) \in Seq(Frames) /\ Len(Pop(work)) = Len(work) - 1 /\ Len(work) \in Nat \ {0}
    BY <1>2, TopOf
  <1>4. PICK m \in Macros : Top(work) = <<"enter", m>>
    BY <1>3 DEF Frames
  <1>5. ~ Leaves(Top(work)) /\ Top(work)[2] = m
    BY <1>4 DEF Leaves
  <1>6. Stacked(work, path, own) /\ Waiting(uses, work, path, own)
    BY DEF Owned
  <1>7. own[Len(work)] = Len(path)
    BY <1>6 DEF Stacked
  <1>8. CASE path = <<>>
    <2>1. colors[m] # "gray"
      BY <1>1, <1>8 DEF Coloured
    <2> QED
      BY <1>3, <1>4, <1>5, <1>8, <2>1
  <1>9. CASE path # <<>>
    <2>1. Len(path) \in Nat \ {0} /\ Top(path) = path[Len(path)]
      BY <1>2, <1>9, TopOf
    <2>2. /\ \E k \in 1..Len(uses[Top(path)]) : uses[Top(path)][k] = m
          /\ \A i \in 1..Len(path) : path[i] # m
      BY <1>3, <1>5, <1>6, <1>7, <2>1 DEF Waiting
    <2>3. colors[m] # "gray"
      BY <1>1, <2>2 DEF Coloured
    <2>4. uses[Top(path)] \in Seq(Macros)
      BY <1>1, <1>2, <1>9, TopOf DEF GraphTypeOK, Graphs
    <2>5. m \in Targets(Top(path))
      BY <2>2, <2>4 DEF Targets
    <2> QED
      BY <1>3, <1>4, <1>5, <2>3, <2>5
  <1> QED
    BY <1>8, <1>9

\* What waits after a frame was taken away.
LEMMA SeenPops ==
    ASSUME NEW w \in Seq(Frames), w # <<>>, NEW p \in Seq(Macros), NEW own, Stacked(w, p, own),
           NEW q \in Seq(Macros),
           IF Leaves(Top(w)) THEN q = Pop(p) ELSE q = p,
           NEW n, NEW i, NEW col, Seen(n, i, col, w, p, own),
           ~ (Top(w) = <<"enter", n>> /\ i = Len(p)), ~ (i < Len(p) /\ n = p[i + 1])
    PROVE  Seen(n, i, col, Pop(w), q, Pop(own))
  <1>1. CASE col[n] = "black"
    BY <1>1 DEF Seen
  <1>2. CASE col[n] # "black"
    <2>1. PICK j \in 1..Len(w) : w[j] = <<"enter", n>> /\ own[j] = i
      BY <1>2 DEF Seen
    <2>2. Len(w) \in Nat \ {0} /\ Top(w) = w[Len(w)] /\ Len(Pop(w)) = Len(w) - 1
      BY TopOf
    <2>3. own[Len(w)] = Len(p)
      BY StackPops
    <2>4. j # Len(w)
      BY <2>1, <2>2, <2>3
    <2>5. j \in 1..(Len(w) - 1)
      BY <2>2, <2>4
    <2>6. Pop(own)[j] = own[j] /\ Pop(w)[j] = w[j]
      BY <2>5, StackPops
    <2> QED
      BY <2>1, <2>2, <2>5, <2>6 DEF Seen
  <1> QED
    BY <1>1, <1>2

LEMMA EnterAgainSearches ==
    ASSUME Searching, EnterAgain
    PROVE  Searching'
  <1>1. GraphTypeOK /\ Coloured /\ Measured /\ CyclesReal
    BY DEF Searching
  <1>2. /\ work' = Pop(work) /\ path' = path /\ uses' = uses /\ colors' = colors /\ chains' = chains
        /\ left' = left /\ rings' = rings
        /\ left = 0 /\ work # <<>> /\ Top(work)[1] = "enter" /\ colors[Top(work)[2]] # "none"
    BY DEF EnterAgain
  <1>3. PICK own : Owned(own)
    BY DEF Searching
  <1>4. PICK m \in Macros : Top(work) = <<"enter", m>> /\ ~ Leaves(Top(work))
    BY <1>2, <1>3, TurnOf
  <1>5. colors[m] # "gray" /\ work' \in Seq(Frames) /\ Top(work)[2] = m
    BY <1>2, <1>3, <1>4, TurnOf
  <1>6. colors[m] = "black"
    BY <1>1, <1>2, <1>5 DEF GraphTypeOK
  <1>7. GraphTypeOK'
    BY <1>1, <1>2, <1>5 DEF GraphTypeOK
  <1>8. Coloured'
    BY <1>1, <1>2 DEF Coloured, Top, Targets
  <1>9. Measured'
    BY <1>1, <1>2, <1>7, RankKept
  <1>10. CyclesReal'
    BY <1>1, <1>2 DEF CyclesReal, Targets
  <1>11. Stacked(work, path, own) /\ Waiting(uses, work, path, own)
         /\ (rings = {} => Accounted(uses, colors, work, path, own, left))
    BY <1>3 DEF Owned
  <1>12. work \in Seq(Frames) /\ path \in Seq(Macros)
    BY <1>1 DEF GraphTypeOK
  <1>13. PICK o : o = Pop(own)
    OBVIOUS
  <1>14. Stacked(work', path, o) /\ Waiting(uses, work', path, o)
    BY <1>2, <1>4, <1>11, <1>12, <1>13, StackPops, WaitingPops
  <1>15. ASSUME rings = {}
         PROVE  Accounted(uses, colors, work', path, o, 0)
    <2> SUFFICES ASSUME NEW i \in 1..Len(path), NEW k \in 1..Len(uses[path[i]])
                 PROVE  Seen(uses[path[i]][k], i, colors, work', path, o)
      BY DEF Accounted
    <2>1. PICK n : n = uses[path[i]][k]
      OBVIOUS
    <2>2. Seen(n, i, colors, work, path, own)
      BY <1>2, <1>11, <1>15, <2>1 DEF Accounted
    <2>3. CASE Top(work) = <<"enter", n>>
      <3>1. n = m
        BY <1>4, <2>3
      <3> QED
        BY <1>6, <2>1, <3>1 DEF Seen
    <2>4. CASE i < Len(path) /\ n = path[i + 1]
      BY <2>1, <2>4 DEF Seen
    <2>5. CASE Top(work) # <<"enter", n>> /\ ~ (i < Len(path) /\ n = path[i + 1])
      <3>1. Seen(n, i, colors, Pop(work), path, Pop(own))
        BY <1>2, <1>4, <1>11, <1>12, <2>2, <2>5, SeenPops
      <3> QED
        BY <1>2, <1>13, <2>1, <3>1
    <2> QED
      BY <2>3, <2>4, <2>5
  <1> QED
    BY <1>2, <1>7, <1>8, <1>9, <1>10, <1>14, <1>15 DEF Searching, Owned

LEMMA EnterSearches ==
    ASSUME Searching, Enter
    PROVE  Searching'
  <1>1. GraphTypeOK /\ Coloured /\ Measured /\ CyclesReal
    BY DEF Searching
  <1>2. /\ uses' = uses /\ chains' = chains /\ rings' = rings
        /\ left = 0 /\ work # <<>> /\ Top(work)[1] = "enter" /\ colors[Top(work)[2]] = "none"
    BY DEF Enter
  <1>3. PICK own : Owned(own)
    BY DEF Searching
  <1>4. PICK m \in Macros : Top(work) = <<"enter", m>> /\ ~ Leaves(Top(work)) /\ Top(work)[2] = m
    BY <1>2, <1>3, TurnOf
  <1>5. /\ colors' = [colors EXCEPT ![m] = "gray"] /\ path' = Append(path, m)
        /\ work' = Append(Pop(work), <<"exit", m>>) /\ left' = Len(uses[m]) /\ colors[m] = "none"
    BY <1>2, <1>4 DEF Enter
  <1>6. Pop(work) \in Seq(Frames) /\ (path # <<>> => m \in Targets(Top(path)))
    BY <1>2, <1>3, <1>4, TurnOf
  <1>7. work \in Seq(Frames) /\ path \in Seq(Macros) /\ uses[m] \in Seq(Macros) /\ Len(path) \in Nat
    BY <1>1 DEF GraphTypeOK, Graphs
  <1>8. <<"exit", m>> \in Frames /\ Leaves(<<"exit", m>>) /\ <<"exit", m>>[2] = m
    BY DEF Frames, Leaves
  <1>9. /\ path' \in Seq(Macros) /\ Len(path') = Len(path) + 1 /\ path'[Len(path) + 1] = m
        /\ \A i \in 1..Len(path) : path'[i] = path[i]
        /\ \A i \in 1..Len(path') : i \in 1..Len(path) \/ i = Len(path) + 1
    BY <1>5, <1>7
  <1>10. \A n \in Macros : colors'[n] = IF n = m THEN "gray" ELSE colors[n]
    BY <1>1, <1>5 DEF GraphTypeOK
  <1>11. GraphTypeOK'
    <2>1. work' \in Seq(Frames)
      BY <1>5, <1>6, <1>8
    <2>2. colors' \in [Macros -> {"none", "gray", "black"}] /\ left' \in Nat
      BY <1>1, <1>5, <1>7 DEF GraphTypeOK
    <2> QED
      BY <1>1, <1>2, <1>9, <2>1, <2>2 DEF GraphTypeOK
  <1>12. \A i \in 1..Len(path) : path[i] # m
    BY <1>1, <1>5 DEF Coloured
  <1>13. Coloured'
    <2>1. ASSUME NEW n \in Macros
          PROVE  colors'[n] = "gray" <=> \E i \in 1..Len(path') : path'[i] = n
      <3>1. CASE n = m
        <4>1. Len(path) + 1 \in 1..Len(path')
          BY <1>7, <1>9
        <4> QED
          BY <1>9, <1>10, <3>1, <4>1
      <3>2. CASE n # m
        <4>1. colors[n] = "gray" <=> \E i \in 1..Len(path) : path[i] = n
          BY <1>1 DEF Coloured
        <4>2. (\E i \in 1..Len(path) : path[i] = n) => \E i \in 1..Len(path') : path'[i] = n
          <5>1. \A i \in 1..Len(path) : i \in 1..Len(path')
            BY <1>7, <1>9
          <5> QED
            BY <1>9, <5>1
        <4>3. (\E i \in 1..Len(path') : path'[i] = n) => \E i \in 1..Len(path) : path[i] = n
          BY <1>9, <3>2
        <4> QED
          BY <1>10, <3>2, <4>1, <4>2, <4>3
      <3> QED
        BY <3>1, <3>2
    <2>2. ASSUME NEW i \in 1..Len(path'), NEW k \in 1..Len(path'), path'[i] = path'[k]
          PROVE  i = k
      <3>1. CASE i \in 1..Len(path) /\ k \in 1..Len(path)
        BY <1>1, <1>9, <2>2, <3>1 DEF Coloured
      <3>2. CASE i \in 1..Len(path) /\ k = Len(path) + 1
        BY <1>9, <1>12, <2>2, <3>2
      <3>3. CASE k \in 1..Len(path) /\ i = Len(path) + 1
        BY <1>9, <1>12, <2>2, <3>3
      <3> QED
        BY <1>9, <3>1, <3>2, <3>3
    <2>3. ASSUME NEW i \in 1..Len(path'), i > 1
          PROVE  path'[i] \in {uses[path'[i - 1]][k] : k \in DOMAIN uses[path'[i - 1]]}
      <3>1. CASE i \in 1..Len(path)
        <4>1. i - 1 \in 1..Len(path)
          BY <1>7, <2>3, <3>1
        <4>2. path[i] \in Targets(path[i - 1])
          BY <1>1, <2>3, <3>1 DEF Coloured
        <4> QED
          BY <1>9, <3>1, <4>1, <4>2 DEF Targets
      <3>2. CASE i = Len(path) + 1
        <4>1. path # <<>> /\ i - 1 = Len(path) /\ Len(path) \in 1..Len(path)
          BY <1>7, <2>3, <3>2
        <4>2. m \in Targets(path[Len(path)])
          BY <1>6, <4>1 DEF Top
        <4> QED
          BY <1>9, <3>2, <4>1, <4>2 DEF Targets
      <3> QED
        BY <1>9, <3>1, <3>2
    <2>4. path' # <<>> /\ Top(path') = m /\ left' <= Len(uses[m])
      BY <1>5, <1>7, <1>9 DEF Top
    <2> QED
      BY <1>2, <2>1, <2>2, <2>3, <2>4 DEF Coloured, Targets
  <1>14. Measured'
    <2>1. \A n \in Macros : (colors'[n] = "black") <=> (colors[n] = "black")
      BY <1>5, <1>10
    <2> QED
      BY <1>1, <1>2, <1>11, <2>1, RankKept
  <1>15. CyclesReal'
    BY <1>1, <1>2 DEF CyclesReal, Targets
  <1>16. Stacked(work, path, own) /\ Waiting(uses, work, path, own)
         /\ (rings = {} => Accounted(uses, colors, work, path, own, left))
    BY <1>3 DEF Owned
  <1>17. PICK v, o : v = Pop(work) /\ o = Pop(own)
    OBVIOUS
  <1>18. v \in Seq(Frames) /\ Stacked(v, path, o) /\ Waiting(uses, v, path, o)
    BY <1>2, <1>4, <1>6, <1>7, <1>16, <1>17, StackPops, WaitingPops
  <1>19. PICK u : u = Append(o, Len(path'))
    OBVIOUS
  <1>20. Stacked(work', path', u)
    BY <1>5, <1>7, <1>8, <1>9, <1>17, <1>18, <1>19, StackGrows
  <1>21. Waiting(uses, work', path', u)
    BY <1>5, <1>7, <1>8, <1>9, <1>17, <1>18, <1>19, WaitingGrows
  <1>22. ASSUME rings = {}
         PROVE  Accounted(uses, colors', work', path', u, left')
    <2> SUFFICES ASSUME NEW i \in 1..Len(path'), NEW k \in 1..Len(uses[path'[i]]),
                        i < Len(path') \/ k > left'
                 PROVE  Seen(uses[path'[i]][k], i, colors', work', path', u)
      BY DEF Accounted
    <2>1. i \in 1..Len(path)
      <3>1. CASE i = Len(path) + 1
        <4>1. path'[i] = m /\ ~ (i < Len(path'))
          BY <1>7, <1>9, <3>1
        <4>2. ~ (k > left')
          BY <1>5, <1>7, <4>1
        <4> QED
          BY <4>1, <4>2
      <3> QED
        BY <1>9, <3>1
    <2>2. path'[i] = path[i]
      BY <1>9, <2>1
    <2>3. PICK n : n = uses[path[i]][k]
      OBVIOUS
    <2>4. Seen(n, i, colors, work, path, own)
      <3>1. k > left
        BY <1>2
      <3> QED
        BY <1>16, <1>22, <2>1, <2>2, <2>3, <3>1 DEF Accounted
    <2>5. i \in Nat /\ i < Len(path')
      BY <1>7, <1>9, <2>1
    <2>6. CASE Top(work) = <<"enter", n>> /\ i = Len(path)
      <3>1. n = path'[i + 1]
        BY <1>4, <1>9, <2>6
      <3> QED
        BY <2>2, <2>3, <2>5, <3>1 DEF Seen
    <2>7. CASE i < Len(path) /\ n = path[i + 1]
      <3>1. i + 1 \in 1..Len(path)
        BY <1>7, <2>1, <2>7
      <3>2. n = path'[i + 1]
        BY <1>9, <2>7, <3>1
      <3> QED
        BY <2>2, <2>3, <2>5, <3>2 DEF Seen
    <2>8. CASE ~ (Top(work) = <<"enter", n>> /\ i = Len(path)) /\ ~ (i < Len(path) /\ n = path[i + 1])
      <3>1. Seen(n, i, colors, v, path, o)
        BY <1>2, <1>4, <1>7, <1>16, <1>17, <2>4, <2>8, SeenPops
      <3>2. CASE colors[n] = "black"
        <4>1. uses[path[i]] \in Seq(Macros)
          <5>1. path[i] \in Macros
            BY <1>7, <2>1
          <5> QED
            BY <1>1, <5>1 DEF GraphTypeOK, Graphs
        <4>2. n \in Macros
          BY <2>2, <2>3, <4>1
        <4>3. colors'[n] = "black"
          BY <1>5, <1>10, <3>2, <4>2
        <4> QED
          BY <2>2, <2>3, <4>3 DEF Seen
      <3>3. CASE colors[n] # "black"
        <4>1. PICK j \in 1..Len(v) : v[j] = <<"enter", n>> /\ o[j] = i
          BY <2>8, <3>1, <3>3 DEF Seen
        <4>2. o \in Seq(Nat) /\ Len(o) = Len(v)
          BY <1>18 DEF Stacked
        <4>3. j \in 1..Len(work') /\ work'[j] = v[j]
          BY <1>5, <1>8, <1>17, <1>18
        <4>4. u[j] = o[j]
          BY <1>9, <1>19, <4>2
        <4> QED
          BY <2>2, <2>3, <4>1, <4>3, <4>4 DEF Seen
      <3> QED
        BY <3>2, <3>3
    <2> QED
      BY <2>6, <2>7, <2>8
  <1> QED
    BY <1>2, <1>11, <1>13, <1>14, <1>15, <1>20, <1>21, <1>22 DEF Searching, Owned

LEMMA LookSearches ==
    ASSUME Searching, Look
    PROVE  Searching'
  <1>1. GraphTypeOK /\ Coloured /\ Measured /\ CyclesReal
    BY DEF Searching
  <1>2. /\ left > 0 /\ left' = left - 1 /\ uses' = uses /\ colors' = colors /\ chains' = chains
        /\ path' = path
    BY DEF Look
  <1>3. PICK own : Owned(own)
    BY DEF Searching
  <1>4. /\ work \in Seq(Frames) /\ path \in Seq(Macros) /\ left \in Nat /\ path # <<>>
        /\ left <= Len(uses[Top(path)])
    BY <1>1, <1>2 DEF GraphTypeOK, Coloured
  <1>5. Len(path) \in Nat \ {0} /\ Top(path) = path[Len(path)] /\ Top(path) \in Macros
    BY <1>4, TopOf
  <1>6. uses[Top(path)] \in Seq(Macros)
    BY <1>1, <1>5 DEF GraphTypeOK, Graphs
  <1>7. left \in 1..Len(uses[Top(path)]) /\ left \in DOMAIN uses[Top(path)]
    BY <1>2, <1>4, <1>6
  <1>8. PICK n \in Macros : n = uses[Top(path)][left]
    BY <1>6, <1>7
  <1>9. n \in Targets(Top(path))
    BY <1>7, <1>8 DEF Targets
  <1>10. /\ rings' = IF colors[n] = "gray" THEN rings \cup {RingFrom(n)} ELSE rings
         /\ work' = IF colors[n] = "none" THEN Append(work, <<"enter", n>>) ELSE work
    BY <1>8 DEF Look
  <1>11. <<"enter", n>> \in Frames /\ ~ Leaves(<<"enter", n>>) /\ <<"enter", n>>[2] = n
    BY DEF Frames, Leaves
  <1>12. ASSUME colors[n] = "gray"
         PROVE  RingFrom(n) \subseteq Macros /\ RingFrom(n) # {}
                /\ \A m \in RingFrom(n) : Targets(m) \cap RingFrom(n) # {}
    <2>1. \E i \in DOMAIN path : path[i] = n
      BY <1>1, <1>4, <1>12 DEF Coloured
    <2>2. PICK pos \in DOMAIN path : path[pos] = n /\ RingFrom(n) = {path[i] : i \in pos..Len(path)}
      BY <2>1, Zenon DEF RingFrom
    <2>3. pos \in 1..Len(path) /\ \A i \in pos..Len(path) : i \in 1..Len(path)
      BY <1>4, <1>5, <2>2
    <2>4. n \in RingFrom(n)
      <3>1. pos \in pos..Len(path)
        BY <1>5, <2>3
      <3> QED
        BY <2>2, <3>1
    <2>5. ASSUME NEW m \in RingFrom(n) PROVE Targets(m) \cap RingFrom(n) # {}
      <3>1. PICK i \in pos..Len(path) : m = path[i]
        BY <2>2
      <3>2. CASE i = Len(path)
        BY <1>5, <1>9, <2>4, <3>1, <3>2
      <3>3. CASE i # Len(path)
        <4>1. i + 1 \in pos..Len(path) /\ i + 1 \in 1..Len(path) /\ i + 1 > 1 /\ (i + 1) - 1 = i
          BY <1>5, <2>3, <3>1, <3>3
        <4>2. path[i + 1] \in Targets(path[i])
          BY <1>1, <4>1 DEF Coloured
        <4>3. path[i + 1] \in RingFrom(n)
          BY <2>2, <4>1
        <4> QED
          BY <3>1, <4>2, <4>3
      <3> QED
        BY <3>2, <3>3
    <2>6. RingFrom(n) \subseteq Macros
      BY <1>4, <2>2, <2>3
    <2> QED
      BY <2>4, <2>5, <2>6
  <1>13. GraphTypeOK'
    <2>1. work' \in Seq(Frames)
      BY <1>4, <1>10, <1>11
    <2>2. rings' \subseteq SUBSET Macros
      BY <1>1, <1>10, <1>12 DEF GraphTypeOK
    <2>3. left' \in Nat
      BY <1>2, <1>4
    <2> QED
      BY <1>1, <1>2, <2>1, <2>2, <2>3 DEF GraphTypeOK
  <1>14. Coloured'
    <2>1. left' > 0 => path # <<>> /\ left' <= Len(uses[Top(path)])
      BY <1>2, <1>4, <1>6
    <2> QED
      BY <1>1, <1>2, <2>1 DEF Coloured, Targets, Top
  <1>15. rings' = {} => rings = {} /\ colors[n] # "gray"
    BY <1>10
  <1>16. Measured'
    BY <1>1, <1>2, <1>13, <1>15, RankKept
  <1>17. CyclesReal'
    <2>1. \A ring \in rings' : ring \in rings \/ (colors[n] = "gray" /\ ring = RingFrom(n))
      BY <1>10
    <2>2. \A ring \in rings' : ring # {} /\ \A m \in ring : Targets(m) \cap ring # {}
      BY <1>1, <1>12, <2>1 DEF CyclesReal
    <2> QED
      BY <1>2, <2>2 DEF CyclesReal, Targets
  <1>18. Stacked(work, path, own) /\ Waiting(uses, work, path, own)
         /\ (rings = {} => Accounted(uses, colors, work, path, own, left))
    BY <1>3 DEF Owned
  <1>19. own \in Seq(Nat) /\ Len(own) = Len(work) /\ Len(work) \in Nat
    BY <1>4, <1>18 DEF Stacked
  <1>20. \A i \in 1..Len(path) : uses[path[i]] \in Seq(Macros)
    BY <1>1, <1>4 DEF GraphTypeOK, Graphs
  <1>21. ASSUME NEW w, NEW o, rings' = {},
                \A i, x : Seen(x, i, colors, work, path, own) => Seen(x, i, colors, w, path, o),
                Seen(n, Len(path), colors, w, path, o)
         PROVE  Accounted(uses, colors, w, path, o, left - 1)
    <2> SUFFICES ASSUME NEW i \in 1..Len(path), NEW k \in 1..Len(uses[path[i]]),
                        i < Len(path) \/ k > left - 1
                 PROVE  Seen(uses[path[i]][k], i, colors, w, path, o)
      BY DEF Accounted
    <2>1. k \in Nat /\ (k > left \/ k = left \/ i < Len(path))
      BY <1>4, <1>20
    <2>2. CASE k > left \/ i < Len(path)
      BY <1>15, <1>18, <1>21, <2>2 DEF Accounted
    <2>3. CASE k = left /\ i = Len(path)
      BY <1>5, <1>8, <1>21, <2>3
    <2> QED
      BY <1>5, <2>1, <2>2, <2>3
  <1>22. CASE colors[n] = "none"
    <2>1. work' = Append(work, <<"enter", n>>)
      BY <1>10, <1>22
    <2>2. PICK o : o = Append(own, Len(path))
      OBVIOUS
    <2>3. Stacked(work', path, o)
      BY <1>4, <1>11, <1>18, <2>1, <2>2, StackGrows
    <2>4. Waiting(uses, work', path, o)
      <3>1. \E k \in 1..Len(uses[Top(path)]) : uses[Top(path)][k] = n
        BY <1>7, <1>8
      <3>2. \A i \in 1..Len(path) : path[i] # n
        BY <1>1, <1>22 DEF Coloured
      <3> QED
        BY <1>4, <1>11, <1>18, <2>1, <2>2, <3>1, <3>2, WaitingGrows
    <2>5. /\ Len(work') = Len(work) + 1 /\ work'[Len(work) + 1] = <<"enter", n>>
          /\ \A j \in 1..Len(work) : work'[j] = work[j] /\ j \in 1..Len(work')
          /\ Len(work) + 1 \in 1..Len(work')
      BY <1>4, <1>11, <1>19, <2>1
    <2>6. o[Len(work) + 1] = Len(path) /\ \A j \in 1..Len(work) : o[j] = own[j]
      BY <1>5, <1>19, <2>2
    <2>7. \A i, x : Seen(x, i, colors, work, path, own) => Seen(x, i, colors, work', path, o)
      BY <2>5, <2>6 DEF Seen
    <2>8. Seen(n, Len(path), colors, work', path, o)
      BY <2>5, <2>6 DEF Seen
    <2>9. rings' = {} => Accounted(uses, colors, work', path, o, left - 1)
      BY <1>21, <2>7, <2>8
    <2> QED
      BY <1>2, <1>13, <1>14, <1>16, <1>17, <2>3, <2>4, <2>9 DEF Searching, Owned
  <1>23. CASE colors[n] # "none"
    <2>1. work' = work
      BY <1>10, <1>23
    <2>2. ASSUME rings' = {} PROVE Seen(n, Len(path), colors, work, path, own)
      <3>1. colors[n] = "black"
        BY <1>1, <1>15, <1>23, <2>2 DEF GraphTypeOK
      <3> QED
        BY <3>1 DEF Seen
    <2>3. rings' = {} => Accounted(uses, colors, work, path, own, left - 1)
      BY <1>21, <2>2
    <2> QED
      BY <1>2, <1>13, <1>14, <1>16, <1>17, <1>18, <2>1, <2>3 DEF Searching, Owned
  <1> QED
    BY <1>22, <1>23

LEMMA ExitSearches ==
    ASSUME Searching, Exit
    PROVE  Searching'
  <1>1. GraphTypeOK /\ Coloured /\ Measured /\ CyclesReal
    BY DEF Searching
  <1>2. /\ left = 0 /\ work # <<>> /\ Top(work)[1] = "exit"
        /\ uses' = uses /\ left' = left /\ rings' = rings /\ path' = Pop(path) /\ work' = Pop(work)
    BY DEF Exit
  <1>3. PICK own : Owned(own)
    BY DEF Searching
  <1>4. Stacked(work, path, own) /\ Waiting(uses, work, path, own)
        /\ (rings = {} => Accounted(uses, colors, work, path, own, left))
    BY <1>3 DEF Owned
  <1>5. work \in Seq(Frames) /\ path \in Seq(Macros)
    BY <1>1 DEF GraphTypeOK
  <1>6. Leaves(Top(work)) /\ Top(work) # <<"enter", Top(work)[2]>>
    BY <1>2 DEF Leaves
  <1>7. path # <<>>
    <2>1. own \in Seq(Nat) /\ Placed(work, path, own, Len(work))
      BY <1>4 DEF Stacked
    <2>2. Len(work) \in 1..Len(work) /\ Top(work) = work[Len(work)]
      BY <1>2, <1>5, TopOf
    <2>3. own[Len(work)] \in 1..Len(path)
      BY <1>6, <2>1, <2>2 DEF Placed
    <2> QED
      BY <2>3
  <1>8. /\ path' \in Seq(Macros) /\ Len(path') = Len(path) - 1 /\ Len(path) \in Nat \ {0}
        /\ \A i \in 1..(Len(path) - 1) : path'[i] = path[i]
    BY <1>2, <1>5, <1>7, TopOf
  <1>9. PICK m : m = Top(work)[2]
    OBVIOUS
  <1>10. m = path[Len(path)] /\ \A j \in 1..(Len(work) - 1) : own[j] < Len(path)
    BY <1>2, <1>4, <1>5, <1>6, <1>8, <1>9, StackPops
  <1>11. m \in Macros /\ colors[m] = "gray"
    <2>1. Len(path) \in 1..Len(path)
      BY <1>8
    <2> QED
      BY <1>1, <1>5, <1>10, <2>1 DEF Coloured
  <1>12. PICK c \in {0} \cup {chains[n] : n \in Targets(m)} :
            Longest(m, c) /\ chains' = [chains EXCEPT ![m] = 1 + c]
    BY <1>9 DEF Exit
  <1>13. colors' = [colors EXCEPT ![m] = "black"]
    BY <1>9 DEF Exit
  <1>14. \A i \in 1..Len(path) : uses[path[i]] \in Seq(Macros)
    BY <1>1, <1>5 DEF GraphTypeOK, Graphs
  <1>15. \A n \in Macros : uses[n] \in Seq(Macros) /\ Targets(n) \subseteq Macros /\ chains[n] \in Nat
    BY <1>1 DEF GraphTypeOK, Graphs, Targets
  <1>16. c \in Nat /\ (c = 0 \/ \E n \in Targets(m) : c = chains[n])
         /\ \A n \in Targets(m) : chains[n] <= c
    BY <1>11, <1>12, <1>15 DEF Longest
  <1>17. \A n \in Macros : /\ chains'[n] = IF n = m THEN 1 + c ELSE chains[n]
                           /\ colors'[n] = IF n = m THEN "black" ELSE colors[n]
    BY <1>1, <1>12, <1>13 DEF GraphTypeOK
  <1>18. GraphTypeOK'
    <2>1. work' \in Seq(Frames)
      BY <1>2, <1>5, TopOf
    <2>2. chains' \in [Macros -> Nat] /\ colors' \in [Macros -> {"none", "gray", "black"}]
      <3>1. 1 + c \in Nat
        BY <1>16
      <3> QED
        BY <1>1, <1>12, <1>13, <3>1 DEF GraphTypeOK
    <2> QED
      BY <1>1, <1>2, <1>8, <2>1, <2>2 DEF GraphTypeOK
  <1>19. Coloured'
    <2>1. \A i \in 1..Len(path') : i \in 1..Len(path) /\ i # Len(path) /\ path'[i] = path[i]
                                   /\ (i > 1 => i - 1 \in 1..Len(path'))
      BY <1>8
    <2>2. Len(path) \in 1..Len(path) /\ \A i \in 1..Len(path) : i = Len(path) \/ i \in 1..Len(path')
      BY <1>8
    <2>3. \A i \in 1..Len(path') : path'[i] # m
      BY <1>1, <1>10, <2>1, <2>2 DEF Coloured
    <2>4. ASSUME NEW n \in Macros
          PROVE  colors'[n] = "gray" <=> \E i \in 1..Len(path') : path'[i] = n
      <3>1. CASE n = m
        BY <1>17, <2>3, <3>1
      <3>2. CASE n # m
        <4>1. colors'[n] = "gray" <=> \E i \in 1..Len(path) : path[i] = n
          BY <1>1, <1>17, <3>2 DEF Coloured
        <4>2. (\E i \in 1..Len(path) : path[i] = n) <=> \E i \in 1..Len(path') : path'[i] = n
          BY <1>10, <2>1, <2>2, <3>2
        <4> QED
          BY <4>1, <4>2
      <3> QED
        BY <3>1, <3>2
    <2>5. \A i, k \in 1..Len(path') : path'[i] = path'[k] => i = k
      BY <1>1, <2>1 DEF Coloured
    <2>6. ASSUME NEW i \in 1..Len(path'), i > 1
          PROVE  path'[i] \in {uses[path'[i - 1]][k] : k \in DOMAIN uses[path'[i - 1]]}
      <3>1. path[i] \in Targets(path[i - 1]) /\ path'[i] = path[i] /\ path'[i - 1] = path[i - 1]
        BY <1>1, <2>1, <2>6 DEF Coloured
      <3> QED
        BY <3>1 DEF Targets
    <2> QED
      BY <1>2, <2>4, <2>5, <2>6 DEF Coloured, Targets
  <1>20. CyclesReal'
    BY <1>1, <1>2 DEF CyclesReal, Targets
  <1>21. ASSUME rings = {}, NEW n \in Targets(m) PROVE colors[n] = "black" /\ chains[n] > 0
    <2>1. PICK k \in 1..Len(uses[m]) : n = uses[m][k]
      BY <1>11, <1>15 DEF Targets
    <2>2. Len(path) \in 1..Len(path) /\ k > left
      BY <1>2, <1>8, <1>11, <1>15
    <2>3. Seen(n, Len(path), colors, work, path, own)
      BY <1>4, <1>10, <1>21, <2>1, <2>2 DEF Accounted
    <2>4. ASSUME NEW j \in 1..Len(work), work[j] = <<"enter", n>>, own[j] = Len(path)
          PROVE  FALSE
      <3>1. Top(work) = work[Len(work)] /\ Len(work) \in Nat
        BY <1>2, <1>5, TopOf
      <3>2. j # Len(work)
        BY <1>2, <2>4, <3>1
      <3>3. own[j] < Len(path)
        BY <1>10, <3>1, <3>2
      <3> QED
        BY <1>8, <2>4, <3>3
    <2>5. ~ (Len(path) < Len(path))
      BY <1>8
    <2>6. colors[n] = "black"
      BY <2>3, <2>4, <2>5 DEF Seen
    <2>7. n \in Macros
      BY <1>11, <1>15
    <2> QED
      BY <1>1, <2>6, <2>7 DEF Measured
  <1>22. chains[m] = 0
    <2>1. ~ (chains[m] > 0)
      BY <1>1, <1>11 DEF Measured
    <2> QED
      BY <1>11, <1>15, <2>1
  <1>23. Measured'
    <2> SUFFICES ASSUME NEW n \in Macros
                 PROVE  /\ colors'[n] = "black" <=> chains'[n] > 0
                        /\ colors'[n] = "black" /\ rings' = {} => RankedAt(n)'
      BY DEF Measured
    <2>1. colors'[n] = "black" <=> chains'[n] > 0
      <3>1. CASE n = m
        <4>1. colors'[n] = "black" /\ chains'[n] = 1 + c
          BY <1>17, <3>1
        <4> QED
          BY <1>16, <4>1
      <3>2. CASE n # m
        BY <1>1, <1>17, <3>2 DEF Measured
      <3> QED
        BY <3>1, <3>2
    <2>2. ASSUME colors'[n] = "black", rings = {}
          PROVE  /\ \A x \in Targets(n) : 0 < chains'[x] /\ chains'[x] < chains'[n]
                 /\ chains'[n] = 1 \/ \E x \in Targets(n) : chains'[n] = chains'[x] + 1
      <3>1. ASSUME NEW x \in Targets(n) PROVE 0 < chains[x] /\ x # m /\ chains'[x] = chains[x]
        <4>1. x \in Macros
          BY <1>15
        <4>2. 0 < chains[x]
          <5>1. CASE n = m
            BY <1>21, <2>2, <5>1
          <5>2. CASE n # m
            <6>1. colors[n] = "black"
              BY <1>17, <2>2, <5>2
            <6> QED
              BY <1>1, <2>2, <6>1 DEF Measured, RankedAt
          <5> QED
            BY <5>1, <5>2
        <4>3. x # m
          BY <1>22, <4>2
        <4> QED
          BY <1>17, <4>1, <4>2, <4>3
      <3>2. CASE n = m
        <4>1. chains'[n] = 1 + c
          BY <1>17, <3>2
        <4>2. \A x \in Targets(n) : 0 < chains'[x] /\ chains'[x] < 1 + c
          <5> TAKE x \in Targets(n)
          <5>1. chains[x] <= c /\ chains[x] \in Nat /\ 0 < chains[x] /\ chains'[x] = chains[x]
            BY <1>15, <1>16, <3>1, <3>2
          <5> QED
            BY <1>16, <5>1
        <4>3. c = 0 => chains'[n] = 1
          BY <1>16, <4>1
        <4>4. c # 0 => \E x \in Targets(n) : chains'[n] = chains'[x] + 1
          <5>1. ASSUME NEW x \in Targets(n), c = chains[x] PROVE chains'[n] = chains'[x] + 1
            BY <1>16, <3>1, <4>1, <5>1
          <5> QED
            BY <1>16, <3>2, <5>1
        <4> QED
          BY <4>1, <4>2, <4>3, <4>4
      <3>3. CASE n # m
        <4>1. colors[n] = "black" /\ chains'[n] = chains[n]
          BY <1>17, <2>2, <3>3
        <4>2. RankedAt(n)
          BY <1>1, <2>2, <4>1 DEF Measured
        <4>3. \A x \in Targets(n) : 0 < chains'[x] /\ chains'[x] < chains'[n]
          BY <3>1, <4>1, <4>2 DEF RankedAt
        <4>4. chains'[n] = 1 \/ \E x \in Targets(n) : chains'[n] = chains'[x] + 1
          BY <3>1, <4>1, <4>2 DEF RankedAt
        <4> QED
          BY <4>3, <4>4
      <3> QED
        BY <3>2, <3>3
    <2>3. Targets(n)' = Targets(n)
      BY <1>2 DEF Targets
    <2>4. colors'[n] = "black" /\ rings' = {} => RankedAt(n)'
      BY <1>2, <2>2, <2>3 DEF RankedAt
    <2> QED
      BY <2>1, <2>4
  <1>24. PICK o : o = Pop(own)
    OBVIOUS
  <1>25. Stacked(work', path', o) /\ Waiting(uses, work', path', o)
    BY <1>2, <1>4, <1>5, <1>6, <1>8, <1>24, StackPops, WaitingPops
  <1>26. ASSUME rings = {}
         PROVE  Accounted(uses, colors', work', path', o, 0)
    <2> SUFFICES ASSUME NEW i \in 1..Len(path'), NEW k \in 1..Len(uses[path'[i]])
                 PROVE  Seen(uses[path'[i]][k], i, colors', work', path', o)
      BY DEF Accounted
    <2>1. i \in 1..Len(path) /\ i < Len(path) /\ path'[i] = path[i]
      BY <1>8
    <2>2. PICK n : n = uses[path[i]][k]
      OBVIOUS
    <2>3. Seen(n, i, colors, work, path, own)
      BY <1>4, <1>26, <2>1, <2>2 DEF Accounted
    <2>4. n \in Macros
      BY <1>14, <2>1, <2>2
    <2>5. colors[n] = "black" \/ n = m => colors'[n] = "black"
      BY <1>17, <2>4
    <2>6. CASE n = path[i + 1]
      <3>1. CASE i + 1 = Len(path)
        <4>1. colors'[n] = "black"
          BY <1>10, <2>5, <2>6, <3>1
        <4> QED
          BY <2>1, <2>2, <4>1 DEF Seen
      <3>2. CASE i + 1 # Len(path)
        <4>1. i < Len(path') /\ i + 1 \in 1..(Len(path) - 1)
          BY <1>8, <2>1, <3>2
        <4>2. n = path'[i + 1]
          BY <1>8, <2>6, <4>1
        <4> QED
          BY <2>1, <2>2, <4>1, <4>2 DEF Seen
      <3> QED
        BY <3>1, <3>2
    <2>7. CASE n # path[i + 1]
      <3>1. ~ (Top(work) = <<"enter", n>>)
        BY <1>2
      <3>2. Seen(n, i, colors, work', path', o)
        BY <1>2, <1>4, <1>5, <1>6, <1>8, <1>24, <2>3, <2>7, <3>1, SeenPops
      <3> QED
        BY <2>1, <2>2, <2>5, <3>2 DEF Seen
    <2> QED
      BY <2>6, <2>7
  <1> QED
    BY <1>2, <1>18, <1>19, <1>20, <1>23, <1>25, <1>26 DEF Searching, Owned

LEMMA SearchSearches ==
    ASSUME Searching, Search
    PROVE  Searching'
  BY RootSearches, EnterAgainSearches, EnterSearches, LookSearches, ExitSearches DEF Search

LEMMA SearchStands ==
    ASSUME Searching, UNCHANGED gvars
    PROVE  Searching'
  <1>1. /\ uses' = uses /\ colors' = colors /\ chains' = chains /\ work' = work /\ path' = path
        /\ left' = left /\ rings' = rings
    BY DEF gvars
  <1>2. GraphTypeOK' /\ CyclesReal'
    <2>1. GraphTypeOK'
      BY <1>1 DEF Searching, GraphTypeOK
    <2>2. \A m : Targets(m)' = Targets(m)
      BY <1>1 DEF Targets
    <2>3. CyclesReal'
      BY <1>1, <2>2 DEF Searching, CyclesReal
    <2> QED
      BY <2>1, <2>3
  <1>3. Coloured'
    BY <1>1 DEF Searching, Coloured, Targets, Top
  <1>4. Measured'
    BY <1>1, <1>2, RankKept DEF Searching
  <1>5. PICK own : Owned(own)
    BY DEF Searching
  <1>6. /\ Stacked(work', path', own) /\ Waiting(uses', work', path', own)
        /\ rings' = {} => Accounted(uses', colors', work', path', own, left')
    BY <1>1, <1>5 DEF Owned
  <1> QED
    BY <1>2, <1>3, <1>4, <1>6 DEF Searching, Owned

LEMMA SearchRanks ==
    ASSUME Searching
    PROVE  GraphTypeOK /\ CyclesReal /\ RankedWhenClean
  <1>1. GraphTypeOK /\ Coloured /\ Measured /\ CyclesReal
    BY DEF Searching
  <1>2. ASSUME Searched, rings = {}, NEW m \in Macros PROVE RankedAt(m)
    <2>1. PICK own : Owned(own)
      BY DEF Searching
    <2>2. Len(path) = 0 /\ path \in Seq(Macros)
      BY <1>1, <1>2, <2>1 DEF Owned, Stacked, Searched, GraphTypeOK
    <2>3. colors[m] # "gray"
      BY <1>1, <2>2 DEF Coloured
    <2>4. colors[m] = "black"
      BY <1>1, <1>2, <2>3 DEF Searched, Uncoloured, GraphTypeOK
    <2> QED
      BY <1>1, <1>2, <2>4 DEF Measured
  <1>3. RankedWhenClean
    BY <1>2 DEF RankedWhenClean, Ranked, RankedAt
  <1> QED
    BY <1>1, <1>3

-----------------------------------------------------------------------------

(***************************************************************************)
(* What Picked makes of the places it is given: each element there, once.   *)
(***************************************************************************)
LEMMA PickedFinds ==
    ASSUME NEW s, NEW I, I \subseteq Nat, IsFiniteSet(I)
    PROVE  /\ Cardinality(I) \in Nat /\ DOMAIN Picked(s, I) = 1..Cardinality(I)
           /\ Picked(s, I) = [k \in 1..Cardinality(I) |-> Picked(s, I)[k]]
           /\ \A k \in 1..Cardinality(I) : \E i \in I : Picked(s, I)[k] = s[i]
           /\ \A i \in I : \E k \in 1..Cardinality(I) : Picked(s, I)[k] = s[i]
  <1> DEFINE Below(i) == {j \in I : j <= i}
             N == Cardinality(I)
             rank == [i \in I |-> Cardinality(Below(i))]
             Nth(k) == CHOOSE i \in I : Cardinality(Below(i)) = k
  <1>1. N \in Nat
    BY FS_CardinalityType
  <1>2. \A i \in I : /\ IsFiniteSet(Below(i)) /\ Cardinality(Below(i)) \in Nat
                     /\ Cardinality(Below(i)) <= N /\ Cardinality(Below(i)) # 0
    <2> TAKE i \in I
    <2>1. Below(i) \in SUBSET I /\ i \in Below(i)
      OBVIOUS
    <2>2. IsFiniteSet(Below(i)) /\ Cardinality(Below(i)) <= N
      BY <2>1, FS_Subset
    <2>3. Cardinality(Below(i)) \in Nat
      BY <2>2, FS_CardinalityType
    <2>4. Cardinality(Below(i)) # 0
      <3>1. Cardinality(Below(i)) = 0 <=> Below(i) = {}
        BY <2>2, FS_EmptySet
      <3> QED
        BY <2>1, <3>1
    <2> QED
      BY <2>2, <2>3, <2>4
  <1>3. \A i, j \in I : Cardinality(Below(i)) = Cardinality(Below(j)) => i = j
    <2>1. ASSUME NEW i \in I, NEW j \in I, i < j PROVE Cardinality(Below(i)) # Cardinality(Below(j))
      <3>0. i \in Nat /\ j \in Nat /\ i < j
        BY <2>1
      <3>1. Below(i) \in SUBSET Below(j) /\ j \in Below(j) /\ j \notin Below(i)
        <4>1. \A x \in Below(i) : x \in Below(j)
          <5> TAKE x \in Below(i)
          <5>1. x \in I /\ x \in Nat /\ x <= i
            OBVIOUS
          <5>2. x <= j
            BY <3>0, <5>1
          <5> QED
            BY <5>1, <5>2
        <4>2. j \in Below(j) /\ j \notin Below(i)
          BY <3>0
        <4> QED
          BY <4>1, <4>2
      <3>2. IsFiniteSet(Below(j))
        BY <1>2
      <3>3. Below(j) # Below(i)
        BY <3>1
      <3> HIDE DEF Below
      <3> QED
        BY <3>1, <3>2, <3>3, FS_Subset
    <2>2. \A i, j \in I : i < j \/ j < i \/ i = j
      OBVIOUS
    <2> HIDE DEF Below
    <2> QED
      BY <2>1, <2>2
  <1> HIDE DEF Below
  <1>4. rank \in Injection(I, 1..N)
    <2>1. rank \in [I -> 1..N]
      BY <1>1, <1>2
    <2> QED
      BY <2>1, <1>3 DEF Injection, IsInjective
  <1>5. IsFiniteSet(1..N) /\ Cardinality(1..N) = N
    BY <1>1, FS_Interval
  <1>6. rank \in Surjection(I, 1..N)
    BY <1>4, <1>5, FS_Injection
  <1>7. \A k \in 1..N : \E i \in I : Cardinality(Below(i)) = k
    BY <1>6 DEF Surjection
  <1>8. \A k \in 1..N : Nth(k) \in I /\ Cardinality(Below(Nth(k))) = k
    BY <1>7
  <1>9. Picked(s, I) = [k \in 1..N |-> s[Nth(k)]]
    BY DEF Picked, Below
  <1>10. \A i \in I : Nth(Cardinality(Below(i))) = i /\ Cardinality(Below(i)) \in 1..N
    <2> TAKE i \in I
    <2>1. Cardinality(Below(i)) \in 1..N
      BY <1>1, <1>2
    <2> QED
      BY <2>1, <1>8, <1>3
  <1> HIDE DEF Nth, N
  <1>11. \A k \in 1..N : \E i \in I : Picked(s, I)[k] = s[i]
    BY <1>8, <1>9
  <1>12. \A i \in I : \E k \in 1..N : Picked(s, I)[k] = s[i]
    BY <1>9, <1>10
  <1> QED
    BY <1>1, <1>9, <1>11, <1>12 DEF N

(***************************************************************************)
(* A macro that loaded is where it is defined first, so it is listed.       *)
(***************************************************************************)
Fit(packs) ==
    /\ DOMAIN packs \subseteq Nat
    /\ \A p \in DOMAIN packs :
          /\ DOMAIN packs[p].macros \subseteq Macros
          /\ \A m \in DOMAIN packs[p].macros : Listed(packs[p].macros[m].steps)

LEMMA LoadedPlace ==
    ASSUME NEW packs, Fit(packs), NEW m \in Loaded(packs)
    PROVE  PackOf(packs, m) \in DOMAIN packs /\ m \in DOMAIN packs[PackOf(packs, m)].macros
  <1> DEFINE D == Definers(packs, m)
  <1>1. D \subseteq Nat /\ D # {}
    BY DEF Loaded, Fit, Definers
  <1>2. PICK p \in D : \A q \in D : ~ (<<q, p>> \in OpToRel(<, Nat))
    <2> HIDE DEF D
    <2> QED
      BY <1>1, NatLessThanWellFounded, WFMin
  <1>3. p \in D /\ \A q \in D : p <= q
    <2> HIDE DEF D
    <2> SUFFICES ASSUME NEW q \in D PROVE p <= q
      OBVIOUS
    <2>1. p \in Nat /\ q \in Nat
      BY <1>1, <1>2
    <2>2. ~ (<<q, p>> \in OpToRel(<, Nat))
      BY <1>2
    <2>3. ~ (q < p)
      BY <2>1, <2>2 DEF OpToRel
    <2> QED
      BY <2>1, <2>3
  <1>4. PackOf(packs, m) \in D
    BY <1>3, Zenon DEF PackOf
  <1> QED
    BY <1>4 DEF Definers, Defines

LEMMA LoadedListed ==
    ASSUME NEW packs, Fit(packs)
    PROVE  /\ Loaded(packs) \subseteq Macros
           /\ \A m \in Loaded(packs) : Listed(MacroOf(packs, m).steps)
  <1>1. Loaded(packs) \subseteq Macros
    BY DEF Loaded, Fit
  <1>2. \A m \in Loaded(packs) : Listed(MacroOf(packs, m).steps)
    BY LoadedPlace DEF MacroOf, Fit
  <1> QED
    BY <1>1, <1>2

\* A function from 1 to n is a sequence of length n.
LEMMA SequenceOf ==
    ASSUME NEW f, NEW n \in Nat, NEW S, f = [k \in 1..n |-> f[k]], \A k \in 1..n : f[k] \in S
    PROVE  f \in Seq(S) /\ Len(f) = n
  <1>1. f \in [1..n -> S]
    OBVIOUS
  <1> QED
    BY <1>1

LEMMA KeptListed ==
    ASSUME NEW m, Listed(m.steps)
    PROVE  Len(KeptSteps(m)) \in Nat /\ DOMAIN KeptSteps(m) = 1..Len(KeptSteps(m))
  <1> DEFINE I == {i \in DOMAIN m.steps : OneBody(m.steps[i])}
             N == Cardinality(I)
             K == KeptSteps(m)
  <1>1. I \subseteq Nat /\ IsFiniteSet(I)
    BY FS_Subset DEF Listed
  <1> HIDE DEF I
  <1>2. K = Picked(m.steps, I)
    BY DEF KeptSteps, I
  <1>3. N \in Nat /\ K = [k \in 1..N |-> K[k]]
    BY <1>1, <1>2, PickedFinds
  <1> HIDE DEF K, N
  <1>4. K \in Seq({K[k] : k \in 1..N}) /\ Len(K) = N
    BY <1>3, SequenceOf
  <1> QED
    BY <1>3, <1>4 DEF K

\* The targets of a macro are those of its kept steps, as far as they resolve.
LEMMA UsesListed ==
    ASSUME NEW packs, Fit(packs), NEW m \in Loaded(packs)
    PROVE  LET K == KeptSteps(MacroOf(packs, m))
           IN  /\ UsesOf(packs, m) \in Seq(Loaded(packs))
               /\ \A i \in 1..Len(K) :
                     Kind(K[i]) = "use" /\ UseFound(packs, K[i].use[1]) =>
                       /\ K[i].use[1][2] \in Loaded(packs)
                       /\ \E k \in 1..Len(UsesOf(packs, m)) : UsesOf(packs, m)[k] = K[i].use[1][2]
  <1> DEFINE K == KeptSteps(MacroOf(packs, m))
             I == {i \in DOMAIN K : Kind(K[i]) = "use" /\ UseFound(packs, K[i].use[1])}
             E == Picked(K, I)
             N == Cardinality(I)
             U == UsesOf(packs, m)
  <1>1. Len(K) \in Nat /\ DOMAIN K = 1..Len(K)
    BY LoadedListed, KeptListed
  <1>2. I \subseteq Nat /\ IsFiniteSet(I)
    <2>1. IsFiniteSet(1..Len(K)) /\ 1..Len(K) \subseteq Nat
      BY <1>1, FS_Interval
    <2>2. I \in SUBSET (1..Len(K))
      BY <1>1
    <2> HIDE DEF I, K
    <2> QED
      BY <2>1, <2>2, FS_Subset
  <1>3. U = [k \in DOMAIN E |-> E[k].use[1][2]]
    BY DEF UsesOf
  <1>4. \A i \in I : i \in 1..Len(K) /\ K[i].use[1][2] \in Loaded(packs)
    BY <1>1 DEF UseFound
  <1>5. \A i \in 1..Len(K) : Kind(K[i]) = "use" /\ UseFound(packs, K[i].use[1]) => i \in I
    BY <1>1
  <1>0. E = Picked(K, I) /\ N = Cardinality(I)
    OBVIOUS
  <1> HIDE DEF I, K, E, N
  <1>6. /\ N \in Nat /\ DOMAIN E = 1..N
        /\ \A k \in 1..N : \E i \in I : E[k] = K[i]
        /\ \A i \in I : \E k \in 1..N : E[k] = K[i]
    BY <1>0, <1>2, PickedFinds
  <1> HIDE DEF U
  <1>7. \A k \in 1..N : U[k] \in Loaded(packs)
    BY <1>3, <1>4, <1>6
  <1>8. U \in Seq(Loaded(packs)) /\ Len(U) = N
    <2>1. U = [k \in 1..N |-> U[k]]
      BY <1>3, <1>6
    <2> QED
      BY <2>1, <1>6, <1>7, SequenceOf
  <1>9. \A i \in I : \E k \in 1..Len(U) : U[k] = K[i].use[1][2]
    BY <1>3, <1>6, <1>8
  <1> QED
    BY <1>4, <1>5, <1>8, <1>9 DEF K, U

\* A code that no check names is not raised; one whose check holds is.
LEMMA RaisedHolds ==
    ASSUME NEW checks, NEW d \in checks, d[2] PROVE d[1] \in Raised(checks)
  BY DEF Raised

LEMMA RaisedOnly ==
    ASSUME NEW checks, NEW c \in Raised(checks) PROVE \E d \in checks : d[1] = c
  BY DEF Raised

(***************************************************************************)
(* Uses: what is drawn from the packs is a graph; once it was searched and  *)
(* nothing was reported, every frame of an expansion uses what its chain    *)
(* still allows at its depth.                                               *)
(***************************************************************************)
Drawn(packs) == [m \in Macros |-> IF m \in Loaded(packs) THEN UsesOf(packs, m) ELSE <<>>]

Cleared == Searched /\ rings = {} /\ TooDeep = {}

FrameFits(packs, height, f, i) ==
    /\ f = [macro |-> f.macro, args |-> f.args, scoped |-> f.scoped, item |-> f.item]
    /\ f.macro \in Loaded(packs) /\ f.item \in Nat \ {0}
    /\ height[f.macro] + i <= MaxUse + 1

Expanding(packs, height, stack) ==
    /\ \E S : stack \in Seq(S)
    /\ \A i \in 1..Len(stack) : FrameFits(packs, height, stack[i], i)

BoundFits(packs, b) == \A i \in DOMAIN b : \A j \in DOMAIN b[i] : b[i][j].macro \in Loaded(packs)

Unspent(codes) == "expansion_too_deep" \notin codes

UsesInv ==
    /\ suite \in Suites /\ Searching /\ uses = Drawn(Packs_)
    /\ pc \in {"parse", "bind", "lower"} => Cleared
    /\ pc \in {"walk", "load", "graph", "parse", "bind"} => frames = <<>>
    /\ pc = "lower" => Expanding(Packs_, chains, frames) /\ BoundFits(Packs_, bound) /\ Unspent(faults)

LEMMA SuiteFits ==
    ASSUME suite \in Suites
    PROVE  /\ Fit(Packs_) /\ suite.root \in DOMAIN suite.tree
           /\ \A d \in DOMAIN suite.tree : \A e \in suite.tree[d].entries :
                 e.dir = 0 \/ e.dir \in DOMAIN suite.tree
  <1>1. PICK menu \in Menus : suite \in menu
    BY DEF Suites
  <1> QED
    BY <1>1, SuitesAssumption DEF Fit, Packs_

LEMMA DrawnGraph ==
    ASSUME NEW packs, Fit(packs) PROVE Drawn(packs) \in Graphs
  <1>1. Loaded(packs) \subseteq Macros
    BY LoadedListed
  <1>2. ASSUME NEW m \in Macros
        PROVE  (IF m \in Loaded(packs) THEN UsesOf(packs, m) ELSE <<>>) \in Seq(Macros)
    <2>1. CASE m \in Loaded(packs)
      <3>1. UsesOf(packs, m) \in Seq(Loaded(packs))
        BY <2>1, UsesListed
      <3> QED
        BY <1>1, <2>1, <3>1
    <2>2. CASE m \notin Loaded(packs)
      BY <2>2
    <2> QED
      BY <2>1, <2>2
  <1> QED
    BY <1>2 DEF Drawn, Graphs

LEMMA UsesStart == Init => UsesInv
  <1> SUFFICES ASSUME Init PROVE UsesInv
    OBVIOUS
  <1>1. suite \in Suites
    BY DEF Init, Suites
  <1>2. Drawn(Packs_) \in Graphs
    BY <1>1, SuiteFits, DrawnGraph
  <1>3. InitGraph(Drawn(Packs_))
    BY DEF Init, Drawn, Packs_
  <1>4. Searching
    BY <1>2, <1>3, GraphStarts
  <1>5. uses = Drawn(Packs_)
    BY <1>3 DEF InitGraph
  <1>6. pc = "walk" /\ frames = <<>>
    BY DEF Init
  <1> QED
    BY <1>1, <1>4, <1>5, <1>6 DEF UsesInv

\* A step that leaves the graph, the suite and the expansion alone.
LEMMA UsesStand ==
    ASSUME UsesInv, UNCHANGED <<suite, gvars, frames>>,
           pc' \in {"parse", "bind"} => Cleared,
           pc' \in {"walk", "load", "graph", "parse", "bind"} =>
             pc \in {"walk", "load", "graph", "parse", "bind"},
           pc' = "lower" => /\ pc = "lower" /\ bound' = bound
                            /\ Unspent(faults) => Unspent(faults')
    PROVE  UsesInv'
  <1>1. suite' = suite /\ frames' = frames /\ UNCHANGED gvars
    OBVIOUS
  <1>2. chains' = chains /\ uses' = uses /\ Packs_' = Packs_
    BY <1>1 DEF gvars, Packs_
  <1>3. Searching'
    BY <1>1, SearchStands DEF UsesInv
  <1>4. Cleared' <=> Cleared
    BY <1>1 DEF Cleared, gvars, Searched, Uncoloured, TooDeep
  <1>5. Drawn(Packs_)' = Drawn(Packs_)
    BY <1>2
  <1>6. suite' \in Suites /\ uses' = Drawn(Packs_)'
    BY <1>1, <1>2, <1>5 DEF UsesInv
  <1>7. pc' \in {"parse", "bind", "lower"} => Cleared'
    BY <1>4 DEF UsesInv
  <1>8. pc' \in {"walk", "load", "graph", "parse", "bind"} => frames' = <<>>
    BY <1>1 DEF UsesInv
  <1>9. pc' = "lower" => /\ Expanding(Packs_, chains, frames)' /\ BoundFits(Packs_, bound)'
                         /\ Unspent(faults)'
    <2> HAVE pc' = "lower"
    <2>1. Expanding(Packs_, chains, frames) /\ BoundFits(Packs_, bound) /\ Unspent(faults)
      BY DEF UsesInv
    <2> QED
      BY <1>1, <1>2, <2>1
  <1> QED
    BY <1>3, <1>6, <1>7, <1>8, <1>9 DEF UsesInv

\* What a macro uses is ranked below it, and is at least one step.
LEMMA ClearedRanks ==
    ASSUME Searching, Cleared
    PROVE  \A m \in Macros :
             /\ chains[m] \in Nat /\ chains[m] >= 1 /\ chains[m] <= MaxUse
             /\ \A n \in Macros : n \in Targets(m) => chains[n] < chains[m]
  <1>1. GraphTypeOK /\ RankedWhenClean
    BY SearchRanks
  <1>2. Ranked
    BY <1>1 DEF Cleared, RankedWhenClean
  <1>3. chains \in [Macros -> Nat] /\ uses \in Graphs
    BY <1>1 DEF GraphTypeOK
  <1> TAKE m \in Macros
  <1>4. chains[m] \in Nat /\ chains[m] <= MaxUse
    <2>1. m \notin TooDeep
      BY DEF Cleared
    <2> QED
      BY <1>3, <2>1, MaxUseAssumption DEF TooDeep
  <1>5. \A n \in Macros : n \in Targets(m) => chains[n] < chains[m]
    BY <1>2 DEF Ranked
  <1>6. chains[m] >= 1
    <2>1. \A n \in Targets(m) : n \in Macros
      BY <1>3 DEF Targets, Graphs
    <2>2. chains[m] = 1 \/ \E n \in Targets(m) : chains[m] = chains[n] + 1
      BY <1>2 DEF Ranked
    <2> QED
      BY <1>3, <2>1, <2>2
  <1> QED
    BY <1>4, <1>5, <1>6

\* An expansion whose frames fit is no deeper than the longest chain.
LEMMA ExpandingBounded ==
    ASSUME Searching, Cleared, NEW packs, Fit(packs), NEW stack, Expanding(packs, chains, stack)
    PROVE  Len(stack) \in Nat /\ Len(stack) <= MaxUse
  <1>1. Len(stack) \in Nat
    BY DEF Expanding
  <1>2. CASE Len(stack) = 0
    BY <1>2, MaxUseAssumption
  <1>3. CASE Len(stack) # 0
    <2>1. Len(stack) \in 1..Len(stack)
      BY <1>1, <1>3
    <2> DEFINE m == stack[Len(stack)].macro
    <2>2. m \in Loaded(packs) /\ chains[m] + Len(stack) <= MaxUse + 1
      BY <2>1 DEF Expanding, FrameFits
    <2>3. chains[m] \in Nat /\ chains[m] >= 1
      BY <2>2, LoadedListed, ClearedRanks
    <2> HIDE DEF m
    <2> QED
      BY <1>1, <2>2, <2>3, MaxUseAssumption
  <1> QED
    BY <1>2, <1>3

\* What is invoked is pushed on what is below it.
Onto(below, name, args, scoped) ==
    Append(below, [macro |-> name, args |-> args, scoped |-> scoped, item |-> 1])

LEMMA TableUnspent ==
    ASSUME NEW table, NEW args, NEW defaults, NEW n
    PROVE  Unspent(ResolveTable(table, args, defaults, n).faults)
  <1>1. \A a, b, c : Unspent(Raised({<<"secret_in_composite_bind", a>>, <<"unresolved", b>>,
                                    <<"multiline_bind", c>>}))
    <2> SUFFICES ASSUME NEW a, NEW b, NEW c
                 PROVE  Unspent(Raised({<<"secret_in_composite_bind", a>>, <<"unresolved", b>>,
                                        <<"multiline_bind", c>>}))
      OBVIOUS
    <2> QED
      BY RaisedOnly DEF Unspent
  <1> QED
    BY <1>1, Zenon DEF ResolveTable

LEMMA InvokeTells ==
    ASSUME NEW name, NEW args, NEW below, NEW n, NEW raised, Invoke(name, args, below, n, raised)
    PROVE  /\ \E scoped : frames' = Onto(below, name, args, scoped)
           /\ Unspent(faults) /\ Unspent(raised) => Unspent(faults')
  <1> DEFINE m == MacroOf(Packs_, name)
             p == PackOf(Packs_, name)
             pack == PackTable(p, n)
             own == ResolveTable(m.bind, args, m.defaults, pack.n)
  <1>1. CASE ~ HasRef(m)
    <2>1. frames' = Onto(below, name, args, <<>>) /\ faults' = faults \cup raised
      BY <1>1 DEF Invoke, Onto
    <2> QED
      BY <2>1 DEF Unspent
  <1>2. CASE HasRef(m)
    <2>1. /\ frames' = Onto(below, name, args, Over(pack.vals, own.vals))
          /\ faults' = faults \cup raised \cup pack.faults \cup own.faults
      BY <1>2 DEF Invoke, Onto
    <2>2. Unspent(own.faults)
      BY TableUnspent
    <2>3. Unspent(pack.faults)
      <3>1. CASE p \in DOMAIN tables
        BY <3>1 DEF PackTable, Unspent
      <3>2. CASE p \notin DOMAIN tables
        <4>1. pack = ResolveTable(Packs_[p].bind, <<>>, <<>>, n)
          BY <3>2 DEF PackTable
        <4> QED
          BY <4>1, TableUnspent
      <3> QED
        BY <3>1, <3>2
    <2> HIDE DEF own, pack
    <2>4. Unspent(faults) /\ Unspent(raised) => Unspent(faults')
      BY <2>1, <2>2, <2>3 DEF Unspent
    <2> QED
      BY <2>1, <2>4
  <1> QED
    BY <1>1, <1>2

LEMMA OntoExpands ==
    ASSUME NEW packs, NEW height, NEW below, Expanding(packs, height, below),
           NEW name \in Loaded(packs), height[name] + (Len(below) + 1) <= MaxUse + 1,
           NEW args, NEW scoped
    PROVE  Expanding(packs, height, Onto(below, name, args, scoped))
  <1> DEFINE f == [macro |-> name, args |-> args, scoped |-> scoped, item |-> 1]
             s == Append(below, f)
             n == Len(below)
  <1>1. PICK S : below \in Seq(S)
    BY DEF Expanding
  <1>2. FrameFits(packs, height, f, n + 1)
    BY DEF FrameFits
  <1>3. \A i \in 1..n : FrameFits(packs, height, below[i], i)
    BY DEF Expanding
  <1> HIDE DEF f
  <1>4. below \in Seq(S \cup {f}) /\ f \in S \cup {f}
    BY <1>1
  <1>5. /\ n \in Nat /\ s \in Seq(S \cup {f}) /\ Len(s) = n + 1 /\ s[n + 1] = f
        /\ \A i \in 1..n : s[i] = below[i]
    BY <1>4
  <1> HIDE DEF s, n
  <1>6. \A i \in 1..Len(s) : FrameFits(packs, height, s[i], i)
    <2> TAKE i \in 1..Len(s)
    <2>1. i = n + 1 \/ i \in 1..n
      BY <1>5
    <2> QED
      BY <1>2, <1>3, <1>5, <2>1
  <1>7. Expanding(packs, height, s)
    BY <1>5, <1>6 DEF Expanding
  <1> QED
    BY <1>7 DEF s, f, Onto

LEMMA PassedExpands ==
    ASSUME NEW packs, NEW height, Expanding(packs, height, frames), frames # <<>>
    PROVE  /\ Expanding(packs, height, Passed) /\ Len(Passed) = Len(frames)
           /\ Len(frames) \in Nat \ {0} /\ FrameFits(packs, height, Frame, Len(frames))
  <1> DEFINE n == Len(frames)
             f == [Frame EXCEPT !.item = @ + 1]
             s == [frames EXCEPT ![n] = f]
  <1>1. PICK S : frames \in Seq(S)
    BY DEF Expanding
  <1>2. n \in Nat \ {0} /\ n \in 1..n
    BY <1>1
  <1>3. FrameFits(packs, height, Frame, n)
    BY <1>2 DEF Expanding, Frame
  <1>4. f = [macro |-> Frame.macro, args |-> Frame.args, scoped |-> Frame.scoped, item |-> Frame.item + 1]
    BY <1>3 DEF FrameFits
  <1>5. FrameFits(packs, height, f, n)
    BY <1>3, <1>4 DEF FrameFits
  <1>6. Passed = s
    BY DEF Passed, Frame
  <1> HIDE DEF f
  <1>7. frames \in Seq(S \cup {f}) /\ f \in S \cup {f}
    BY <1>1
  <1>8. s \in Seq(S \cup {f}) /\ Len(s) = n /\ s[n] = f /\ \A i \in 1..n : i # n => s[i] = frames[i]
    BY <1>2, <1>7
  <1>9. \A i \in 1..n : FrameFits(packs, height, frames[i], i)
    BY DEF Expanding
  <1> HIDE DEF s, n
  <1>10. \A i \in 1..n : FrameFits(packs, height, s[i], i)
    BY <1>5, <1>8, <1>9
  <1>11. Expanding(packs, height, s)
    BY <1>8, <1>10 DEF Expanding
  <1> QED
    BY <1>2, <1>3, <1>6, <1>8, <1>11 DEF n

LEMMA PopExpands ==
    ASSUME NEW packs, NEW height, NEW stack, Expanding(packs, height, stack), stack # <<>>
    PROVE  Expanding(packs, height, Pop(stack))
  <1>1. PICK S : stack \in Seq(S)
    BY DEF Expanding
  <1>2. /\ Len(stack) \in Nat \ {0} /\ Pop(stack) \in Seq(S) /\ Len(Pop(stack)) = Len(stack) - 1
        /\ \A j \in 1..(Len(stack) - 1) : Pop(stack)[j] = stack[j]
    BY <1>1, TopOf
  <1>3. \A i \in 1..Len(stack) : FrameFits(packs, height, stack[i], i)
    BY DEF Expanding
  <1>4. \A i \in 1..Len(Pop(stack)) : FrameFits(packs, height, Pop(stack)[i], i)
    BY <1>2, <1>3
  <1> QED
    BY <1>2, <1>4 DEF Expanding

\* A step of the expansion.
LEMMA UsesLower ==
    ASSUME UsesInv, pc = "lower", pc' = pc, UNCHANGED <<suite, gvars, bound>>,
           Expanding(Packs_, chains, frames'), Unspent(faults) => Unspent(faults')
    PROVE  UsesInv'
  <1>1. suite' = suite /\ bound' = bound /\ UNCHANGED gvars
    OBVIOUS
  <1>2. chains' = chains /\ uses' = uses /\ Packs_' = Packs_
    BY <1>1 DEF gvars, Packs_
  <1>3. Searching'
    BY <1>1, SearchStands DEF UsesInv
  <1>4. Cleared'
    <2>1. Cleared' <=> Cleared
      BY <1>1 DEF Cleared, gvars, Searched, Uncoloured, TooDeep
    <2> QED
      BY <2>1 DEF UsesInv
  <1>5. Drawn(Packs_)' = Drawn(Packs_)
    BY <1>2
  <1>6. suite' \in Suites /\ uses' = Drawn(Packs_)'
    BY <1>1, <1>2, <1>5 DEF UsesInv
  <1>7. Expanding(Packs_, chains, frames)'
    BY <1>2
  <1>8. BoundFits(Packs_, bound)' /\ Unspent(faults)'
    <2>1. BoundFits(Packs_, bound) /\ Unspent(faults)
      BY DEF UsesInv
    <2> QED
      BY <1>1, <1>2, <2>1
  <1>9. pc' = "lower"
    OBVIOUS
  <1> QED
    BY <1>3, <1>4, <1>6, <1>7, <1>8, <1>9 DEF UsesInv

LEMMA BeginUses == ASSUME UsesInv, BeginStep PROVE UsesInv'
  <1> DEFINE b == bound[at[1]][at[2]]
  <1>1. /\ pc = "lower" /\ frames = <<>> /\ at[1] \in DOMAIN bound /\ at[2] \in DOMAIN bound[at[1]]
        /\ Invoke(b.macro, b.args, <<>>, fakes, {}) /\ UNCHANGED <<suite, pc, bound, gvars>>
    BY DEF BeginStep
  <1>2. /\ suite \in Suites /\ Searching /\ Cleared /\ Expanding(Packs_, chains, frames)
        /\ BoundFits(Packs_, bound)
    BY <1>1 DEF UsesInv
  <1>3. b.macro \in Loaded(Packs_)
    BY <1>1, <1>2 DEF BoundFits
  <1>4. b.macro \in Macros
    BY <1>2, <1>3, SuiteFits, LoadedListed
  <1>5. chains[b.macro] \in Nat /\ chains[b.macro] <= MaxUse
    BY <1>2, <1>4, ClearedRanks
  <1> HIDE DEF b
  <1>6. PICK scoped : frames' = Onto(<<>>, b.macro, b.args, scoped)
    BY <1>1, InvokeTells
  <1>7. Unspent(faults) => Unspent(faults')
    <2>1. Unspent({})
      BY DEF Unspent
    <2> QED
      BY <1>1, <2>1, InvokeTells
  <1>8. Expanding(Packs_, chains, <<>>) /\ Len(<<>>) = 0
    BY <1>1, <1>2
  <1>9. chains[b.macro] + (Len(<<>>) + 1) <= MaxUse + 1
    BY <1>5, <1>8, MaxUseAssumption
  <1>10. Expanding(Packs_, chains, frames')
    BY <1>3, <1>6, <1>8, <1>9, OntoExpands
  <1> QED
    BY <1>1, <1>7, <1>10, UsesLower

\* A `use:` that is expanded is one of its macro's, so the chain has a place
\* for it: the backstop is not reached.
LEMMA ExpandUses == ASSUME UsesInv, ExpandUse PROVE UsesInv'
  <1> DEFINE n == Len(frames)
             name == Item.use[1][2]
             given == ResolveWith(Item.with)
             K == KeptSteps(Body)
  <1>1. /\ pc = "lower" /\ frames # <<>> /\ Frame.item <= Len(K)
        /\ Kind(Item) = "use" /\ UseFound(Packs_, Item.use[1])
        /\ UNCHANGED <<suite, pc, bound, gvars>>
    BY DEF ExpandUse, More
  <1>2. /\ suite \in Suites /\ Searching /\ Cleared /\ Expanding(Packs_, chains, frames)
        /\ uses = Drawn(Packs_)
    BY <1>1 DEF UsesInv
  <1>3. Fit(Packs_) /\ Loaded(Packs_) \subseteq Macros
    BY <1>2, SuiteFits, LoadedListed
  <1>4. /\ Expanding(Packs_, chains, Passed) /\ Len(Passed) = n /\ n \in Nat \ {0}
        /\ FrameFits(Packs_, chains, Frame, n)
    BY <1>1, <1>2, PassedExpands
  <1>5. Frame.macro \in Loaded(Packs_) /\ Frame.item \in Nat \ {0} /\ chains[Frame.macro] + n <= MaxUse + 1
    BY <1>4 DEF FrameFits
  <1>6. Frame.item \in 1..Len(K) /\ Item = K[Frame.item]
    <2>1. Len(K) \in Nat
      BY <1>3, <1>5, LoadedListed, KeptListed DEF Body
    <2> QED
      BY <1>1, <1>5, <2>1 DEF Item
  <1>7. /\ name \in Loaded(Packs_)
        /\ \E k \in 1..Len(UsesOf(Packs_, Frame.macro)) : UsesOf(Packs_, Frame.macro)[k] = name
    <2>1. K = KeptSteps(MacroOf(Packs_, Frame.macro)) /\ name = K[Frame.item].use[1][2]
      BY <1>6 DEF Body
    <2>2. Kind(K[Frame.item]) = "use" /\ UseFound(Packs_, K[Frame.item].use[1])
      BY <1>1, <1>6
    <2>3. \A i \in 1..Len(K) : Kind(K[i]) = "use" /\ UseFound(Packs_, K[i].use[1]) =>
                     /\ K[i].use[1][2] \in Loaded(Packs_)
                     /\ \E k \in 1..Len(UsesOf(Packs_, Frame.macro)) :
                           UsesOf(Packs_, Frame.macro)[k] = K[i].use[1][2]
      <3> HIDE DEF K
      <3> QED
        BY <1>3, <1>5, <2>1, UsesListed
    <2> HIDE DEF K, name
    <2> QED
      BY <1>6, <2>1, <2>2, <2>3
  <1>8. UsesOf(Packs_, Frame.macro) \in Seq(Loaded(Packs_))
    BY <1>3, <1>5, UsesListed
  <1>9. uses[Frame.macro] = UsesOf(Packs_, Frame.macro)
    BY <1>2, <1>3, <1>5 DEF Drawn
  <1>10. name \in Targets(Frame.macro)
    BY <1>7, <1>8, <1>9 DEF Targets
  <1>11. /\ chains[name] < chains[Frame.macro] /\ chains[name] \in Nat /\ chains[name] >= 1
         /\ chains[Frame.macro] \in Nat
    <2>1. name \in Macros /\ Frame.macro \in Macros
      BY <1>3, <1>5, <1>7
    <2> QED
      BY <1>2, <1>10, <2>1, ClearedRanks
  <1> HIDE DEF n, name, K
  <1>12. n <= MaxExpansion /\ chains[name] + (n + 1) <= MaxUse + 1
    BY <1>4, <1>5, <1>11, MaxUseAssumption, DepthAssumption
  <1>13. Invoke(name, given.vals, Passed, given.n, given.faults)
    BY <1>12 DEF ExpandUse, n, name
  <1>14. Unspent(given.faults)
    <2>1. \A a : Unspent(Raised({<<"unresolved", a>>}))
      <3> SUFFICES ASSUME NEW a PROVE Unspent(Raised({<<"unresolved", a>>}))
        OBVIOUS
      <3> QED
        BY RaisedOnly DEF Unspent
    <2> QED
      BY <2>1, Zenon DEF ResolveWith
  <1> HIDE DEF given
  <1>15. PICK scoped : frames' = Onto(Passed, name, given.vals, scoped)
    BY <1>13, InvokeTells
  <1>16. Unspent(faults) => Unspent(faults')
    BY <1>13, <1>14, InvokeTells
  <1>17. Expanding(Packs_, chains, frames')
    BY <1>4, <1>7, <1>12, <1>15, OntoExpands
  <1> QED
    BY <1>1, <1>16, <1>17, UsesLower

LEMMA FinishUses ==
    ASSUME UsesInv, pc = "lower", frames # <<>>,
           NEW text, NEW vals, NEW start, NEW n, NEW ok, NEW raised,
           Finish(text, vals, start, n, ok, raised), Unspent(raised)
    PROVE  UsesInv'
  <1>1. frames' = Passed /\ UNCHANGED <<suite, pc, bound, gvars>>
    BY DEF Finish
  <1>2. Expanding(Packs_, chains, frames)
    BY DEF UsesInv
  <1>3. Expanding(Packs_, chains, frames')
    BY <1>1, <1>2, PassedExpands
  <1>4. Unspent(faults) => Unspent(faults')
    <2>1. \A a : Unspent(Raised({<<"unresolved", a>>}))
      <3> SUFFICES ASSUME NEW a PROVE Unspent(Raised({<<"unresolved", a>>}))
        OBVIOUS
      <3> QED
        BY RaisedOnly DEF Unspent
    <2>2. \E a : faults' = faults \cup raised \cup Raised({<<"unresolved", a>>})
      BY Zenon DEF Finish
    <2> QED
      BY <2>1, <2>2 DEF Unspent
  <1> QED
    BY <1>1, <1>3, <1>4, UsesLower

LEMMA PayloadUses == ASSUME UsesInv, ExpandPayload PROVE UsesInv'
  <1>1. pc = "lower" /\ frames # <<>>
    BY DEF ExpandPayload, More
  <1>2. \E text, n, ok : Finish(text, <<>>, fakes, n, ok, {})
    BY DEF ExpandPayload
  <1>3. Unspent({})
    BY DEF Unspent
  <1> QED
    BY <1>1, <1>2, <1>3, FinishUses

LEMMA RefUses == ASSUME UsesInv, ExpandRef PROVE UsesInv'
  <1> DEFINE step == ResolveTable(Item.bind, Frame.args, Body.defaults, fakes)
  <1>1. pc = "lower" /\ frames # <<>>
    BY DEF ExpandRef, More
  <1>2. Finish(<<>>, Over(Frame.scoped, step.vals), fakes, step.n, TRUE, step.faults)
    BY DEF ExpandRef
  <1>3. Unspent(step.faults)
    BY TableUnspent
  <1> HIDE DEF step
  <1> QED
    BY <1>1, <1>2, <1>3, FinishUses

LEMMA ExpectUses == ASSUME UsesInv, ExpandExpect PROVE UsesInv'
  <1>1. pc = "lower" /\ frames # <<>> /\ frames' = Passed /\ UNCHANGED <<suite, pc, bound, gvars>>
    BY DEF ExpandExpect
  <1>2. Expanding(Packs_, chains, frames)
    BY <1>1 DEF UsesInv
  <1>3. Expanding(Packs_, chains, frames')
    BY <1>1, <1>2, PassedExpands
  <1>4. Unspent(faults) => Unspent(faults')
    <2>1. \A a : Unspent(Raised({<<"then_before_when", a>>}))
      <3> SUFFICES ASSUME NEW a PROVE Unspent(Raised({<<"then_before_when", a>>}))
        OBVIOUS
      <3> QED
        BY RaisedOnly DEF Unspent
    <2>2. \E a : faults' = faults \cup Raised({<<"then_before_when", a>>})
      BY Zenon DEF ExpandExpect
    <2> QED
      BY <2>1, <2>2 DEF Unspent
  <1> QED
    BY <1>1, <1>3, <1>4, UsesLower

LEMMA LeaveUses == ASSUME UsesInv, LeaveMacro PROVE UsesInv'
  <1>1. /\ pc = "lower" /\ frames # <<>> /\ frames' = Pop(frames) /\ faults' = faults
        /\ UNCHANGED <<suite, pc, bound, gvars>>
    BY DEF LeaveMacro
  <1>2. Expanding(Packs_, chains, frames)
    BY <1>1 DEF UsesInv
  <1>3. Expanding(Packs_, chains, frames')
    BY <1>1, <1>2, PopExpands
  <1> QED
    BY <1>1, <1>3, UsesLower

LEMMA EndUses == ASSUME UsesInv, EndScenario PROVE UsesInv'
  <1>1. /\ pc = "lower" /\ frames' = frames /\ faults' = faults
        /\ UNCHANGED <<suite, pc, bound, gvars>>
    BY DEF EndScenario
  <1>2. Expanding(Packs_, chains, frames)
    BY <1>1 DEF UsesInv
  <1> QED
    BY <1>1, <1>2, UsesLower

LEMMA WalkUses ==
    ASSUME UsesInv, WalkInto \/ WalkTooDeep \/ WalkFile \/ WalkUp \/ WalkDone \/ LoadPacks PROVE UsesInv'
  <1>1. UNCHANGED <<suite, gvars, frames>>
    BY DEF WalkInto, WalkTooDeep, WalkFile, WalkUp, WalkDone, LoadPacks, lvars
  <1>2. pc \in {"walk", "load"} /\ pc' \in {"walk", "load", "graph", "refused"}
    BY DEF WalkInto, WalkTooDeep, WalkFile, WalkUp, WalkDone, LoadPacks
  <1> QED
    BY <1>1, <1>2, UsesStand

LEMMA GraphUses == ASSUME UsesInv, SearchUses PROVE UsesInv'
  <1>1. pc = "graph" /\ Search /\ UNCHANGED <<suite, pc, frames>>
    BY DEF SearchUses, lvars
  <1>2. Searching'
    BY <1>1, SearchSearches DEF UsesInv
  <1>3. uses' = uses
    BY <1>1 DEF Search, Root, EnterAgain, Enter, Look, Exit
  <1>4. suite' \in Suites /\ uses' = Drawn(Packs_)' /\ frames' = <<>>
    BY <1>1, <1>3 DEF UsesInv, Packs_
  <1>5. pc' = "graph"
    BY <1>1
  <1> QED
    BY <1>2, <1>4, <1>5 DEF UsesInv

LEMMA LoadingUses == ASSUME UsesInv, Loading PROVE UsesInv'
  <1> DEFINE codes == Raised({<<"use_cycle", rings # {}>>, <<"use_too_deep", TooDeep # {}>>})
  <1>1. /\ pc = "graph" /\ Searched /\ UNCHANGED <<suite, gvars, frames>>
        /\ faults' = faults \cup codes /\ pc' = IF faults' = {} THEN "parse" ELSE "refused"
    BY DEF Loading, lvars
  <1>2. ASSUME faults' = {} PROVE Cleared
    <2>1. codes = {}
      BY <1>1, <1>2
    <2>2. \A a, b : Raised({<<"use_cycle", a>>, <<"use_too_deep", b>>}) = {} => ~ a /\ ~ b
      <3> SUFFICES ASSUME NEW a, NEW b, Raised({<<"use_cycle", a>>, <<"use_too_deep", b>>}) = {}
                   PROVE  ~ a /\ ~ b
        OBVIOUS
      <3> DEFINE S == {<<"use_cycle", a>>, <<"use_too_deep", b>>}
      <3>1. <<"use_cycle", a>> \in S /\ <<"use_too_deep", b>> \in S
        OBVIOUS
      <3>2. <<"use_cycle", a>>[2] = a /\ <<"use_too_deep", b>>[2] = b
        OBVIOUS
      <3> HIDE DEF S
      <3>3. ~ <<"use_cycle", a>>[2]
        BY <3>1, RaisedHolds DEF S
      <3>4. ~ <<"use_too_deep", b>>[2]
        BY <3>1, RaisedHolds DEF S
      <3> QED
        BY <3>2, <3>3, <3>4
    <2>3. rings = {} /\ TooDeep = {}
      BY <2>1, <2>2, Zenon
    <2> QED
      BY <1>1, <2>3 DEF Cleared
  <1>3. pc' = "parse" => Cleared
    BY <1>1, <1>2
  <1>4. pc' \in {"parse", "refused"}
    BY <1>1
  <1> QED
    BY <1>1, <1>3, <1>4, UsesStand

LEMMA ParseUses == ASSUME UsesInv, Parse PROVE UsesInv'
  <1>1. pc = "parse" /\ UNCHANGED <<suite, gvars, frames>> /\ pc' \in {"bind", "refused"}
    BY DEF Parse, lvars
  <1>2. Cleared
    BY <1>1 DEF UsesInv
  <1> QED
    BY <1>1, <1>2, UsesStand

\* Without a fault, each step has a candidate.
LEMMA BindFits ==
    ASSUME NEW packs, NEW step, BindFaults(packs, step) = {}
    PROVE  Bound(packs, step).macro \in Loaded(packs)
  <1>1. Candidates(packs, step.text) # {}
    BY DEF BindFaults
  <1>2. BoundMacro(packs, step.text) \in Loaded(packs)
    BY <1>1 DEF BoundMacro, Candidates
  <1>3. Bound(packs, step).macro = BoundMacro(packs, step.text)
    BY DEF Bound
  <1> QED
    BY <1>2, <1>3

LEMMA BindUses == ASSUME UsesInv, Bind PROVE UsesInv'
  <1>1. pc = "bind" /\ UNCHANGED <<suite, gvars, frames>>
    BY DEF Bind, lvars
  <1>2. pc' = IF faults' = {} THEN "lower" ELSE "refused"
    BY DEF Bind
  <1>3. CASE faults' # {}
    <2>1. pc' = "refused"
      BY <1>2, <1>3
    <2> QED
      BY <1>1, <2>1, UsesStand
  <1>4. CASE faults' = {}
    <2>1. pc' = "lower"
      BY <1>2, <1>4
    <2>2. \A i \in DOMAIN scenarios : \A j \in DOMAIN scenarios[i].steps :
            BindFaults(Packs_, scenarios[i].steps[j]) = {}
      BY <1>4 DEF Bind
    <2>3. bound' = [i \in DOMAIN scenarios |->
                      [j \in DOMAIN scenarios[i].steps |-> Bound(Packs_, scenarios[i].steps[j])]]
      BY <1>4 DEF Bind
    <2>4. BoundFits(Packs_, bound')
      BY <2>2, <2>3, BindFits DEF BoundFits
    <2>5. suite' = suite /\ frames' = <<>> /\ UNCHANGED gvars
      BY <1>1 DEF UsesInv
    <2>6. chains' = chains /\ uses' = uses /\ Packs_' = Packs_
      BY <2>5 DEF gvars, Packs_
    <2>7. Searching'
      BY <2>5, SearchStands DEF UsesInv
    <2>8. Cleared'
      <3>1. Cleared' <=> Cleared
        BY <2>5 DEF Cleared, gvars, Searched, Uncoloured, TooDeep
      <3> QED
        BY <1>1, <3>1 DEF UsesInv
    <2>9. Drawn(Packs_)' = Drawn(Packs_)
      BY <2>6
    <2>10. suite' \in Suites /\ uses' = Drawn(Packs_)'
      BY <2>5, <2>6, <2>9 DEF UsesInv
    <2>11. Expanding(Packs_, chains, frames)'
      <3>1. <<>> \in Seq({}) /\ Len(<<>>) = 0
        OBVIOUS
      <3> QED
        BY <2>5, <3>1 DEF Expanding
    <2>12. BoundFits(Packs_, bound)' /\ Unspent(faults)'
      BY <1>4, <2>4, <2>6 DEF Unspent
    <2> QED
      BY <2>1, <2>5, <2>7, <2>8, <2>10, <2>11, <2>12 DEF UsesInv
  <1> QED
    BY <1>3, <1>4

LEMMA RestUses == ASSUME UsesInv, Finished \/ Rest \/ UNCHANGED fvars PROVE UsesInv'
  <1>1. UNCHANGED <<suite, gvars, frames, bound>>
    BY DEF Finished, Rest, fvars, lvars
  <1>2. pc' \in {"done", "refused"} \/ (pc' = pc /\ faults' = faults)
    BY DEF Finished, Rest, fvars
  <1>3. pc \in {"parse", "bind"} => Cleared
    BY DEF UsesInv
  <1> QED
    BY <1>1, <1>2, <1>3, UsesStand

LEMMA UsesKept == ASSUME UsesInv, [Next]_fvars PROVE UsesInv'
  <1>1. CASE WalkInto \/ WalkTooDeep \/ WalkFile \/ WalkUp \/ WalkDone \/ LoadPacks
    BY <1>1, WalkUses
  <1>2. CASE SearchUses \/ Loading \/ Parse \/ Bind
    BY <1>2, GraphUses, LoadingUses, ParseUses, BindUses
  <1>3. CASE BeginStep \/ ExpandUse \/ ExpandPayload \/ ExpandRef \/ ExpandExpect
    BY <1>3, BeginUses, ExpandUses, PayloadUses, RefUses, ExpectUses
  <1>4. CASE LeaveMacro \/ EndScenario \/ Finished \/ Rest \/ UNCHANGED fvars
    BY <1>4, LeaveUses, EndUses, RestUses
  <1> QED
    BY <1>1, <1>2, <1>3, <1>4 DEF Next

LEMMA UsesInvSafe == ASSUME UsesInv PROVE UsesSafe
  <1>1. GraphTypeOK /\ RankedWhenClean /\ CyclesReal
    BY SearchRanks DEF UsesInv
  <1>2. ASSUME pc = "lower" PROVE Len(frames) <= MaxUse /\ "expansion_too_deep" \notin faults
    <2>1. suite \in Suites /\ Searching /\ Cleared /\ Expanding(Packs_, chains, frames) /\ Unspent(faults)
      BY <1>2 DEF UsesInv
    <2>2. Fit(Packs_)
      BY <2>1, SuiteFits
    <2> QED
      BY <2>1, <2>2, ExpandingBounded DEF Unspent
  <1> QED
    BY <1>1, <1>2 DEF UsesSafe

(***************************************************************************)
(* The search of the `use:` graph ranks what it does not refuse, reports    *)
(* only cycles that are there, and what is accepted is never expanded       *)
(* deeper than a chain may be (use_graph_passes, expand_macro).             *)
(***************************************************************************)
THEOREM UsesSafeHolds == Spec => []UsesSafe
  <1>1. Init => UsesInv
    BY UsesStart
  <1>2. UsesInv /\ [Next]_fvars => UsesInv'
    BY UsesKept
  <1>3. UsesInv => UsesSafe
    BY UsesInvSafe
  <1> QED
    BY <1>1, <1>2, <1>3, PTL DEF Spec

(***************************************************************************)
(* The walk.  A directory that was entered is read as one place only, and   *)
(* what it has and is not still to be read was found under that place's     *)
(* route, or entered, or is skipped.                                        *)
(***************************************************************************)
TrailFits(tree, places, dirs) ==
    /\ \E S : places \in Seq(S)
    /\ \A i \in 1..Len(places) :
          /\ places[i] = [dir |-> places[i].dir, route |-> places[i].route, todo |-> places[i].todo]
          /\ places[i].dir \in dirs
          /\ \A e \in places[i].todo : e \in tree[places[i].dir].entries
    /\ \A i, j \in 1..Len(places) : places[i].dir = places[j].dir => i = j

Pending(places, d, e) == \E i \in 1..Len(places) : places[i].dir = d /\ e \in places[i].todo

Settled(tree, dirs, files, d, e) ==
    IF e.dir = 0 THEN \E f \in files : f.dir = d /\ f.file = e.name
    ELSE tree[e.dir].skip \/ e.dir \in dirs

Covered(tree, places, dirs, files) ==
    \A d \in dirs : \A e \in tree[d].entries : Pending(places, d, e) \/ Settled(tree, dirs, files, d, e)

Routed(places, dirs, files) ==
    /\ \A f \in files : f = [route |-> f.route, dir |-> f.dir, file |-> f.file] /\ f.dir \in dirs
    /\ \A f, g \in files : f.dir = g.dir => f.route = g.route
    /\ \A f \in files : \A i \in 1..Len(places) : places[i].dir = f.dir => places[i].route = f.route

Walking(tree, places, dirs, files) ==
    TrailFits(tree, places, dirs) /\ Covered(tree, places, dirs, files) /\ Routed(places, dirs, files)

Entering == suite.root \in seen /\ seen \subseteq Reached

WalkInv ==
    /\ suite \in Suites
    /\ pc # "refused" \/ faults # {"too_deep"} => Entering /\ Walking(suite.tree, trail, seen, found)
    /\ pc # "walk" => trail = <<>> \/ (pc = "refused" /\ faults = {"too_deep"})

LEMMA RootReached == ASSUME suite \in Suites PROVE suite.root \in Reached
  BY SuiteFits DEF Reached

LEMMA EntryReached ==
    ASSUME suite \in Suites, NEW d \in Reached, NEW e \in suite.tree[d].entries, Entered(e)
    PROVE  e.dir \in Reached
  <1>1. d \in DOMAIN suite.tree
    BY DEF Reached
  <1>2. e.dir \in DOMAIN suite.tree
    BY <1>1, SuiteFits DEF Entered
  <1>3. ASSUME NEW D \in SUBSET DOMAIN suite.tree, suite.root \in D, Closed(D) PROVE e.dir \in D
    BY <1>3 DEF Reached, Closed
  <1> QED
    BY <1>2, <1>3 DEF Reached

LEMMA WalkStart == Init => WalkInv
  <1> SUFFICES ASSUME Init PROVE WalkInv
    OBVIOUS
  <1>1. suite \in Suites
    BY DEF Init, Suites
  <1> DEFINE f == [dir |-> suite.root, route |-> <<>>, todo |-> suite.tree[suite.root].entries]
  <1>2. pc = "walk" /\ trail = <<f>> /\ seen = {suite.root} /\ found = {}
    BY DEF Init
  <1>3. f.dir = suite.root /\ f.todo = suite.tree[suite.root].entries
        /\ f = [dir |-> f.dir, route |-> f.route, todo |-> f.todo]
    OBVIOUS
  <1> HIDE DEF f
  <1>4. trail \in Seq({f}) /\ Len(trail) = 1 /\ trail[1] = f
    BY <1>2
  <1>5. TrailFits(suite.tree, trail, seen)
    <2>1. \A i \in 1..Len(trail) : i = 1 /\ trail[i] = f
      BY <1>4
    <2>2. f.dir \in seen /\ \A e \in f.todo : e \in suite.tree[f.dir].entries
      BY <1>2, <1>3
    <2> QED
      BY <1>3, <1>4, <2>1, <2>2 DEF TrailFits
  <1>6. Covered(suite.tree, trail, seen, found)
    BY <1>2, <1>3, <1>4 DEF Covered, Pending
  <1>7. Routed(trail, seen, found)
    BY <1>2 DEF Routed
  <1>8. Entering
    BY <1>1, <1>2, RootReached DEF Entering
  <1> QED
    BY <1>1, <1>2, <1>5, <1>6, <1>7, <1>8 DEF WalkInv, Walking

\* An entry that was taken is no longer to be read.
LEMMA TookTells ==
    ASSUME NEW tree, NEW dirs, TrailFits(tree, trail, dirs), trail # <<>>, NEW e
    PROVE  /\ TrailFits(tree, Took(e), dirs)
           /\ Len(trail) \in Nat \ {0} /\ Len(trail) \in 1..Len(trail) /\ Here = trail[Len(trail)]
           /\ \E S : Took(e) \in Seq(S)
           /\ Len(Took(e)) = Len(trail)
           /\ \A i \in 1..Len(trail) : Took(e)[i].dir = trail[i].dir /\ Took(e)[i].route = trail[i].route
           /\ \A d, x : Pending(trail, d, x) => Pending(Took(e), d, x) \/ (d = Here.dir /\ x = e)
  <1> DEFINE n == Len(trail)
             h == trail[n]
             f == [h EXCEPT !.todo = @ \ {e}]
             s == [trail EXCEPT ![n] = f]
  <1>1. PICK S : trail \in Seq(S)
    BY DEF TrailFits
  <1>2. n \in Nat \ {0} /\ n \in 1..n /\ Here = h
    BY <1>1 DEF Here
  <1>3. \A i \in 1..n :
          /\ trail[i] = [dir |-> trail[i].dir, route |-> trail[i].route, todo |-> trail[i].todo]
          /\ trail[i].dir \in dirs /\ \A x \in trail[i].todo : x \in tree[trail[i].dir].entries
    BY DEF TrailFits
  <1>4. h = [dir |-> h.dir, route |-> h.route, todo |-> h.todo]
    BY <1>2, <1>3
  <1>5. f = [dir |-> h.dir, route |-> h.route, todo |-> h.todo \ {e}]
    <2>1. PICK a, b, c : h = [dir |-> a, route |-> b, todo |-> c]
      BY <1>4
    <2> HIDE DEF h
    <2>2. h.dir = a /\ h.route = b /\ h.todo = c
      BY <2>1
    <2>3. \A t : [[dir |-> a, route |-> b, todo |-> c] EXCEPT !.todo = t]
                   = [dir |-> a, route |-> b, todo |-> t]
      OBVIOUS
    <2>4. f = [dir |-> a, route |-> b, todo |-> h.todo \ {e}]
      BY <2>1, <2>3
    <2> QED
      BY <2>2, <2>4
  <1>6. f.dir = h.dir /\ f.route = h.route /\ f.todo = h.todo \ {e}
        /\ f = [dir |-> f.dir, route |-> f.route, todo |-> f.todo]
    BY <1>5
  <1>7. Took(e) = s
    BY DEF Took
  <1>8. \A x \in h.todo : x \in tree[h.dir].entries
    BY <1>2, <1>3
  <1>9. \A i, j \in 1..n : trail[i].dir = trail[j].dir => i = j
    BY DEF TrailFits
  <1> HIDE DEF f
  <1>10. trail \in Seq(S \cup {f}) /\ f \in S \cup {f}
    BY <1>1
  <1>11. s \in Seq(S \cup {f}) /\ Len(s) = n /\ s[n] = f /\ \A i \in 1..n : i # n => s[i] = trail[i]
    BY <1>2, <1>10
  <1> HIDE DEF s, n, h
  <1>12. \A i \in 1..n : s[i].dir = trail[i].dir /\ s[i].route = trail[i].route
    BY <1>6, <1>11 DEF h
  <1>13. \A i \in 1..n :
           /\ s[i] = [dir |-> s[i].dir, route |-> s[i].route, todo |-> s[i].todo]
           /\ s[i].dir \in dirs /\ \A x \in s[i].todo : x \in tree[s[i].dir].entries
    <2> TAKE i \in 1..n
    <2>1. CASE i = n
      BY <2>1, <1>2, <1>3, <1>6, <1>8, <1>11 DEF h
    <2>2. CASE i # n
      <3>1. s[i] = trail[i]
        BY <2>2, <1>11
      <3> QED
        BY <3>1, <1>3
    <2> QED
      BY <2>1, <2>2
  <1>14. TrailFits(tree, s, dirs)
    <2>1. \A i, j \in 1..n : s[i].dir = s[j].dir => i = j
      BY <1>9, <1>12
    <2> QED
      BY <1>11, <1>13, <2>1 DEF TrailFits
  <1>15. ASSUME NEW d, NEW x, Pending(trail, d, x) PROVE Pending(s, d, x) \/ (d = Here.dir /\ x = e)
    <2>1. PICK i \in 1..n : trail[i].dir = d /\ x \in trail[i].todo
      BY <1>15 DEF Pending, n
    <2>2. CASE i # n
      <3>1. s[i] = trail[i]
        BY <2>2, <1>11
      <3> QED
        BY <2>1, <3>1, <1>11 DEF Pending
    <2>3. CASE i = n
      <3>1. d = h.dir /\ x \in h.todo
        BY <2>1, <2>3 DEF h
      <3>2. CASE x = e
        BY <3>1, <3>2, <1>2
      <3>3. CASE x # e
        <4>1. s[n].dir = d /\ x \in s[n].todo
          BY <3>1, <3>3, <1>6, <1>11
        <4> QED
          BY <4>1, <1>2, <1>11 DEF Pending
      <3> QED
        BY <3>2, <3>3
    <2> QED
      BY <2>2, <2>3
  <1> QED
    BY <1>2, <1>7, <1>11, <1>12, <1>14, <1>15 DEF n, h

\* A directory that is entered has all its entries still to be read.
Deeper(s, places, tree, d, route) ==
    s = Append(places, [dir |-> d, route |-> route, todo |-> tree[d].entries])

LEMMA EntersTells ==
    ASSUME NEW tree, NEW dirs, NEW places, TrailFits(tree, places, dirs),
           NEW d, d \notin dirs, NEW route, NEW s, Deeper(s, places, tree, d, route)
    PROVE  /\ TrailFits(tree, s, dirs \cup {d})
           /\ \A i \in 1..Len(s) : s[i].dir = d \/ (i \in 1..Len(places) /\ s[i] = places[i])
           /\ \A c, x : Pending(places, c, x) => Pending(s, c, x)
           /\ \A x \in tree[d].entries : Pending(s, d, x)
  <1> DEFINE f == [dir |-> d, route |-> route, todo |-> tree[d].entries]
             n == Len(places)
  <1>1. PICK S : places \in Seq(S)
    BY DEF TrailFits
  <1>2. \A i \in 1..n :
          /\ places[i] = [dir |-> places[i].dir, route |-> places[i].route, todo |-> places[i].todo]
          /\ places[i].dir \in dirs /\ \A x \in places[i].todo : x \in tree[places[i].dir].entries
    BY DEF TrailFits
  <1>3. \A i, j \in 1..n : places[i].dir = places[j].dir => i = j
    BY DEF TrailFits
  <1>4. f.dir = d /\ f.todo = tree[d].entries /\ f = [dir |-> f.dir, route |-> f.route, todo |-> f.todo]
    OBVIOUS
  <1>5. s = Append(places, f)
    BY DEF Deeper
  <1> HIDE DEF f
  <1>6. places \in Seq(S \cup {f}) /\ f \in S \cup {f}
    BY <1>1
  <1>7. /\ n \in Nat /\ s \in Seq(S \cup {f}) /\ Len(s) = n + 1 /\ s[n + 1] = f
        /\ \A i \in 1..n : s[i] = places[i]
    BY <1>5, <1>6
  <1> HIDE DEF n
  <1>8. \A i \in 1..(n + 1) : i = n + 1 \/ i \in 1..n
    BY <1>7
  <1>9. \A i \in 1..(n + 1) :
          /\ s[i] = [dir |-> s[i].dir, route |-> s[i].route, todo |-> s[i].todo]
          /\ s[i].dir \in dirs \cup {d} /\ \A x \in s[i].todo : x \in tree[s[i].dir].entries
    BY <1>2, <1>4, <1>7, <1>8
  <1>10. \A i, j \in 1..(n + 1) : s[i].dir = s[j].dir => i = j
    <2> TAKE i, j \in 1..(n + 1)
    <2>1. \A k \in 1..n : s[k].dir \in dirs /\ s[k].dir # d
      BY <1>2, <1>7
    <2>2. s[n + 1].dir = d
      BY <1>4, <1>7
    <2> QED
      BY <1>3, <1>7, <1>8, <2>1, <2>2
  <1>11. TrailFits(tree, s, dirs \cup {d})
    BY <1>7, <1>9, <1>10 DEF TrailFits
  <1>12. \A i \in 1..Len(s) : s[i].dir = d \/ (i \in 1..n /\ s[i] = places[i])
    BY <1>4, <1>7, <1>8
  <1>13. \A c, x : Pending(places, c, x) => Pending(s, c, x)
    <2> SUFFICES ASSUME NEW c, NEW x, Pending(places, c, x) PROVE Pending(s, c, x)
      OBVIOUS
    <2>1. PICK i \in 1..n : places[i].dir = c /\ x \in places[i].todo
      BY DEF Pending, n
    <2>2. i \in 1..Len(s) /\ s[i] = places[i]
      BY <1>7
    <2> QED
      BY <2>1, <2>2 DEF Pending
  <1>14. \A x \in tree[d].entries : Pending(s, d, x)
    <2>1. n + 1 \in 1..Len(s) /\ s[n + 1].dir = d /\ s[n + 1].todo = tree[d].entries
      BY <1>4, <1>7
    <2> QED
      BY <2>1 DEF Pending
  <1> QED
    BY <1>11, <1>12, <1>13, <1>14 DEF n

LEMMA IntoWalks == ASSUME WalkInv, WalkInto PROVE WalkInv'
  <1> DEFINE tree == suite.tree
  <1>1. PICK e \in Here.todo :
          /\ e.dir # 0 /\ Descend(e) /\ seen' = IF suite.tree[e.dir].skip THEN seen ELSE seen \cup {e.dir}
    BY DEF WalkInto
  <1>2. pc = "walk" /\ pc' = "walk" /\ suite' = suite /\ found' = found /\ trail # <<>>
    BY DEF WalkInto
  <1>3. suite \in Suites /\ Entering /\ Walking(tree, trail, seen, found)
    BY <1>2 DEF WalkInv
  <1>4. TrailFits(tree, trail, seen) /\ Covered(tree, trail, seen, found) /\ Routed(trail, seen, found)
    BY <1>3 DEF Walking
  <1> HIDE DEF tree
  <1>5. /\ TrailFits(tree, Took(e), seen)
        /\ Len(trail) \in 1..Len(trail) /\ Here = trail[Len(trail)] /\ Len(Took(e)) = Len(trail)
        /\ \A i \in 1..Len(trail) : Took(e)[i].dir = trail[i].dir /\ Took(e)[i].route = trail[i].route
        /\ \A d, x : Pending(trail, d, x) => Pending(Took(e), d, x) \/ (d = Here.dir /\ x = e)
    BY <1>2, <1>4, TookTells
  <1>6. Here.dir \in seen /\ e \in tree[Here.dir].entries
    BY <1>4, <1>5 DEF TrailFits
  <1>7. Routed(Took(e), seen, found)
    BY <1>4, <1>5 DEF Routed
  <1>8. CASE tree[e.dir].skip \/ e.dir \in seen
    <2>1. trail' = Took(e) /\ seen' = seen
      BY <1>1, <1>8 DEF Descend, tree
    <2>2. Covered(tree, Took(e), seen, found)
      <3> SUFFICES ASSUME NEW d \in seen, NEW x \in tree[d].entries
                   PROVE  Pending(Took(e), d, x) \/ Settled(tree, seen, found, d, x)
        BY DEF Covered
      <3>1. Pending(trail, d, x) \/ Settled(tree, seen, found, d, x)
        BY <1>4 DEF Covered
      <3>2. Settled(tree, seen, found, d, e)
        BY <1>1, <1>8 DEF Settled
      <3> QED
        BY <1>5, <3>1, <3>2
    <2>3. Entering' /\ Walking(suite.tree, trail, seen, found)'
      BY <1>2, <1>3, <1>5, <1>7, <2>1, <2>2 DEF Entering, Walking, Reached, Closed, Entered, tree
    <2> QED
      BY <1>2, <1>3, <2>3 DEF WalkInv
  <1>9. CASE ~ (tree[e.dir].skip \/ e.dir \in seen)
    <2> DEFINE s == Append(Took(e), [dir |-> e.dir, route |-> Append(Here.route, e.name),
                                     todo |-> tree[e.dir].entries])
               dirs == seen \cup {e.dir}
    <2>1. trail' = s /\ seen' = dirs
      BY <1>1, <1>9 DEF Descend, tree
    <2>0. s = Append(Took(e), [dir |-> e.dir, route |-> Append(Here.route, e.name),
                               todo |-> tree[e.dir].entries])
      OBVIOUS
    <2> HIDE DEF s
    <2>2. /\ TrailFits(tree, s, dirs)
          /\ \A i \in 1..Len(s) : s[i].dir = e.dir \/ (i \in 1..Len(Took(e)) /\ s[i] = Took(e)[i])
          /\ \A c, x : Pending(Took(e), c, x) => Pending(s, c, x)
          /\ \A x \in tree[e.dir].entries : Pending(s, e.dir, x)
      <3>1. e.dir \notin seen
        BY <1>9
      <3> HIDE DEF dirs
      <3>2. dirs = seen \cup {e.dir}
        BY DEF dirs
      <3> DEFINE q == Took(e)
                 d == e.dir
                 route == Append(Here.route, e.name)
      <3>3. TrailFits(tree, q, seen) /\ d \notin seen
        BY <1>5, <3>1
      <3>4. Deeper(s, q, tree, d, route)
        BY <2>0 DEF Deeper
      <3> HIDE DEF q, d, route
      <3>5. /\ TrailFits(tree, s, seen \cup {d})
            /\ \A i \in 1..Len(s) : s[i].dir = d \/ (i \in 1..Len(q) /\ s[i] = q[i])
            /\ \A c, x : Pending(q, c, x) => Pending(s, c, x)
            /\ \A x \in tree[d].entries : Pending(s, d, x)
        BY <3>3, <3>4, EntersTells
      <3> QED
        BY <3>2, <3>5 DEF q, d
    <2>3. Covered(tree, s, dirs, found)
      <3> SUFFICES ASSUME NEW d \in dirs, NEW x \in tree[d].entries
                   PROVE  Pending(s, d, x) \/ Settled(tree, dirs, found, d, x)
        BY DEF Covered
      <3>1. CASE d = e.dir
        BY <2>2, <3>1
      <3>2. CASE d # e.dir
        <4>1. Pending(trail, d, x) \/ Settled(tree, seen, found, d, x)
          BY <1>4, <3>2 DEF Covered
        <4>2. Settled(tree, dirs, found, d, e)
          BY <1>1 DEF Settled
        <4>3. Settled(tree, seen, found, d, x) => Settled(tree, dirs, found, d, x)
          BY DEF Settled
        <4> QED
          BY <1>5, <2>2, <4>1, <4>2, <4>3
      <3> QED
        BY <3>1, <3>2
    <2>4. Routed(s, dirs, found)
      <3>1. \A f \in found : f = [route |-> f.route, dir |-> f.dir, file |-> f.file] /\ f.dir \in dirs
        BY <1>7 DEF Routed
      <3>2. \A f \in found : \A i \in 1..Len(s) : s[i].dir = f.dir => s[i].route = f.route
        <4> SUFFICES ASSUME NEW f \in found, NEW i \in 1..Len(s), s[i].dir = f.dir PROVE s[i].route = f.route
          OBVIOUS
        <4>1. f.dir \in seen /\ f.dir # e.dir
          BY <1>7, <1>9 DEF Routed
        <4>2. i \in 1..Len(Took(e)) /\ s[i] = Took(e)[i]
          BY <2>2, <4>1
        <4> QED
          BY <1>7, <4>2 DEF Routed
      <3> QED
        BY <1>7, <3>1, <3>2 DEF Routed
    <2>5. e.dir \in Reached
      <3>1. Here.dir \in Reached
        BY <1>3, <1>6 DEF Entering
      <3> QED
        BY <1>1, <1>3, <1>6, <1>9, <3>1, EntryReached DEF Entered, tree
    <2>6. Reached' = Reached
      BY <1>2 DEF Reached, Closed, Entered
    <2>7. Entering'
      BY <1>2, <1>3, <2>1, <2>5, <2>6 DEF Entering
    <2>8. Walking(suite.tree, trail, seen, found)'
      BY <1>2, <2>1, <2>2, <2>3, <2>4 DEF Walking, tree
    <2> QED
      BY <1>2, <1>3, <2>7, <2>8 DEF WalkInv
  <1> QED
    BY <1>8, <1>9

LEMMA FileWalks == ASSUME WalkInv, WalkFile PROVE WalkInv'
  <1> DEFINE tree == suite.tree
  <1>1. PICK e \in Here.todo :
          /\ e.dir = 0 /\ trail' = Took(e)
          /\ found' = found \cup {[route |-> Here.route, dir |-> Here.dir, file |-> e.name]}
    BY DEF WalkFile
  <1>2. pc = "walk" /\ pc' = "walk" /\ suite' = suite /\ seen' = seen /\ trail # <<>>
    BY DEF WalkFile
  <1>3. suite \in Suites /\ Entering /\ Walking(tree, trail, seen, found)
    BY <1>2 DEF WalkInv
  <1>4. TrailFits(tree, trail, seen) /\ Covered(tree, trail, seen, found) /\ Routed(trail, seen, found)
    BY <1>3 DEF Walking
  <1> HIDE DEF tree
  <1>5. /\ TrailFits(tree, Took(e), seen)
        /\ Len(trail) \in 1..Len(trail) /\ Here = trail[Len(trail)] /\ Len(Took(e)) = Len(trail)
        /\ \A i \in 1..Len(trail) : Took(e)[i].dir = trail[i].dir /\ Took(e)[i].route = trail[i].route
        /\ \A d, x : Pending(trail, d, x) => Pending(Took(e), d, x) \/ (d = Here.dir /\ x = e)
    BY <1>2, <1>4, TookTells
  <1>6. Here.dir \in seen
    BY <1>4, <1>5 DEF TrailFits
  <1> DEFINE new == [route |-> Here.route, dir |-> Here.dir, file |-> e.name]
             files == found \cup {new}
  <1>7. new.route = Here.route /\ new.dir = Here.dir /\ new.file = e.name
        /\ new = [route |-> new.route, dir |-> new.dir, file |-> new.file]
    OBVIOUS
  <1>8. found' = files
    BY <1>1
  <1> HIDE DEF new
  <1>9. Covered(tree, Took(e), seen, files)
    <2> SUFFICES ASSUME NEW d \in seen, NEW x \in tree[d].entries
                 PROVE  Pending(Took(e), d, x) \/ Settled(tree, seen, files, d, x)
      BY DEF Covered
    <2>1. Pending(trail, d, x) \/ Settled(tree, seen, found, d, x)
      BY <1>4 DEF Covered
    <2>2. Settled(tree, seen, files, Here.dir, e)
      BY <1>1, <1>7 DEF Settled
    <2>3. Settled(tree, seen, found, d, x) => Settled(tree, seen, files, d, x)
      BY DEF Settled
    <2> QED
      BY <1>5, <2>1, <2>2, <2>3
  <1>10. Routed(Took(e), seen, files)
    <2>1. \A f \in files : f = [route |-> f.route, dir |-> f.dir, file |-> f.file] /\ f.dir \in seen
      BY <1>4, <1>6, <1>7 DEF Routed
    <2>2. \A f \in files : \A i \in 1..Len(trail) : trail[i].dir = f.dir => trail[i].route = f.route
      <3> SUFFICES ASSUME NEW f \in files, NEW i \in 1..Len(trail), trail[i].dir = f.dir
                   PROVE  trail[i].route = f.route
        OBVIOUS
      <3>1. CASE f \in found
        BY <1>4, <3>1 DEF Routed
      <3>2. CASE f = new
        <4>1. i = Len(trail)
          BY <1>4, <1>5, <1>7, <3>2 DEF TrailFits
        <4> QED
          BY <1>5, <1>7, <3>2, <4>1
      <3> QED
        BY <3>1, <3>2
    <2>3. \A f \in files : f.dir = Here.dir => f.route = Here.route
      BY <1>5, <2>2
    <2>4. \A f, g \in files : f.dir = g.dir => f.route = g.route
      <3> TAKE f, g \in files
      <3>1. CASE f \in found /\ g \in found
        BY <1>4, <3>1 DEF Routed
      <3>2. CASE f = new \/ g = new
        BY <1>7, <2>3, <3>2
      <3> QED
        BY <3>1, <3>2
    <2>5. \A f \in files : \A i \in 1..Len(Took(e)) : Took(e)[i].dir = f.dir => Took(e)[i].route = f.route
      BY <1>5, <2>2
    <2> QED
      BY <2>1, <2>4, <2>5 DEF Routed
  <1>11. Entering'
    BY <1>2, <1>3 DEF Entering, Reached, Closed, Entered
  <1>12. Walking(suite.tree, trail, seen, found)'
    BY <1>1, <1>2, <1>5, <1>8, <1>9, <1>10 DEF Walking, tree
  <1> QED
    BY <1>2, <1>3, <1>11, <1>12 DEF WalkInv

LEMMA UpWalks == ASSUME WalkInv, WalkUp PROVE WalkInv'
  <1> DEFINE tree == suite.tree
             n == Len(trail)
             s == Pop(trail)
  <1>1. /\ pc = "walk" /\ pc' = "walk" /\ suite' = suite /\ seen' = seen /\ found' = found
        /\ trail # <<>> /\ Here.todo = {} /\ trail' = s
    BY DEF WalkUp
  <1>2. suite \in Suites /\ Entering /\ Walking(tree, trail, seen, found)
    BY <1>1 DEF WalkInv
  <1>3. TrailFits(tree, trail, seen) /\ Covered(tree, trail, seen, found) /\ Routed(trail, seen, found)
    BY <1>2 DEF Walking
  <1> HIDE DEF tree
  <1>4. PICK S : trail \in Seq(S)
    BY <1>3 DEF TrailFits
  <1>5. n \in Nat \ {0} /\ s \in Seq(S) /\ Len(s) = n - 1 /\ \A i \in 1..(n - 1) : s[i] = trail[i]
    BY <1>1, <1>4, TopOf
  <1>6. Here = trail[n]
    BY DEF Here
  <1> HIDE DEF n, s
  <1>7. \A i \in 1..Len(s) : i \in 1..n /\ s[i] = trail[i]
    BY <1>5
  <1>8. TrailFits(tree, s, seen)
    <2>1. \A i \in 1..n :
            /\ trail[i] = [dir |-> trail[i].dir, route |-> trail[i].route, todo |-> trail[i].todo]
            /\ trail[i].dir \in seen /\ \A e \in trail[i].todo : e \in tree[trail[i].dir].entries
      BY <1>3 DEF TrailFits, n
    <2>2. \A i, j \in 1..n : trail[i].dir = trail[j].dir => i = j
      BY <1>3 DEF TrailFits, n
    <2> QED
      BY <1>5, <1>7, <2>1, <2>2 DEF TrailFits
  <1>9. \A d, x : Pending(trail, d, x) => Pending(s, d, x)
    <2> SUFFICES ASSUME NEW d, NEW x, Pending(trail, d, x) PROVE Pending(s, d, x)
      OBVIOUS
    <2>1. PICK i \in 1..n : trail[i].dir = d /\ x \in trail[i].todo
      BY DEF Pending, n
    <2>2. i # n
      BY <1>1, <1>6, <2>1
    <2>3. i \in 1..Len(s)
      BY <1>5, <2>2
    <2> QED
      BY <1>7, <2>1, <2>3 DEF Pending
  <1>10. Covered(tree, s, seen, found)
    BY <1>3, <1>9 DEF Covered
  <1>11. Routed(s, seen, found)
    BY <1>3, <1>7 DEF Routed, n
  <1>12. Entering'
    BY <1>1, <1>2 DEF Entering, Reached, Closed, Entered
  <1>13. Walking(suite.tree, trail, seen, found)'
    BY <1>1, <1>8, <1>10, <1>11 DEF Walking, tree
  <1> QED
    BY <1>1, <1>2, <1>12, <1>13 DEF WalkInv

\* Once the walk has ended, nothing about it changes.
LEMMA WalkStands ==
    ASSUME WalkInv, UNCHANGED <<suite, wvars>>,
           pc # "walk" => pc' # "walk",
           pc # "walk" => pc # "refused" \/ UNCHANGED <<pc, faults>>,
           pc = "walk" => (pc' = "walk" /\ faults' = faults) \/ trail = <<>>
                          \/ (pc' = "refused" /\ faults' = {"too_deep"})
    PROVE  WalkInv'
  <1>1. suite' = suite /\ trail' = trail /\ seen' = seen /\ found' = found
    BY DEF wvars
  <1>2. Entering' <=> Entering
    BY <1>1 DEF Entering, Reached, Closed, Entered
  <1>3. Walking(suite.tree, trail, seen, found)' <=> Walking(suite.tree, trail, seen, found)
    BY <1>1
  <1>4. suite' \in Suites
    BY <1>1 DEF WalkInv
  <1>5. CASE pc = "walk"
    <2>1. Entering' /\ Walking(suite.tree, trail, seen, found)'
      BY <1>2, <1>3, <1>5 DEF WalkInv
    <2> QED
      BY <1>1, <1>4, <1>5, <2>1 DEF WalkInv
  <1>6. CASE pc # "walk" /\ pc # "refused"
    <2>1. Entering' /\ Walking(suite.tree, trail, seen, found)' /\ trail' = <<>>
      BY <1>1, <1>2, <1>3, <1>6 DEF WalkInv
    <2> QED
      BY <1>4, <2>1 DEF WalkInv
  <1>7. CASE pc = "refused"
    <2>1. pc' = pc /\ faults' = faults
      BY <1>7
    <2> QED
      BY <1>1, <1>2, <1>3, <1>4, <1>7, <2>1 DEF WalkInv
  <1> QED
    BY <1>5, <1>6, <1>7

LEMMA OtherWalks ==
    ASSUME WalkInv, [Next]_fvars, ~ WalkInto, ~ WalkFile, ~ WalkUp PROVE WalkInv'
  <1>1. CASE WalkTooDeep
    <2>1. pc = "walk" /\ pc' = "refused" /\ faults' = {"too_deep"} /\ UNCHANGED <<suite, wvars>>
      BY <1>1 DEF WalkTooDeep
    <2> QED
      BY <2>1, WalkStands
  <1>2. CASE WalkDone
    <2>1. pc = "walk" /\ pc' \in {"refused", "load"} /\ trail = <<>> /\ UNCHANGED <<suite, wvars>>
      BY <1>2 DEF WalkDone
    <2> QED
      BY <2>1, WalkStands
  <1>3. CASE LoadPacks \/ SearchUses \/ Loading \/ Parse \/ Bind
    <2>1. /\ pc \in {"load", "graph", "parse", "bind"} /\ UNCHANGED <<suite, wvars>>
          /\ pc' = pc \/ pc' \in {"graph", "parse", "bind", "lower", "refused"}
      BY <1>3 DEF LoadPacks, SearchUses, Loading, Parse, Bind
    <2> QED
      BY <2>1, WalkStands
  <1>4. CASE BeginStep \/ ExpandUse \/ ExpandPayload \/ ExpandRef \/ ExpandExpect \/ LeaveMacro \/ EndScenario
    <2>1. pc = "lower"
      BY <1>4 DEF BeginStep, ExpandUse, ExpandPayload, ExpandRef, ExpandExpect, LeaveMacro, EndScenario, More
    <2>2. pc' = pc /\ UNCHANGED <<suite, wvars>>
      BY <1>4 DEF BeginStep, ExpandUse, ExpandPayload, ExpandRef, ExpandExpect, LeaveMacro,
                  EndScenario, Finish
    <2> QED
      BY <2>1, <2>2, WalkStands
  <1>5. CASE Finished
    <2>1. pc = "lower" /\ pc' \in {"done", "refused"} /\ UNCHANGED <<suite, wvars>>
      BY <1>5 DEF Finished
    <2> QED
      BY <2>1, WalkStands
  <1>6. CASE Rest \/ UNCHANGED fvars
    <2>1. UNCHANGED <<suite, wvars>> /\ pc' = pc /\ faults' = faults
      BY <1>6 DEF Rest, fvars
    <2> QED
      BY <2>1, WalkStands
  <1> QED
    BY <1>1, <1>2, <1>3, <1>4, <1>5, <1>6 DEF Next

LEMMA WalkKept == ASSUME WalkInv, [Next]_fvars PROVE WalkInv'
  BY IntoWalks, FileWalks, UpWalks, OtherWalks

\* A walk that has come back has entered all that can be reached.
LEMMA WalkInvOnce == ASSUME WalkInv PROVE FilesOnce
  <1> SUFFICES ASSUME pc # "walk", faults # {"too_deep"}
               PROVE  /\ \A f \in found : f.dir \in Reached
                      /\ \A d \in Reached : \A e \in suite.tree[d].entries :
                            e.dir = 0 => Cardinality({f \in found : f.dir = d /\ f.file = e.name}) = 1
    BY DEF FilesOnce
  <1>1. suite \in Suites /\ Entering /\ Walking(suite.tree, trail, seen, found) /\ trail = <<>>
    BY DEF WalkInv
  <1>2. \A d, x : ~ Pending(trail, d, x)
    BY <1>1 DEF Pending
  <1>3. \A d \in seen : \A e \in suite.tree[d].entries : Settled(suite.tree, seen, found, d, e)
    BY <1>1, <1>2 DEF Walking, Covered
  <1>4. Closed(seen)
    BY <1>3 DEF Closed, Settled, Entered
  <1>5. seen \in SUBSET DOMAIN suite.tree /\ suite.root \in seen
    BY <1>1 DEF Entering, Reached
  <1>6. Reached \subseteq seen
    BY <1>4, <1>5 DEF Reached
  <1>7. \A f \in found : f.dir \in Reached
    BY <1>1 DEF Walking, Routed, Entering
  <1>8. ASSUME NEW d \in Reached, NEW e \in suite.tree[d].entries, e.dir = 0
        PROVE  Cardinality({f \in found : f.dir = d /\ f.file = e.name}) = 1
    <2>1. PICK f \in found : f.dir = d /\ f.file = e.name
      BY <1>3, <1>6, <1>8 DEF Settled
    <2>2. \A g \in found : g.dir = d /\ g.file = e.name => g = f
      <3> SUFFICES ASSUME NEW g \in found, g.dir = d, g.file = e.name PROVE g = f
        OBVIOUS
      <3>1. /\ f = [route |-> f.route, dir |-> f.dir, file |-> f.file]
            /\ g = [route |-> g.route, dir |-> g.dir, file |-> g.file]
            /\ f.route = g.route
        BY <1>1, <2>1 DEF Walking, Routed
      <3> QED
        BY <2>1, <3>1
    <2>3. {g \in found : g.dir = d /\ g.file = e.name} = {f}
      BY <2>1, <2>2
    <2> QED
      BY <2>3, FS_Singleton
  <1> QED
    BY <1>7, <1>8

(***************************************************************************)
(* Whatever order entries are read in and wherever links lead, the walk has *)
(* every feature it can reach, and each of them once (walk_dir).            *)
(***************************************************************************)
THEOREM FilesOnceHolds == Spec => []FilesOnce
  <1>1. Init => WalkInv
    BY WalkStart
  <1>2. WalkInv /\ [Next]_fvars => WalkInv'
    BY WalkKept
  <1>3. WalkInv => FilesOnce
    BY WalkInvOnce
  <1> QED
    BY <1>1, <1>2, <1>3, PTL DEF Spec

-----------------------------------------------------------------------------
(***************************************************************************)
(* Numbers: a least one, and counting on.                                   *)
(***************************************************************************)
LEMMA LeastNumber ==
    ASSUME NEW S, S \subseteq Nat, S # {}
    PROVE  \E n \in S : \A m \in S : n <= m
  <1> DEFINE R == {ss \in Nat \X Nat : ss[1] < ss[2]}
  <1>1. IsWellFoundedOn(R, Nat)
    BY NatLessThanWellFounded DEF OpToRel
  <1> HIDE DEF R
  <1>2. PICK n \in S : \A m \in S : ~(<<m, n>> \in R)
    BY <1>1, WFMin
  <1>3. \A m, k \in Nat : m < k => <<m, k>> \in R
    BY DEF R
  <1>4. \A m \in S : ~(m < n)
    BY <1>2, <1>3
  <1> QED
    BY <1>4

LEMMA CountingOn ==
    ASSUME NEW S, 0 \in S, \A n \in Nat : n \in S => n + 1 \in S
    PROVE  Nat \subseteq S
  <1> SUFFICES ASSUME Nat \ S # {} PROVE FALSE
    OBVIOUS
  <1>1. PICK n \in Nat \ S : \A m \in Nat \ S : n <= m
    BY LeastNumber
  <1>2. n # 0 /\ n - 1 \in Nat
    BY <1>1
  <1>3. n - 1 \in S
    BY <1>1, <1>2
  <1> QED
    BY <1>1, <1>2, <1>3

(***************************************************************************)
(* Sequences: what is flattened has the elements of its parts.              *)
(***************************************************************************)
\* Together(f, s): f[i] is the first i parts of s, one after the other.
Together(f, s) ==
    f = [i \in 1..Len(s) |->
            IF i = 1 THEN s[i]
            ELSE f[i - 1] \o s[i]]
TogetherTo(f, s, k) ==
    \A i \in 1..Len(s) :
        i <= k => f[i] = IF i = 1 THEN s[i]
                         ELSE f[i - 1] \o s[i]

LEMMA TogetherOn ==
    ASSUME NEW s, Len(s) \in Nat,
           NEW k \in Nat, NEW f, TogetherTo(f, s, k)
    PROVE  \E g : TogetherTo(g, s, k + 1)
  <1> DEFINE g == [i \in 1..Len(s) |->
                     IF i <= k THEN f[i]
                     ELSE IF i = 1 THEN s[i]
                     ELSE f[i - 1] \o s[i]]
  <1>1. \A i \in 1..Len(s) : g[i] = IF i <= k THEN f[i]
                                    ELSE IF i = 1 THEN s[i]
                                    ELSE f[i - 1] \o s[i]
    OBVIOUS
  <1> HIDE DEF g
  <1>2. ASSUME NEW i \in 1..Len(s), i <= k + 1
        PROVE  g[i] = IF i = 1 THEN s[i]
                      ELSE g[i - 1] \o s[i]
    <2>1. i # 1 => i - 1 \in 1..Len(s) /\ i - 1 <= k
      BY <1>2
    <2>2. i # 1 => g[i - 1] = f[i - 1]
      BY <1>1, <2>1
    <2>3. CASE i <= k
      <3>1. f[i] = IF i = 1 THEN s[i]
                   ELSE f[i - 1] \o s[i]
        BY <2>3, Zenon DEF TogetherTo
      <3> QED
        BY <1>1, <2>2, <2>3, <3>1, Zenon
    <2>4. CASE ~ (i <= k)
      BY <1>1, <2>2, <2>4, Zenon
    <2> QED
      BY <2>3, <2>4
  <1> QED
    BY <1>2 DEF TogetherTo

LEMMA TogetherRuns ==
    ASSUME NEW s, Len(s) \in Nat
    PROVE  \E f : Together(f, s)
  <1> DEFINE P == {k \in Nat : \E f : TogetherTo(f, s, k)}
  <1>1. 0 \in P
    <2> DEFINE f == [i \in 1..Len(s) |-> s[i]]
    <2>1. TogetherTo(f, s, 0)
      BY DEF TogetherTo
    <2> QED
      BY <2>1
  <1>2. \A k \in Nat : k \in P => k + 1 \in P
    BY TogetherOn
  <1> HIDE DEF P
  <1>3. Len(s) \in P
    BY <1>1, <1>2, CountingOn
  <1>4. PICK f : TogetherTo(f, s, Len(s))
    BY <1>3 DEF P
  <1> DEFINE g == [i \in 1..Len(s) |-> f[i]]
  <1>5. \A i \in 1..Len(s) : g[i] = f[i]
    OBVIOUS
  <1>6. g = [i \in 1..Len(s) |-> g[i]]
    OBVIOUS
  <1> HIDE DEF g
  <1>7. ASSUME NEW i \in 1..Len(s)
        PROVE  g[i] = IF i = 1 THEN s[i]
                      ELSE g[i - 1] \o s[i]
    <2>1. i # 1 => i - 1 \in 1..Len(s)
      OBVIOUS
    <2>2. i <= Len(s)
      OBVIOUS
    <2>3. f[i] = IF i = 1 THEN s[i]
                 ELSE f[i - 1] \o s[i]
      BY <1>4, <2>2, Zenon DEF TogetherTo
    <2> QED
      BY <1>5, <2>1, <2>3, Zenon
  <1>8. Together(g, s)
    BY <1>6, <1>7, Zenon DEF Together
  <1> QED
    BY <1>8

LEMMA FlattenFits ==
    ASSUME NEW X, NEW n \in Nat, NEW s \in [1..n -> Seq(X)]
    PROVE  FlattenSeq(s) \in Seq(X)
  <1>1. s \in Seq(Seq(X)) /\ Len(s) = n
    BY SequenceOf
  <1>2. CASE n = 0
    <2>1. s \in Seq(X)
      <3>1. \A i \in 1..n : s[i] \in X
        BY <1>2
      <3> QED
        BY <3>1, SequenceOf
    <2>2. Len(s) = 0
      BY <1>1, <1>2
    <2>3. FlattenSeq(s) = s
      BY <2>2, Zenon DEF FlattenSeq
    <2> QED
      BY <2>1, <2>3, Zenon
  <1>3. CASE n # 0
    <2>1. PICK f : f = CHOOSE g : Together(g, s)
      OBVIOUS
    <2>2. Together(f, s)
      BY <1>1, <2>1, TogetherRuns, Zenon
    <2>3. FlattenSeq(s) = f[n]
      BY <1>1, <1>3, <2>1, Zenon DEF FlattenSeq, Together
    <2>4. \A i \in 1..n : f[i] = IF i = 1 THEN s[i] ELSE f[i - 1] \o s[i]
      BY <1>1, <2>2 DEF Together
    <2> DEFINE P == {i \in Nat : i \in 1..n => f[i] \in Seq(X)}
    <2>5. 0 \in P
      OBVIOUS
    <2>6. ASSUME NEW i \in Nat, i \in P PROVE i + 1 \in P
      <3> SUFFICES ASSUME i + 1 \in 1..n PROVE f[i + 1] \in Seq(X)
        OBVIOUS
      <3>1. s[i + 1] \in Seq(X)
        OBVIOUS
      <3>2. CASE i = 0
        BY <2>4, <3>1, <3>2
      <3>3. CASE i # 0
        <4>1. f[i] \in Seq(X)
          BY <2>6, <3>3
        <4>2. (i + 1) - 1 = i /\ i + 1 # 1
          BY <3>3
        <4>3. f[i + 1] = f[i] \o s[i + 1]
          BY <2>4, <4>2, Zenon
        <4> QED
          BY <3>1, <4>1, <4>3
      <3> QED
        BY <3>2, <3>3
    <2> HIDE DEF P
    <2>7. n \in P
      BY <2>5, <2>6, CountingOn
    <2> QED
      BY <1>3, <2>3, <2>7 DEF P
  <1> QED
    BY <1>2, <1>3

(***************************************************************************)
(* Texts: the generated values of a text go up to the counter.              *)
(***************************************************************************)
UpTo(n) == Tokens \cup ({"made"} \X Nat \X (1..n))

Fitting(f, n) == \A x \in DOMAIN f : f[x] \in Seq(UpTo(n))

LEMMA UpToGrows ==
    ASSUME NEW m \in Nat, NEW n \in Nat, m <= n
    PROVE  /\ UpTo(m) \subseteq UpTo(n) /\ Seq(UpTo(m)) \subseteq Seq(UpTo(n))
           /\ Text \subseteq Seq(UpTo(m))
           /\ \A f : Fitting(f, m) => Fitting(f, n)
  <1>1. 1..m \subseteq 1..n
    OBVIOUS
  <1>2. UpTo(m) \subseteq UpTo(n)
    BY <1>1 DEF UpTo
  <1>3. Tokens \subseteq UpTo(m)
    BY DEF UpTo
  <1>4. \A S, T : S \subseteq T => Seq(S) \subseteq Seq(T)
    OBVIOUS
  <1>5. Seq(UpTo(m)) \subseteq Seq(UpTo(n)) /\ Text \subseteq Seq(UpTo(m))
    BY <1>2, <1>3, <1>4 DEF Text
  <1> QED
    BY <1>2, <1>5 DEF Fitting

LEMMA TokenParts ==
    ASSUME NEW n \in Nat, NEW tok \in UpTo(n)
    PROVE  tok[2] \in Nat /\ tok[3] \in Nat /\ (tok[1] = "made" => tok[3] \in 1..n)
                /\ (tok[1] # "made" => tok \in Tokens)
  BY DEF UpTo, Tokens

LEMMA LookupFits ==
    ASSUME NEW n \in Nat, NEW tok \in UpTo(n), NEW i \in Nat, tok[1] = "fake" => i \in 1..n,
           NEW args, NEW defaults, Fitting(args, n), Fitting(defaults, n),
           Known(tok, args, defaults)
    PROVE  Lookup(tok, args, defaults, i) \in Seq(UpTo(n))
  <1>0. tok[2] \in Nat
    BY TokenParts
  <1>1. CASE tok[1] = "arg" /\ tok[2] \in DOMAIN args
    <2>1. Lookup(tok, args, defaults, i) = args[tok[2]]
      BY <1>1 DEF Lookup
    <2> QED
      BY <1>1, <2>1, Zenon DEF Fitting
  <1>2. CASE tok[1] = "arg" /\ tok[2] \notin DOMAIN args
    <2>1. Lookup(tok, args, defaults, i) = defaults[tok[2]]
      BY <1>2 DEF Lookup
    <2>2. tok[2] \in DOMAIN defaults
      BY <1>2 DEF Known
    <2> QED
      BY <2>1, <2>2, Zenon DEF Fitting
  <1>3. CASE tok[1] = "fake"
    <2> DEFINE t == <<"made", tok[2], i>>
    <2>1. Lookup(tok, args, defaults, i) = <<t>>
      BY <1>3 DEF Lookup
    <2>2. t \in UpTo(n)
      BY <1>0, <1>3 DEF UpTo
    <2> HIDE DEF t
    <2>3. <<t>> \in Seq(UpTo(n))
      BY <2>2
    <2> QED
      BY <2>1, <2>3, Zenon
  <1>4. CASE tok[1] = "secret"
    <2> DEFINE t == <<"var", tok[2], 0>>
    <2>1. Lookup(tok, args, defaults, i) = <<t>>
      BY <1>4 DEF Lookup
    <2>2. t \in UpTo(n)
      BY <1>0, <1>4 DEF UpTo, Tokens
    <2> HIDE DEF t
    <2>3. <<t>> \in Seq(UpTo(n))
      BY <2>2
    <2> QED
      BY <2>1, <2>3, Zenon
  <1>5. CASE tok[1] \notin {"arg", "fake", "secret"}
    <2>1. Lookup(tok, args, defaults, i) = <<tok>>
      BY <1>5 DEF Lookup
    <2>2. <<tok>> \in Seq(UpTo(n))
      OBVIOUS
    <2> QED
      BY <2>1, <2>2, Zenon
  <1> QED
    BY <1>1, <1>2, <1>3, <1>4, <1>5

LEMMA UnescapeFits ==
    ASSUME NEW n \in Nat, NEW text \in Seq(UpTo(n))
    PROVE  Unescape(text) \in Seq(UpTo(n))
  <1> DEFINE u(i) == IF text[i][1] = "esc" THEN <<"arg", text[i][2], text[i][3]>> ELSE text[i]
  <1>1. ASSUME NEW i \in 1..Len(text) PROVE u(i) \in UpTo(n)
    <2>1. text[i] \in UpTo(n)
      OBVIOUS
    <2>2. text[i][2] \in Nat /\ text[i][3] \in Nat
      BY <2>1, TokenParts
    <2>3. <<"arg", text[i][2], text[i][3]>> \in UpTo(n)
      BY <2>2 DEF UpTo, Tokens
    <2> QED
      BY <2>1, <2>3
  <1>2. DOMAIN text = 1..Len(text) /\ Len(text) \in Nat
    OBVIOUS
  <1>3. Unescape(text) = [i \in 1..Len(text) |-> u(i)]
    BY <1>2 DEF Unescape
  <1> HIDE DEF u
  <1>4. [i \in 1..Len(text) |-> u(i)] \in Seq(UpTo(n))
    BY <1>1, <1>2
  <1> QED
    BY <1>3, <1>4, Zenon

\* How far a pass gets, and how the counter goes up on its way.
PassEnds(text, args, defaults) ==
    {k \in 0..Len(text) : k < Len(text) => ~ Known(text[k + 1], args, defaults)}
PassEnd(text, args, defaults) ==
    CHOOSE k \in PassEnds(text, args, defaults) : \A l \in PassEnds(text, args, defaults) : k <= l
FakesTo(text, i) == Cardinality({j \in 1..i : text[j][1] = "fake"})

LEMMA FakesCount ==
    ASSUME NEW text, NEW i \in Nat, NEW k \in Nat, i <= k
    PROVE  /\ FakesTo(text, i) \in Nat /\ FakesTo(text, k) \in Nat
           /\ FakesTo(text, i) <= FakesTo(text, k)
           /\ i > 0 /\ text[i][1] = "fake" => FakesTo(text, i) > 0
  <1> DEFINE F(n) == {j \in 1..n : text[j][1] = "fake"}
  <1>1. ASSUME NEW n \in Nat PROVE IsFiniteSet(F(n)) /\ Cardinality(F(n)) \in Nat
    <2>1. IsFiniteSet(1..n) /\ F(n) \in SUBSET (1..n)
      BY FS_Interval
    <2>2. IsFiniteSet(F(n))
      BY <2>1, FS_Subset
    <2> QED
      BY <2>2, FS_CardinalityType
  <1>2. F(i) \in SUBSET F(k)
    OBVIOUS
  <1>3. i > 0 /\ text[i][1] = "fake" => i \in F(i)
    OBVIOUS
  <1> HIDE DEF F
  <1>4. Cardinality(F(i)) <= Cardinality(F(k))
    BY <1>1, <1>2, FS_Subset
  <1>5. Cardinality(F(i)) = 0 => F(i) = {}
    BY <1>1, FS_EmptySet
  <1>6. i > 0 /\ text[i][1] = "fake" => Cardinality(F(i)) > 0
    BY <1>1, <1>3, <1>5
  <1> QED
    BY <1>1, <1>4, <1>6 DEF FakesTo, F

LEMMA PassEndIs ==
    ASSUME NEW S, NEW text \in Seq(S), NEW args, NEW defaults
    PROVE  /\ PassEnd(text, args, defaults) \in 0..Len(text)
           /\ \A i \in 1..PassEnd(text, args, defaults) : Known(text[i], args, defaults)
  <1> DEFINE E == PassEnds(text, args, defaults)
  <1>1. E \subseteq Nat /\ Len(text) \in E
    BY DEF PassEnds
  <1>2. \E k \in E : \A l \in E : k <= l
    <2> HIDE DEF E
    <2> QED
      BY <1>1, LeastNumber
  <1>3. PICK e : e = PassEnd(text, args, defaults)
    OBVIOUS
  <1>4. e \in E /\ \A l \in E : e <= l
    BY <1>2, <1>3, Zenon DEF PassEnd
  <1>5. e \in 0..Len(text)
    BY <1>4 DEF PassEnds
  <1>6. ASSUME NEW i \in 1..e PROVE Known(text[i], args, defaults)
    <2>1. i - 1 \in 0..Len(text) /\ i - 1 < Len(text) /\ (i - 1) + 1 = i /\ ~ (e <= i - 1)
      BY <1>5
    <2>2. i - 1 \notin E
      BY <1>4, <2>1
    <2>3. i - 1 \in E \/ Known(text[(i - 1) + 1], args, defaults)
      BY <2>1 DEF PassEnds
    <2> QED
      BY <2>1, <2>2, <2>3, Zenon
  <1> QED
    BY <1>3, <1>5, <1>6

LEMMA PassFits ==
    ASSUME NEW r, r.n \in Nat, r.text \in Seq(UpTo(r.n)),
           NEW args, NEW defaults, Fitting(args, r.n), Fitting(defaults, r.n)
    PROVE  /\ Pass(r, args, defaults).n \in Nat /\ r.n <= Pass(r, args, defaults).n
           /\ Pass(r, args, defaults).text \in Seq(UpTo(Pass(r, args, defaults).n))
  <1>1. PICK n, text : n = r.n /\ text = r.text
    OBVIOUS
  <1>2. n \in Nat /\ text \in Seq(UpTo(n)) /\ Fitting(args, n) /\ Fitting(defaults, n)
    BY <1>1
  <1>3. PICK e : e = PassEnd(text, args, defaults)
    OBVIOUS
  <1>4. e \in 0..Len(text) /\ \A i \in 1..e : Known(text[i], args, defaults)
    BY <1>2, <1>3, PassEndIs
  <1>5. Len(text) \in Nat /\ e \in Nat
    BY <1>2, <1>4
  <1>6. PICK last : last = n + FakesTo(text, e)
    OBVIOUS
  <1>7. last \in Nat /\ n <= last
    BY <1>2, <1>5, <1>6, FakesCount
  <1> DEFINE v(i) == Lookup(text[i], args, defaults, n + FakesTo(text, i))
             parts == [i \in 1..e |-> v(i)]
  <1>8. ASSUME NEW i \in 1..e PROVE v(i) \in Seq(UpTo(last))
    <2>1. i \in Nat /\ i <= e /\ i > 0 /\ i \in 1..Len(text)
      BY <1>4, <1>5
    <2>2. /\ FakesTo(text, i) \in Nat /\ FakesTo(text, e) \in Nat
          /\ FakesTo(text, i) <= FakesTo(text, e)
          /\ text[i][1] = "fake" => FakesTo(text, i) > 0
      BY <1>5, <2>1, FakesCount
    <2>3. PICK c : c = n + FakesTo(text, i)
      OBVIOUS
    <2>4. c \in Nat /\ (text[i][1] = "fake" => c \in 1..last)
      BY <1>2, <1>6, <2>2, <2>3
    <2>5. text[i] \in UpTo(n)
      BY <1>2, <2>1
    <2>6. text[i] \in UpTo(last) /\ Fitting(args, last) /\ Fitting(defaults, last)
      BY <1>2, <1>7, <2>5, UpToGrows
    <2>7. Lookup(text[i], args, defaults, c) \in Seq(UpTo(last))
      BY <1>4, <1>7, <2>4, <2>6, LookupFits
    <2> QED
      BY <2>3, <2>7, Zenon
  <1> HIDE DEF v
  <1>9. FlattenSeq(parts) \in Seq(UpTo(last))
    <2>1. parts \in [1..e -> Seq(UpTo(last))]
      BY <1>8
    <2> HIDE DEF parts
    <2> QED
      BY <1>5, <2>1, FlattenFits
  <1>10. /\ Pass(r, args, defaults).n = n + FakesTo(text, e)
         /\ Pass(r, args, defaults).text = FlattenSeq(parts)
    BY <1>1, <1>3, Zenon DEF Pass, PassEnd, PassEnds, FakesTo, v
  <1> HIDE DEF parts
  <1>11. Pass(r, args, defaults).n = last
    BY <1>6, <1>10, Zenon
  <1> QED
    BY <1>1, <1>7, <1>9, <1>10, <1>11, Zenon

\* Resolving(f, ...): f[i] is what i passes make of a text.
Resolving(f, text, args, defaults, n) ==
    f = [i \in 0..MaxPasses |->
            IF i = 0 THEN [text |-> text, n |-> n, ok |-> TRUE]
            ELSE Again(f[i - 1], args, defaults)]
ResolvingTo(f, text, args, defaults, n, k) ==
    \A i \in 0..MaxPasses :
        i <= k => f[i] = IF i = 0 THEN [text |-> text, n |-> n, ok |-> TRUE]
                         ELSE Again(f[i - 1], args, defaults)

LEMMA ResolvingOn ==
    ASSUME NEW text, NEW args, NEW defaults, NEW n, MaxPasses \in Nat,
           NEW k \in Nat, NEW f, ResolvingTo(f, text, args, defaults, n, k)
    PROVE  \E g : ResolvingTo(g, text, args, defaults, n, k + 1)
  <1> DEFINE g == [i \in 0..MaxPasses |->
                     IF i <= k THEN f[i]
                     ELSE IF i = 0 THEN [text |-> text, n |-> n, ok |-> TRUE]
                     ELSE Again(f[i - 1], args, defaults)]
  <1>1. \A i \in 0..MaxPasses : g[i] = IF i <= k THEN f[i]
                                    ELSE IF i = 0 THEN [text |-> text, n |-> n, ok |-> TRUE]
                                    ELSE Again(f[i - 1], args, defaults)
    OBVIOUS
  <1> HIDE DEF g
  <1>2. ASSUME NEW i \in 0..MaxPasses, i <= k + 1
        PROVE  g[i] = IF i = 0 THEN [text |-> text, n |-> n, ok |-> TRUE]
                      ELSE Again(g[i - 1], args, defaults)
    <2>1. i # 0 => i - 1 \in 0..MaxPasses /\ i - 1 <= k
      BY <1>2
    <2>2. i # 0 => g[i - 1] = f[i - 1]
      BY <1>1, <2>1
    <2>3. CASE i <= k
      <3>1. f[i] = IF i = 0 THEN [text |-> text, n |-> n, ok |-> TRUE]
                   ELSE Again(f[i - 1], args, defaults)
        BY <2>3, Zenon DEF ResolvingTo
      <3> QED
        BY <1>1, <2>2, <2>3, <3>1, Zenon
    <2>4. CASE ~ (i <= k)
      BY <1>1, <2>2, <2>4, Zenon
    <2> QED
      BY <2>3, <2>4
  <1> QED
    BY <1>2 DEF ResolvingTo

LEMMA ResolvingRuns ==
    ASSUME NEW text, NEW args, NEW defaults, NEW n, MaxPasses \in Nat
    PROVE  \E f : Resolving(f, text, args, defaults, n)
  <1> DEFINE P == {k \in Nat : \E f : ResolvingTo(f, text, args, defaults, n, k)}
  <1>1. 0 \in P
    <2> DEFINE f == [i \in 0..MaxPasses |-> [text |-> text, n |-> n, ok |-> TRUE]]
    <2>1. ResolvingTo(f, text, args, defaults, n, 0)
      BY DEF ResolvingTo
    <2> QED
      BY <2>1
  <1>2. \A k \in Nat : k \in P => k + 1 \in P
    BY ResolvingOn
  <1> HIDE DEF P
  <1>3. MaxPasses \in P
    BY <1>1, <1>2, CountingOn
  <1>4. PICK f : ResolvingTo(f, text, args, defaults, n, MaxPasses)
    BY <1>3 DEF P
  <1> DEFINE g == [i \in 0..MaxPasses |-> f[i]]
  <1>5. \A i \in 0..MaxPasses : g[i] = f[i]
    OBVIOUS
  <1>6. g = [i \in 0..MaxPasses |-> g[i]]
    OBVIOUS
  <1> HIDE DEF g
  <1>7. ASSUME NEW i \in 0..MaxPasses
        PROVE  g[i] = IF i = 0 THEN [text |-> text, n |-> n, ok |-> TRUE]
                      ELSE Again(g[i - 1], args, defaults)
    <2>1. i # 0 => i - 1 \in 0..MaxPasses
      OBVIOUS
    <2>2. i <= MaxPasses
      OBVIOUS
    <2>3. f[i] = IF i = 0 THEN [text |-> text, n |-> n, ok |-> TRUE]
                 ELSE Again(f[i - 1], args, defaults)
      BY <1>4, <2>2, Zenon DEF ResolvingTo
    <2> QED
      BY <1>5, <2>1, <2>3, Zenon
  <1>8. Resolving(g, text, args, defaults, n)
    BY <1>6, <1>7, Zenon DEF Resolving
  <1> QED
    BY <1>8

Ahead(r, n) == r.n \in Nat /\ n <= r.n /\ r.text \in Seq(UpTo(r.n))

LEMMA ResolveFits ==
    ASSUME NEW n \in Nat, NEW text \in Seq(UpTo(n)),
           NEW args, NEW defaults, Fitting(args, n), Fitting(defaults, n)
    PROVE  /\ Ahead(Resolve(text, args, defaults, n), n)
           /\ text = <<>> => Resolve(text, args, defaults, n).n = n
  <1>0. MaxPasses \in Nat
    BY DepthAssumption
  <1>1. PICK f : f = CHOOSE g : Resolving(g, text, args, defaults, n)
    OBVIOUS
  <1>2. Resolving(f, text, args, defaults, n)
    BY <1>0, <1>1, ResolvingRuns, Zenon
  <1>3. PICK last : last = f[MaxPasses]
    OBVIOUS
  <1>4. /\ Resolve(text, args, defaults, n).text = Unescape(last.text)
        /\ Resolve(text, args, defaults, n).n = last.n
    <2>1. Resolve(text, args, defaults, n)
            = [text |-> Unescape(last.text), n |-> last.n, ok |-> last.ok /\ ~ HasLive(last.text)]
      BY <1>1, <1>3, Zenon DEF Resolve, Resolving
    <2> QED
      BY <2>1
  <1>5. \A i \in 0..MaxPasses :
          f[i] = IF i = 0 THEN [text |-> text, n |-> n, ok |-> TRUE]
                 ELSE Again(f[i - 1], args, defaults)
    BY <1>2 DEF Resolving
  <1> DEFINE Holds(i) == Ahead(f[i], n) /\ (text = <<>> => f[i].n = n /\ f[i].text = <<>>)
             P == {i \in Nat : i \in 0..MaxPasses => Holds(i)}
  <1>6. 0 \in P
    <2>0. 0 \in 0..MaxPasses
      BY <1>0
    <2>1. f[0] = [text |-> text, n |-> n, ok |-> TRUE]
      BY <1>5, <2>0, Zenon
    <2>2. Holds(0)
      BY <2>1 DEF Ahead
    <2> HIDE DEF Holds
    <2> QED
      BY <2>2
  <1>7. ASSUME NEW i \in Nat, i \in P PROVE i + 1 \in P
    <2>0. i + 1 \in Nat
      OBVIOUS
    <2> SUFFICES ASSUME i + 1 \in 0..MaxPasses PROVE Holds(i + 1)
      BY <2>0, Zenon
    <2>1. (i + 1) - 1 = i /\ i + 1 # 0 /\ i \in 0..MaxPasses
      BY <1>0
    <2>2. Holds(i)
      <3> HIDE DEF Holds
      <3> QED
        BY <1>7, <2>1
    <2>3. PICK r : r = f[i]
      OBVIOUS
    <2>4. f[i + 1] = Again(r, args, defaults)
      BY <1>5, <2>1, <2>3, Zenon
    <2>5. Ahead(r, n) /\ (text = <<>> => r.n = n /\ r.text = <<>>)
      BY <2>2, <2>3, Zenon
    <2>6. CASE r.ok /\ HasLive(r.text)
      <3>1. f[i + 1] = Pass(r, args, defaults)
        BY <2>4, <2>6, Zenon DEF Again
      <3>2. r.text # <<>>
        BY <2>6 DEF HasLive
      <3>3. Fitting(args, r.n) /\ Fitting(defaults, r.n) /\ r.n \in Nat /\ r.text \in Seq(UpTo(r.n)) /\ n <= r.n
        BY <2>5, UpToGrows DEF Ahead
      <3>4. PICK p : p = Pass(r, args, defaults)
        OBVIOUS
      <3>5. p.n \in Nat /\ r.n <= p.n /\ p.text \in Seq(UpTo(p.n))
        BY <3>3, <3>4, PassFits, Zenon
      <3>6. n <= p.n
        BY <3>3, <3>5
      <3>7. Ahead(p, n)
        BY <3>5, <3>6 DEF Ahead
      <3> QED
        BY <2>5, <3>1, <3>2, <3>4, <3>7, Zenon
    <2>7. CASE ~ (r.ok /\ HasLive(r.text))
      <3>1. f[i + 1] = r
        BY <2>4, <2>7, Zenon DEF Again
      <3> QED
        BY <2>5, <3>1, Zenon
    <2> QED
      BY <2>6, <2>7, Zenon
  <1>8. MaxPasses \in P
    <2> HIDE DEF P
    <2> QED
      BY <1>0, <1>6, <1>7, CountingOn
  <1>9. MaxPasses \in 0..MaxPasses
    BY <1>0
  <1>10. Ahead(last, n) /\ (text = <<>> => last.n = n)
    BY <1>3, <1>8, <1>9, Zenon
  <1>11. Unescape(last.text) \in Seq(UpTo(last.n))
    BY <1>10, UnescapeFits DEF Ahead
  <1> QED
    BY <1>4, <1>10, <1>11, Zenon DEF Ahead

(***************************************************************************)
(* The values of a table, one after the other.                              *)
(***************************************************************************)
Valued(f, table, order, args, defaults, n) ==
    f = [i \in 0..Len(order) |->
            IF i = 0 THEN [text |-> <<>>, n |-> n, ok |-> TRUE]
            ELSE Resolve(table[order[i]], args, defaults, f[i - 1].n)]
ValuedTo(f, table, order, args, defaults, n, k) ==
    \A i \in 0..Len(order) :
        i <= k => f[i] = IF i = 0 THEN [text |-> <<>>, n |-> n, ok |-> TRUE]
                         ELSE Resolve(table[order[i]], args, defaults, f[i - 1].n)

LEMMA ValuedOn ==
    ASSUME NEW table, NEW order, NEW args, NEW defaults, NEW n, Len(order) \in Nat,
           NEW k \in Nat, NEW f, ValuedTo(f, table, order, args, defaults, n, k)
    PROVE  \E g : ValuedTo(g, table, order, args, defaults, n, k + 1)
  <1> DEFINE g == [i \in 0..Len(order) |->
                     IF i <= k THEN f[i]
                     ELSE IF i = 0 THEN [text |-> <<>>, n |-> n, ok |-> TRUE]
                     ELSE Resolve(table[order[i]], args, defaults, f[i - 1].n)]
  <1>1. \A i \in 0..Len(order) : g[i] = IF i <= k THEN f[i]
                                    ELSE IF i = 0 THEN [text |-> <<>>, n |-> n, ok |-> TRUE]
                                    ELSE Resolve(table[order[i]], args, defaults, f[i - 1].n)
    OBVIOUS
  <1> HIDE DEF g
  <1>2. ASSUME NEW i \in 0..Len(order), i <= k + 1
        PROVE  g[i] = IF i = 0 THEN [text |-> <<>>, n |-> n, ok |-> TRUE]
                      ELSE Resolve(table[order[i]], args, defaults, g[i - 1].n)
    <2>1. i # 0 => i - 1 \in 0..Len(order) /\ i - 1 <= k
      BY <1>2
    <2>2. i # 0 => g[i - 1] = f[i - 1]
      BY <1>1, <2>1
    <2>3. CASE i <= k
      <3>1. f[i] = IF i = 0 THEN [text |-> <<>>, n |-> n, ok |-> TRUE]
                   ELSE Resolve(table[order[i]], args, defaults, f[i - 1].n)
        BY <2>3, Zenon DEF ValuedTo
      <3> QED
        BY <1>1, <2>2, <2>3, <3>1, Zenon
    <2>4. CASE ~ (i <= k)
      BY <1>1, <2>2, <2>4, Zenon
    <2> QED
      BY <2>3, <2>4
  <1> QED
    BY <1>2 DEF ValuedTo

LEMMA ValuedRuns ==
    ASSUME NEW table, NEW order, NEW args, NEW defaults, NEW n, Len(order) \in Nat
    PROVE  \E f : Valued(f, table, order, args, defaults, n)
  <1> DEFINE P == {k \in Nat : \E f : ValuedTo(f, table, order, args, defaults, n, k)}
  <1>1. 0 \in P
    <2> DEFINE f == [i \in 0..Len(order) |-> [text |-> <<>>, n |-> n, ok |-> TRUE]]
    <2>1. ValuedTo(f, table, order, args, defaults, n, 0)
      BY DEF ValuedTo
    <2> QED
      BY <2>1
  <1>2. \A k \in Nat : k \in P => k + 1 \in P
    BY ValuedOn
  <1> HIDE DEF P
  <1>3. Len(order) \in P
    BY <1>1, <1>2, CountingOn
  <1>4. PICK f : ValuedTo(f, table, order, args, defaults, n, Len(order))
    BY <1>3 DEF P
  <1> DEFINE g == [i \in 0..Len(order) |-> f[i]]
  <1>5. \A i \in 0..Len(order) : g[i] = f[i]
    OBVIOUS
  <1>6. g = [i \in 0..Len(order) |-> g[i]]
    OBVIOUS
  <1> HIDE DEF g
  <1>7. ASSUME NEW i \in 0..Len(order)
        PROVE  g[i] = IF i = 0 THEN [text |-> <<>>, n |-> n, ok |-> TRUE]
                      ELSE Resolve(table[order[i]], args, defaults, g[i - 1].n)
    <2>1. i # 0 => i - 1 \in 0..Len(order)
      OBVIOUS
    <2>2. i <= Len(order)
      OBVIOUS
    <2>3. f[i] = IF i = 0 THEN [text |-> <<>>, n |-> n, ok |-> TRUE]
                 ELSE Resolve(table[order[i]], args, defaults, f[i - 1].n)
      BY <1>4, <2>2, Zenon DEF ValuedTo
    <2> QED
      BY <1>5, <2>1, <2>3, Zenon
  <1>8. Valued(g, table, order, args, defaults, n)
    BY <1>6, <1>7, Zenon DEF Valued
  <1> QED
    BY <1>8

LEMMA SortedIs ==
    ASSUME NEW S, S \subseteq Nat, IsFiniteSet(S)
    PROVE  /\ Sorted(S) \in Seq(S) /\ Len(Sorted(S)) \in Nat
           /\ \A v \in S : \E k \in 1..Len(Sorted(S)) : Sorted(S)[k] = v
  <1>1. PICK id : id = [x \in S |-> x]
    OBVIOUS
  <1> DEFINE c == Cardinality(S)
             q == Picked(id, S)
  <1>2. q = Sorted(S) /\ \A i \in S : id[i] = i
    <2>1. \A i \in S : id[i] = i
      BY <1>1, Zenon
    <2> QED
      BY <1>1, <2>1, Zenon DEF Sorted
  <1>3. /\ c \in Nat /\ q = [k \in 1..c |-> q[k]]
        /\ \A k \in 1..c : \E i \in S : q[k] = id[i]
        /\ \A i \in S : \E k \in 1..c : q[k] = id[i]
    <2>1. c \in Nat
      BY FS_CardinalityType
    <2>2. \A k \in 1..c : \E i \in S : q[k] = id[i]
      BY PickedFinds
    <2>3. \A i \in S : \E k \in 1..c : q[k] = id[i]
      BY PickedFinds
    <2>4. q = [k \in 1..c |-> q[k]]
      BY PickedFinds, Zenon
    <2> HIDE DEF c, q
    <2> QED
      BY <2>1, <2>2, <2>3, <2>4, Zenon
  <1> HIDE DEF c, q
  <1>4. \A k \in 1..c : q[k] \in S
    BY <1>2, <1>3
  <1>5. q \in Seq(S) /\ Len(q) = c
    BY <1>3, <1>4, SequenceOf
  <1>6. \A i \in S : \E k \in 1..Len(q) : q[k] = i
    <2> TAKE i \in S
    <2>1. PICK k \in 1..c : q[k] = id[i]
      BY <1>3
    <2>2. id[i] = i
      BY <1>2
    <2> QED
      BY <1>5, <2>1, <2>2, Zenon
  <1> QED
    BY <1>2, <1>3, <1>5, <1>6, Zenon

LEMMA InOrderFits ==
    ASSUME NEW n \in Nat, NEW args, NEW defaults, Fitting(args, n), Fitting(defaults, n),
           NEW table, AuthoredTable(table), NEW names, names \subseteq DOMAIN table
    PROVE  /\ InOrder(table, names, args, defaults, n).n \in Nat
           /\ n <= InOrder(table, names, args, defaults, n).n
           /\ \A v \in names : InOrder(table, names, args, defaults, n).of[v].text
                                  \in Seq(UpTo(InOrder(table, names, args, defaults, n).n))
  <1>1. names \subseteq Nat /\ IsFiniteSet(names)
    BY FS_Subset DEF AuthoredTable, Listed
  <1>2. PICK order : order = Sorted(names)
    OBVIOUS
  <1>3. /\ order \in Seq(names) /\ Len(order) \in Nat /\ DOMAIN order = 1..Len(order)
        /\ \A v \in names : \E k \in 1..Len(order) : order[k] = v
    BY <1>1, <1>2, SortedIs
  <1> DEFINE f0 == CHOOSE g : Valued(g, table, Sorted(names), args, defaults, n)
             r0 == [of |-> [v \in names |-> f0[CHOOSE k \in DOMAIN Sorted(names) : Sorted(names)[k] = v]],
                    n |-> f0[Len(Sorted(names))].n]
  <1>4. InOrder(table, names, args, defaults, n) = r0
    BY Zenon DEF InOrder, Valued
  <1>5. PICK f : f = f0
    OBVIOUS
  <1>6. PICK m : m = Len(order)
    OBVIOUS
  <1>7. Valued(f0, table, Sorted(names), args, defaults, n)
    BY <1>2, <1>3, ValuedRuns, Zenon
  <1>8. r0.n = f0[Len(Sorted(names))].n
    <2> HIDE DEF f0
    <2> QED
      OBVIOUS
  <1>9. ASSUME NEW v \in names
         PROVE  r0.of[v] = f0[CHOOSE k \in DOMAIN Sorted(names) : Sorted(names)[k] = v]
    <2> HIDE DEF f0
    <2>1. r0.of = [w \in names |-> f0[CHOOSE k \in DOMAIN Sorted(names) : Sorted(names)[k] = w]]
      OBVIOUS
    <2> HIDE DEF r0
    <2> QED
      BY <2>1, Zenon
  <1> HIDE DEF f0, r0
  <1>10. Valued(f, table, order, args, defaults, n)
    BY <1>2, <1>5, <1>7, Zenon
  <1>11. InOrder(table, names, args, defaults, n).n = f[m].n
    BY <1>2, <1>4, <1>5, <1>6, <1>8, Zenon
  <1>12. ASSUME NEW v \in names
         PROVE  InOrder(table, names, args, defaults, n).of[v]
                  = f[CHOOSE k \in DOMAIN order : order[k] = v]
    BY <1>2, <1>4, <1>5, <1>9, Zenon
  <1>13. m \in Nat
    BY <1>3, <1>6
  <1>14. \A i \in 0..m : f[i] = IF i = 0 THEN [text |-> <<>>, n |-> n, ok |-> TRUE]
                         ELSE Resolve(table[order[i]], args, defaults, f[i - 1].n)
    BY <1>6, <1>10, Zenon DEF Valued
  <1>15. \A i \in 1..m : table[order[i]] \in Text
    <2> TAKE i \in 1..m
    <2>1. order[i] \in names
      BY <1>3, <1>6
    <2> QED
      BY <2>1 DEF AuthoredTable
  <1> DEFINE Holds(i) == Ahead(f[i], n) /\ \A j \in 0..i : f[j].n \in Nat /\ f[j].n <= f[i].n
             P == {i \in Nat : i \in 0..m => Holds(i)}
  <1>16. 0 \in P
    <2>0. 0 \in 0..m
      BY <1>13
    <2>1. f[0] = [text |-> <<>>, n |-> n, ok |-> TRUE]
      BY <1>14, <2>0, Zenon
    <2>2. Holds(0)
      BY <2>1 DEF Ahead
    <2> HIDE DEF Holds
    <2> QED
      BY <2>2
  <1>17. ASSUME NEW i \in Nat, i \in P PROVE i + 1 \in P
    <2>0. i + 1 \in Nat
      OBVIOUS
    <2> SUFFICES ASSUME i + 1 \in 0..m PROVE Holds(i + 1)
      BY <2>0, Zenon
    <2>1. (i + 1) - 1 = i /\ i + 1 # 0 /\ i \in 0..m /\ i + 1 \in 1..m
      BY <1>13
    <2>2. Holds(i)
      <3> HIDE DEF Holds
      <3> QED
        BY <1>17, <2>1
    <2>3. PICK b : b = f[i].n
      OBVIOUS
    <2>4. PICK text : text = table[order[i + 1]]
      OBVIOUS
    <2>5. f[i + 1] = Resolve(text, args, defaults, b)
      BY <1>14, <2>1, <2>3, <2>4, Zenon
    <2>6. b \in Nat /\ n <= b
      BY <2>2, <2>3 DEF Ahead
    <2>7. text \in Seq(UpTo(b)) /\ Fitting(args, b) /\ Fitting(defaults, b)
      <3>1. text \in Text
        BY <1>15, <2>1, <2>4, Zenon
      <3> QED
        BY <2>6, <3>1, UpToGrows
    <2>8. PICK r : r = Resolve(text, args, defaults, b)
      OBVIOUS
    <2>9. Ahead(r, b)
      BY <2>6, <2>7, <2>8, ResolveFits, Zenon
    <2>10. f[i + 1] = r
      BY <2>5, <2>8, Zenon
    <2>11. r.n \in Nat /\ b <= r.n /\ n <= r.n /\ r.text \in Seq(UpTo(r.n))
      BY <2>6, <2>9 DEF Ahead
    <2>12. Ahead(f[i + 1], n)
      BY <2>10, <2>11, Zenon DEF Ahead
    <2>13. ASSUME NEW j \in 0..(i + 1) PROVE f[j].n \in Nat /\ f[j].n <= f[i + 1].n
      <3>1. CASE j = i + 1
        <4>1. f[j].n = r.n /\ f[i + 1].n = r.n
          BY <2>10, <3>1, Zenon
        <4> QED
          BY <2>11, <4>1
      <3>2. CASE j # i + 1
        <4>1. j \in 0..i
          BY <3>2
        <4>2. f[j].n \in Nat /\ f[j].n <= b
          BY <2>2, <2>3, <4>1, Zenon
        <4>3. f[i + 1].n = r.n
          BY <2>10, Zenon
        <4> QED
          BY <2>6, <2>11, <4>2, <4>3
      <3> QED
        BY <3>1, <3>2
    <2> QED
      BY <2>12, <2>13, Zenon
  <1>18. m \in P
    <2> HIDE DEF P
    <2> QED
      BY <1>13, <1>16, <1>17, CountingOn
  <1>19. Holds(m)
    <2>1. m \in 0..m
      BY <1>13
    <2> QED
      BY <1>18, <2>1, Zenon
  <1>20. PICK last : last = f[m].n
    OBVIOUS
  <1>21. last \in Nat /\ n <= last
    BY <1>19, <1>20, Zenon DEF Ahead
  <1>22. ASSUME NEW v \in names
         PROVE  InOrder(table, names, args, defaults, n).of[v].text \in Seq(UpTo(last))
    <2>1. PICK k : k = CHOOSE i \in DOMAIN order : order[i] = v
      OBVIOUS
    <2>2. k \in 1..m /\ order[k] = v
      BY <1>3, <1>6, <2>1, Zenon
    <2>3. InOrder(table, names, args, defaults, n).of[v] = f[k]
      BY <1>12, <2>1, Zenon
    <2>4. k \in Nat /\ k \in 0..m
      BY <1>13, <2>2
    <2>5. Holds(k)
      <3>1. k \in P
        <4> HIDE DEF P
        <4> QED
          BY <1>16, <1>17, <2>4, CountingOn
      <3> QED
        BY <2>4, <3>1, Zenon
    <2>6. PICK c : c = f[k].n
      OBVIOUS
    <2>7. c \in Nat /\ c <= last /\ f[k].text \in Seq(UpTo(c))
      BY <1>19, <1>20, <2>4, <2>5, <2>6, Zenon DEF Ahead
    <2>8. f[k].text \in Seq(UpTo(last))
      BY <1>21, <2>7, UpToGrows
    <2> QED
      BY <2>3, <2>8, Zenon
  <1>23. InOrder(table, names, args, defaults, n).n = last
    BY <1>11, <1>20
  <1> QED
    BY <1>21, <1>22, <1>23, Zenon

LEMMA TableFits ==
    ASSUME NEW n \in Nat, NEW args, NEW defaults, Fitting(args, n), Fitting(defaults, n),
           NEW table, AuthoredTable(table)
    PROVE  /\ ResolveTable(table, args, defaults, n).n \in Nat
           /\ n <= ResolveTable(table, args, defaults, n).n
           /\ DOMAIN ResolveTable(table, args, defaults, n).vals \subseteq DOMAIN table
  <1> DEFINE plain == {v \in DOMAIN table : ~ Mentions(table[v], "secret")}
             all == InOrder(table, plain, args, defaults, n)
             broken == {v \in plain : all.of[v].ok /\ Mentions(all.of[v].text, "break")}
             fine == {v \in plain \ broken : all.of[v].ok}
             whole == {v \in DOMAIN table : WholeSecret(table[v])}
  <1>1. all.n \in Nat /\ n <= all.n
    <2>1. plain \subseteq DOMAIN table
      OBVIOUS
    <2> HIDE DEF plain
    <2> QED
      BY <2>1, InOrderFits
  <1>2. fine \cup whole \subseteq DOMAIN table
    OBVIOUS
  <1>3. /\ ResolveTable(table, args, defaults, n).n = all.n
        /\ ResolveTable(table, args, defaults, n).vals
             = [v \in fine \cup whole |-> IF v \in whole THEN table[v] ELSE all.of[v].text]
    <2> HIDE DEF all
    <2> QED
      BY Zenon DEF ResolveTable, all
  <1> HIDE DEF all, fine, whole, broken, plain
  <1>4. DOMAIN ResolveTable(table, args, defaults, n).vals = fine \cup whole
    BY <1>3, Zenon
  <1> QED
    BY <1>1, <1>2, <1>3, <1>4

LEMMA WithFits ==
    ASSUME fakes \in Nat, Fitting(Frame.args, fakes), Fitting(Body.defaults, fakes),
           NEW with, AuthoredTable(with)
    PROVE  /\ ResolveWith(with).n \in Nat /\ fakes <= ResolveWith(with).n
           /\ Fitting(ResolveWith(with).vals, ResolveWith(with).n)
  <1> DEFINE all == InOrder(with, DOMAIN with, Frame.args, Body.defaults, fakes)
             fine == {v \in DOMAIN with : all.of[v].ok}
  <1>1. PICK a, d, n : a = Frame.args /\ d = Body.defaults /\ n = fakes
    OBVIOUS
  <1>2. all = InOrder(with, DOMAIN with, a, d, n)
    BY <1>1, Zenon
  <1> HIDE DEF all
  <1>3. all.n \in Nat /\ n <= all.n /\ \A v \in DOMAIN with : all.of[v].text \in Seq(UpTo(all.n))
    <2>1. n \in Nat /\ Fitting(a, n) /\ Fitting(d, n) /\ DOMAIN with \subseteq DOMAIN with
      BY <1>1
    <2> QED
      BY <1>2, <2>1, InOrderFits, Zenon
  <1>4. ResolveWith(with).n = all.n /\ ResolveWith(with).vals = [v \in fine |-> all.of[v].text]
    BY Zenon DEF ResolveWith, all
  <1>5. \A v \in fine : [w \in fine |-> all.of[w].text][v] \in Seq(UpTo(all.n))
    BY <1>3
  <1>6. Fitting([v \in fine |-> all.of[v].text], all.n)
    BY <1>5 DEF Fitting
  <1> HIDE DEF fine
  <1> QED
    BY <1>1, <1>3, <1>4, <1>6, Zenon

(***************************************************************************)
(* Sequences that are flattened or joined: where their elements come from.  *)
(***************************************************************************)
LEMMA SequenceIs ==
    ASSUME NEW s, NEW n \in Nat, s = [k \in 1..n |-> s[k]]
    PROVE  Sequence(s) /\ Len(s) = n /\ DOMAIN s = 1..n
  <1>1. DOMAIN s = 1..n
    OBVIOUS
  <1>2. \A k \in 1..n : s[k] \in ToSet(s)
    BY <1>1 DEF ToSet
  <1>3. s \in Seq(ToSet(s)) /\ Len(s) = n
    BY <1>2, SequenceOf
  <1> QED
    BY <1>1, <1>3 DEF Sequence

LEMMA SequenceHas ==
    ASSUME NEW s, Sequence(s)
    PROVE  /\ Len(s) \in Nat /\ DOMAIN s = 1..Len(s) /\ s = [k \in 1..Len(s) |-> s[k]]
           /\ \A X : (\A k \in 1..Len(s) : s[k] \in X) => s \in Seq(X)
  <1>1. s \in Seq(ToSet(s))
    BY DEF Sequence
  <1>2. Len(s) \in Nat /\ DOMAIN s = 1..Len(s) /\ s = [k \in 1..Len(s) |-> s[k]]
    BY <1>1
  <1>3. ASSUME NEW X, \A k \in 1..Len(s) : s[k] \in X PROVE s \in Seq(X)
    BY <1>2, <1>3, SequenceOf
  <1> QED
    BY <1>2, <1>3

LEMMA SeqIsSequence ==
    ASSUME NEW X, NEW s \in Seq(X)
    PROVE  Sequence(s) /\ \A k \in DOMAIN s : s[k] \in X
  <1>1. PICK n \in Nat : n = Len(s)
    OBVIOUS
  <1>2. s = [k \in 1..n |-> s[k]] /\ \A k \in 1..n : s[k] \in X
    BY <1>1
  <1>3. Sequence(s) /\ DOMAIN s = 1..n
    BY <1>2, SequenceIs
  <1> QED
    BY <1>2, <1>3

LEMMA FlattenFrom ==
    ASSUME NEW s, Sequence(s), \A i \in DOMAIN s : Sequence(s[i])
    PROVE  /\ Sequence(FlattenSeq(s))
           /\ \A k \in DOMAIN FlattenSeq(s) :
                 \E i \in DOMAIN s : \E j \in DOMAIN s[i] : FlattenSeq(s)[k] = s[i][j]
  <1> DEFINE X == UNION {{s[i][j] : j \in DOMAIN s[i]} : i \in DOMAIN s}
  <1>1. PICK n \in Nat : n = Len(s)
    BY SequenceHas
  <1>2. DOMAIN s = 1..n /\ s = [k \in 1..n |-> s[k]]
    BY <1>1, SequenceHas
  <1>3. ASSUME NEW i \in 1..n PROVE s[i] \in Seq(X)
    <2>1. Sequence(s[i])
      BY <1>2
    <2>2. \A j \in 1..Len(s[i]) : s[i][j] \in X
      <3> TAKE j \in 1..Len(s[i])
      <3>1. j \in DOMAIN s[i]
        BY <2>1, SequenceHas
      <3>2. i \in DOMAIN s
        BY <1>2
      <3> QED
        BY <3>1, <3>2
    <2> HIDE DEF X
    <2> QED
      BY <2>1, <2>2, SequenceHas
  <1>4. s \in [1..n -> Seq(X)]
    <2> HIDE DEF X
    <2> QED
      BY <1>2, <1>3
  <1>5. PICK f : f = FlattenSeq(s)
    OBVIOUS
  <1>6. f \in Seq(X)
    <2> HIDE DEF X
    <2> QED
      BY <1>4, <1>5, FlattenFits, Zenon
  <1>7. Sequence(f) /\ \A k \in DOMAIN f : f[k] \in X
    <2> HIDE DEF X
    <2> QED
      BY <1>6, SeqIsSequence
  <1>8. \A k \in DOMAIN f : \E i \in DOMAIN s : \E j \in DOMAIN s[i] : f[k] = s[i][j]
    <2> TAKE k \in DOMAIN f
    <2>1. f[k] \in X
      BY <1>7
    <2> QED
      BY <2>1, Zenon
  <1> QED
    BY <1>5, <1>7, <1>8, Zenon

OfEither(f, s, t) ==
    \A k \in DOMAIN f : (\E i \in DOMAIN s : f[k] = s[i]) \/ (\E i \in DOMAIN t : f[k] = t[i])

LEMMA JoinFrom ==
    ASSUME NEW s, NEW t, Sequence(s), Sequence(t), NEW f, f = s \o t
    PROVE  Sequence(f) /\ OfEither(f, s, t)
  <1> DEFINE X == {s[i] : i \in DOMAIN s} \cup {t[i] : i \in DOMAIN t}
  <1>1. s \in Seq(X) /\ t \in Seq(X)
    <2>1. \A k \in 1..Len(s) : s[k] \in X
      BY SequenceHas
    <2>2. \A k \in 1..Len(t) : t[k] \in X
      BY SequenceHas
    <2> HIDE DEF X
    <2> QED
      BY <2>1, <2>2, SequenceHas
  <1>3. f \in Seq(X)
    <2> HIDE DEF X
    <2> QED
      BY <1>1
  <1>4. Sequence(f) /\ \A k \in DOMAIN f : f[k] \in X
    <2> HIDE DEF X
    <2> QED
      BY <1>3, SeqIsSequence
  <1>5. \A k \in DOMAIN f : (\E i \in DOMAIN s : f[k] = s[i]) \/ (\E i \in DOMAIN t : f[k] = t[i])
    <2> TAKE k \in DOMAIN f
    <2>1. f[k] \in X
      BY <1>4
    <2> QED
      BY <2>1, Zenon
  <1> QED
    BY <1>4, <1>5, Zenon DEF OfEither

(***************************************************************************)
(* What a feature's parse makes of what was authored is as authored texts   *)
(* are, and no two scenarios have one name.                                 *)
(***************************************************************************)
TextsOnly(f) == \A x \in DOMAIN f : f[x] \in Text

LEMMA SubstituteFits ==
    ASSUME NEW text \in Text, NEW row, TextsOnly(row)
    PROVE  Substitute(text, row) \in Text
  <1> DEFINE v(i) == IF text[i][1] = "col" /\ text[i][2] \in DOMAIN row THEN row[text[i][2]] ELSE <<text[i]>>
             parts == [i \in DOMAIN text |-> v(i)]
  <1>1. Len(text) \in Nat /\ DOMAIN text = 1..Len(text) /\ \A i \in 1..Len(text) : text[i] \in Tokens
    BY DEF Text
  <1>2. ASSUME NEW i \in 1..Len(text) PROVE v(i) \in Seq(Tokens)
    <2>1. CASE text[i][1] = "col" /\ text[i][2] \in DOMAIN row
      <3>1. v(i) = row[text[i][2]]
        BY <2>1
      <3>2. row[text[i][2]] \in Text
        BY <2>1, Zenon DEF TextsOnly
      <3> QED
        BY <3>1, <3>2, Zenon DEF Text
    <2>2. CASE ~ (text[i][1] = "col" /\ text[i][2] \in DOMAIN row)
      <3>1. v(i) = <<text[i]>>
        BY <2>2
      <3>2. <<text[i]>> \in Seq(Tokens)
        BY <1>1
      <3> QED
        BY <3>1, <3>2, Zenon
    <2> QED
      BY <2>1, <2>2
  <1>3. Substitute(text, row) = FlattenSeq(parts)
    BY Zenon DEF Substitute
  <1> HIDE DEF v
  <1>4. parts \in [1..Len(text) -> Seq(Tokens)]
    BY <1>1, <1>2
  <1> HIDE DEF parts
  <1>5. FlattenSeq(parts) \in Seq(Tokens)
    BY <1>1, <1>4, FlattenFits
  <1> QED
    BY <1>3, <1>5, Zenon DEF Text

ConcreteFits(sc) ==
    /\ sc = [name |-> sc.name, tags |-> sc.tags, steps |-> sc.steps]
    /\ sc.name \in Text /\ AuthoredSentences(sc.steps)

ConcretesFit(list) == Sequence(list) /\ \A i \in DOMAIN list : ConcreteFits(list[i])

\* A row leaves a sentence what it is.
LEMMA FilledInFits ==
    ASSUME NEW t \in Text, NEW b, AuthoredTable(b), NEW d \in Seq(Text), NEW row, TextsOnly(row),
           NEW x, x = [text |-> t, table |-> b, doc |-> d]
    PROVE  \E u, c, e : /\ FilledIn(x, row) = [text |-> u, table |-> c, doc |-> e]
                        /\ u \in Text /\ AuthoredTable(c) /\ e \in Seq(Text)
  <1> DEFINE c == [k \in DOMAIN b |-> Substitute(b[k], row)]
             e == [j \in DOMAIN d |-> Substitute(d[j], row)]
  <1>1. x.text = t /\ x.table = b /\ x.doc = d
    OBVIOUS
  <1>2. FilledIn(x, row) = [text |-> Substitute(t, row), table |-> c, doc |-> e]
    BY <1>1, Zenon DEF FilledIn
  <1>3. Substitute(t, row) \in Text
    BY SubstituteFits
  <1>4. AuthoredTable(c)
    <2>1. \A k \in DOMAIN b : b[k] \in Text
      BY Zenon DEF AuthoredTable
    <2>2. \A k \in DOMAIN b : Substitute(b[k], row) \in Text
      BY <2>1, SubstituteFits, Zenon
    <2>3. DOMAIN c = DOMAIN b /\ c \in [DOMAIN b -> Text]
      BY <2>2, Zenon
    <2> HIDE DEF c
    <2>4. Listed(c)
      BY <2>3 DEF AuthoredTable, Listed
    <2> QED
      BY <2>3, <2>4, Zenon DEF AuthoredTable
  <1>5. e \in Seq(Text)
    <2>1. PICK n \in Nat : n = Len(d) /\ DOMAIN d = 1..n /\ \A j \in 1..n : d[j] \in Text
      OBVIOUS
    <2>2. \A j \in 1..n : Substitute(d[j], row) \in Text
      BY <2>1, SubstituteFits, Zenon
    <2>3. e \in [1..n -> Text]
      BY <2>1, <2>2, Zenon
    <2> HIDE DEF e
    <2> QED
      BY <2>3
  <1> HIDE DEF c, e
  <1> QED
    BY <1>2, <1>3, <1>4, <1>5

LEMMA ConcreteIs ==
    ASSUME NEW sc, sc.name \in Text, NEW tags, NEW steps, AuthoredSentences(steps), NEW row, TextsOnly(row)
    PROVE  ConcreteFits(Concrete(sc, tags, steps, row))
  <1> DEFINE step(i) == FilledIn(steps[i], row)
             list == [i \in DOMAIN steps |-> step(i)]
  <1>1. PICK n \in Nat : n = Len(steps) /\ DOMAIN steps = 1..n
    BY SequenceHas DEF AuthoredSentences
  <1>2. ASSUME NEW i \in 1..n
        PROVE  /\ step(i) = [text |-> step(i).text, table |-> step(i).table, doc |-> step(i).doc]
               /\ step(i).text \in Text /\ AuthoredTable(step(i).table) /\ step(i).doc \in Seq(Text)
    <2>1. PICK t, d, b : steps[i] = [text |-> t, table |-> b, doc |-> d]
      BY <1>1, Zenon DEF AuthoredSentences
    <2>2. steps[i].text = t /\ steps[i].table = b /\ steps[i].doc = d
      BY <2>1
    <2>3. t \in Text /\ AuthoredTable(b) /\ d \in Seq(Text)
      BY <1>1, <2>2, Zenon DEF AuthoredSentences
    <2>4. PICK u, c, e : /\ FilledIn(steps[i], row) = [text |-> u, table |-> c, doc |-> e]
                         /\ u \in Text /\ AuthoredTable(c) /\ e \in Seq(Text)
      BY <2>1, <2>3, FilledInFits
    <2>5. step(i) = [text |-> u, table |-> c, doc |-> e]
      BY <2>4
    <2> HIDE DEF step
    <2>6. step(i).text = u /\ step(i).table = c /\ step(i).doc = e
      BY <2>5
    <2> QED
      BY <2>4, <2>5, <2>6, Zenon
  <1> HIDE DEF step
  <1>3. list = [i \in 1..n |-> list[i]] /\ \A i \in 1..n : list[i] = step(i)
    BY <1>1
  <1>4. Sequence(list) /\ DOMAIN list = 1..n
    <2> HIDE DEF list
    <2> QED
      BY <1>3, SequenceIs
  <1>5. AuthoredSentences(list)
    <2> HIDE DEF list
    <2> QED
      BY <1>2, <1>3, <1>4, Zenon DEF AuthoredSentences
  <1>6. Concrete(sc, tags, steps, row) = [name |-> Substitute(sc.name, row), tags |-> tags, steps |-> list]
    BY Zenon DEF Concrete, step
  <1>7. Substitute(sc.name, row) \in Text
    BY SubstituteFits
  <1> HIDE DEF list
  <1>8. PICK c : c = Concrete(sc, tags, steps, row)
    OBVIOUS
  <1>9. PICK name : name = Substitute(sc.name, row)
    OBVIOUS
  <1>10. c = [name |-> name, tags |-> tags, steps |-> list]
    BY <1>6, <1>8, <1>9, Zenon
  <1>11. c.name = name /\ c.tags = tags /\ c.steps = list
    BY <1>10
  <1> QED
    BY <1>5, <1>7, <1>8, <1>9, <1>10, <1>11, Zenon DEF ConcreteFits

LEMMA PickedRows ==
    ASSUME NEW X, NEW s \in Seq(X), NEW I, I \subseteq DOMAIN s
    PROVE  /\ Sequence(Picked(s, I))
           /\ \A k \in DOMAIN Picked(s, I) : \E i \in I : Picked(s, I)[k] = s[i]
  <1>1. PICK n \in Nat : n = Len(s) /\ DOMAIN s = 1..n
    OBVIOUS
  <1>2. IsFiniteSet(1..n)
    BY FS_Interval
  <1>3. I \subseteq Nat /\ IsFiniteSet(I)
    BY <1>1, <1>2, FS_Subset
  <1> DEFINE c == Cardinality(I)
             q == Picked(s, I)
  <1>4. c \in Nat
    BY <1>3, FS_CardinalityType
  <1>5. q = [k \in 1..c |-> q[k]]
    BY <1>3, PickedFinds, Zenon
  <1>6. \A k \in 1..c : \E i \in I : q[k] = s[i]
    BY <1>3, PickedFinds
  <1> HIDE DEF c, q
  <1>7. Sequence(q) /\ DOMAIN q = 1..c
    BY <1>4, <1>5, SequenceIs
  <1>8. \A k \in DOMAIN q : \E i \in I : q[k] = s[i]
    BY <1>6, <1>7, Zenon
  <1> QED
    BY <1>7, <1>8, Zenon DEF q

LEMMA TableScenariosFit ==
    ASSUME NEW sc, sc.name \in Text, NEW t, t.header \in Seq(Nat), t.rows \in Seq(Seq(Text)),
           NEW tags, NEW steps, AuthoredSentences(steps)
    PROVE  ConcretesFit(TableScenarios(sc, t, tags, steps))
  <1> DEFINE I == {i \in DOMAIN t.rows : SoundRow(t, i)}
             sound == Picked(t.rows, I)
             c(i) == Concrete(sc, tags \cup t.tags, steps, Row(t.header, sound[i]))
             list == [i \in DOMAIN sound |-> c(i)]
  <1>1. CASE ~ SoundHeader(t)
    <2>1. TableScenarios(sc, t, tags, steps) = <<>>
      BY <1>1, Zenon DEF TableScenarios
    <2>2. <<>> \in Seq({}) /\ DOMAIN <<>> = {}
      OBVIOUS
    <2>3. Sequence(<<>>)
      BY <2>2, SeqIsSequence
    <2> QED
      BY <2>1, <2>2, <2>3 DEF ConcretesFit
  <1>2. CASE SoundHeader(t)
    <2>1. TableScenarios(sc, t, tags, steps) = list
      BY <1>2, Zenon DEF TableScenarios
    <2>2. I \subseteq DOMAIN t.rows
      OBVIOUS
    <2>3. Sequence(sound) /\ \A k \in DOMAIN sound : \E i \in I : sound[k] = t.rows[i]
      <3> HIDE DEF I
      <3> QED
        BY <2>2, PickedRows
    <2>4. ASSUME NEW k \in DOMAIN sound PROVE TextsOnly(Row(t.header, sound[k]))
      <3>1. PICK i \in I : sound[k] = t.rows[i]
        BY <2>3
      <3>2. PICK cells : cells = t.rows[i]
        OBVIOUS
      <3>3. PICK header : header = t.header
        OBVIOUS
      <3>4. cells \in Seq(Text) /\ header \in Seq(Nat) /\ Len(cells) = Len(header)
        <4>1. i \in DOMAIN t.rows /\ Len(t.rows[i]) = Len(t.header)
          BY DEF SoundRow
        <4> QED
          BY <3>2, <3>3, <4>1
      <3>5. ASSUME NEW x \in ToSet(header) PROVE cells[CHOOSE j \in DOMAIN header : header[j] = x] \in Text
        <4>1. \E j \in DOMAIN header : header[j] = x
          BY DEF ToSet
        <4>2. PICK j : j = CHOOSE u \in DOMAIN header : header[u] = x
          OBVIOUS
        <4>3. j \in DOMAIN header
          BY <4>1, <4>2, Zenon
        <4>4. j \in DOMAIN cells
          BY <3>4, <4>3
        <4>5. cells[j] \in Text
          BY <3>4, <4>4
        <4> QED
          BY <4>2, <4>5, Zenon
      <3>6. Row(header, cells) = [x \in ToSet(header) |-> cells[CHOOSE j \in DOMAIN header : header[j] = x]]
        BY Zenon DEF Row
      <3>7. TextsOnly(Row(header, cells))
        BY <3>5, <3>6, Zenon DEF TextsOnly
      <3> QED
        BY <3>1, <3>2, <3>3, <3>7, Zenon
    <2> HIDE DEF sound
    <2>5. \A i \in DOMAIN sound : ConcreteFits(c(i))
      BY <2>4, ConcreteIs
    <2>6. PICK n \in Nat : n = Len(sound) /\ DOMAIN sound = 1..n
      BY <2>3, SequenceHas
    <2> HIDE DEF c
    <2>7. list = [i \in 1..n |-> list[i]] /\ \A i \in 1..n : list[i] = c(i)
      BY <2>6
    <2>8. Sequence(list) /\ DOMAIN list = 1..n
      <3> HIDE DEF list
      <3> QED
        BY <2>7, SequenceIs
    <2>9. ConcretesFit(list)
      <3> HIDE DEF list
      <3> QED
        BY <2>5, <2>6, <2>7, <2>8, Zenon DEF ConcretesFit
    <2> QED
      BY <2>1, <2>9, Zenon
  <1> QED
    BY <1>1, <1>2

LEMMA FlattenConcretes ==
    ASSUME NEW s, Sequence(s), \A i \in DOMAIN s : ConcretesFit(s[i])
    PROVE  ConcretesFit(FlattenSeq(s))
  <1>1. \A i \in DOMAIN s : Sequence(s[i]) /\ \A j \in DOMAIN s[i] : ConcreteFits(s[i][j])
    BY Zenon DEF ConcretesFit
  <1>2. /\ Sequence(FlattenSeq(s))
        /\ \A k \in DOMAIN FlattenSeq(s) :
              \E i \in DOMAIN s : \E j \in DOMAIN s[i] : FlattenSeq(s)[k] = s[i][j]
    BY <1>1, FlattenFrom
  <1> QED
    BY <1>1, <1>2, Zenon DEF ConcretesFit

SentenceFits(x) ==
    /\ x = [text |-> x.text, table |-> x.table, doc |-> x.doc]
    /\ x.text \in Text /\ AuthoredTable(x.table) /\ x.doc \in Seq(Text)

LEMMA StepsFit ==
    ASSUME NEW backgrounds, Sequence(backgrounds),
           \A i \in DOMAIN backgrounds : AuthoredSentences(backgrounds[i]),
           NEW sc, AuthoredSentences(sc.steps)
    PROVE  AuthoredSentences(Steps(backgrounds, sc))
  <1>1. \A s : AuthoredSentences(s) <=> Sequence(s) /\ \A j \in DOMAIN s : SentenceFits(s[j])
    BY Zenon DEF AuthoredSentences, SentenceFits
  <1>2. \A i \in DOMAIN backgrounds : Sequence(backgrounds[i])
                                        /\ \A j \in DOMAIN backgrounds[i] : SentenceFits(backgrounds[i][j])
    BY <1>1, Zenon
  <1>3. PICK b : b = FlattenSeq(backgrounds)
    OBVIOUS
  <1>4. /\ Sequence(b)
        /\ \A k \in DOMAIN b : \E i \in DOMAIN backgrounds : \E j \in DOMAIN backgrounds[i] :
              b[k] = backgrounds[i][j]
    BY <1>2, <1>3, FlattenFrom, Zenon
  <1>5. \A k \in DOMAIN b : SentenceFits(b[k])
    BY <1>2, <1>4, Zenon
  <1>6. PICK own : own = sc.steps
    OBVIOUS
  <1>7. Sequence(own) /\ \A j \in DOMAIN own : SentenceFits(own[j])
    BY <1>1, <1>6, Zenon
  <1>8. PICK all : all = b \o own
    OBVIOUS
  <1>9. /\ Sequence(all)
        /\ \A k \in DOMAIN all : (\E i \in DOMAIN b : all[k] = b[i]) \/ (\E i \in DOMAIN own : all[k] = own[i])
    <2>1. Sequence(b) /\ Sequence(own) /\ all = b \o own
      BY <1>4, <1>7, <1>8, Zenon
    <2>2. Sequence(all) /\ OfEither(all, b, own)
      BY <2>1, JoinFrom
    <2>3. \A k \in DOMAIN all : (\E i \in DOMAIN b : all[k] = b[i]) \/ (\E i \in DOMAIN own : all[k] = own[i])
      BY <2>2, Zenon DEF OfEither
    <2> QED
      BY <2>2, <2>3
  <1>10. \A k \in DOMAIN all : SentenceFits(all[k])
    BY <1>5, <1>7, <1>9, Zenon
  <1>11. AuthoredSentences(all)
    BY <1>1, <1>9, <1>10, Zenon
  <1> QED
    BY <1>3, <1>6, <1>8, <1>11, Zenon DEF Steps

LEMMA ExpandFits ==
    ASSUME NEW sc, AuthoredScenario(sc), NEW inherited,
           NEW backgrounds, Sequence(backgrounds),
           \A i \in DOMAIN backgrounds : AuthoredSentences(backgrounds[i])
    PROVE  ConcretesFit(Expand(sc, inherited, backgrounds).scenarios)
  <1>1. PICK steps : steps = Steps(backgrounds, sc)
    OBVIOUS
  <1>2. PICK tags : tags = inherited \cup sc.tags
    OBVIOUS
  <1>3. sc.name \in Text /\ AuthoredSentences(steps)
    BY <1>1, StepsFit, Zenon DEF AuthoredScenario
  <1>4. Sequence(<<>>) /\ DOMAIN <<>> = {}
    <2>1. <<>> \in Seq({}) /\ DOMAIN <<>> = {}
      OBVIOUS
    <2> QED
      BY <2>1, SeqIsSequence
  <1>5. TextsOnly(<<>>) /\ ConcretesFit(<<>>)
    BY <1>4 DEF TextsOnly, ConcretesFit
  <1>6. CASE ~ Outline(sc)
    <2>1. Expand(sc, inherited, backgrounds).scenarios = <<Concrete(sc, tags, steps, <<>>)>>
      BY <1>1, <1>2, <1>6 DEF Expand
    <2>2. PICK c : c = Concrete(sc, tags, steps, <<>>)
      OBVIOUS
    <2>3. ConcreteFits(c)
      BY <1>3, <1>5, <2>2, ConcreteIs, Zenon
    <2>4. PICK list : list = <<c>>
      OBVIOUS
    <2>5. list \in Seq({c}) /\ list[1] = c
      BY <2>4
    <2>6. Sequence(list) /\ \A k \in DOMAIN list : list[k] = c
      BY <2>5, SeqIsSequence
    <2>7. ConcretesFit(list)
      BY <2>3, <2>6, Zenon DEF ConcretesFit
    <2> QED
      BY <2>1, <2>2, <2>4, <2>7, Zenon
  <1>7. CASE Outline(sc) /\ ~ Given(steps)
    <2>1. Expand(sc, inherited, backgrounds).scenarios = <<>>
      BY <1>1, <1>7 DEF Expand
    <2> QED
      BY <1>5, <2>1, Zenon
  <1>8. CASE Outline(sc) /\ Given(steps)
    <2> DEFINE t(i) == TableScenarios(sc, sc.examples[i], tags, steps)
               list == [i \in DOMAIN sc.examples |-> t(i)]
    <2>1. Expand(sc, inherited, backgrounds).scenarios = FlattenSeq(list)
      BY <1>1, <1>2, <1>8 DEF Expand
    <2>2. PICK n \in Nat : DOMAIN sc.examples = 1..n
      BY SequenceHas DEF AuthoredScenario
    <2>3. \A i \in 1..n : ConcretesFit(t(i))
      <3> TAKE i \in 1..n
      <3>1. sc.examples[i].header \in Seq(Nat) /\ sc.examples[i].rows \in Seq(Seq(Text))
        BY <2>2, Zenon DEF AuthoredScenario
      <3> QED
        BY <1>3, <3>1, TableScenariosFit
    <2> HIDE DEF t
    <2>4. list = [i \in 1..n |-> list[i]] /\ \A i \in 1..n : list[i] = t(i)
      BY <2>2
    <2> HIDE DEF list
    <2>5. Sequence(list) /\ DOMAIN list = 1..n
      BY <2>4, SequenceIs
    <2>6. \A i \in DOMAIN list : ConcretesFit(list[i])
      BY <2>3, <2>4, <2>5, Zenon
    <2> QED
      BY <2>1, <2>5, <2>6, FlattenConcretes, Zenon
  <1> QED
    BY <1>6, <1>7, <1>8

(***************************************************************************)
(* dedup_names: a number is always free, and what it makes was not in play. *)
(***************************************************************************)
LEMMA FreeFinds ==
    ASSUME NEW X, NEW name \in Seq(X), NEW after \in Nat, NEW taken, IsFiniteSet(taken)
    PROVE  NextFree(name, after, taken) \in Nat
             /\ Numbered(name, NextFree(name, after, taken)) \notin taken
  <1> DEFINE c == Cardinality(taken)
             D == (after + 1)..(after + c + 1)
             F == Free(name, after, taken)
             num == [n \in D |-> Numbered(name, n)]
  <1>1. c \in Nat
    BY FS_CardinalityType
  <1>2. D \subseteq Nat /\ IsFiniteSet(D) /\ Cardinality(D) = c + 1
    <2>1. after + 1 \in Int /\ after + c + 1 \in Int
      BY <1>1
    <2>2. IsFiniteSet(D) /\ Cardinality(D) = IF after + 1 <= after + c + 1
                                             THEN (after + c + 1) - (after + 1) + 1 ELSE 0
      <3>1. PICK a, b : a = after + 1 /\ b = after + c + 1
        OBVIOUS
      <3>2. a \in Int /\ b \in Int
        BY <2>1, <3>1, Zenon
      <3>3. IsFiniteSet(a..b) /\ Cardinality(a..b) = IF a <= b THEN b - a + 1 ELSE 0
        BY <3>2, FS_Interval
      <3> QED
        BY <3>1, <3>3, Zenon
    <2> HIDE DEF c
    <2> QED
      BY <1>1, <2>2
  <1>3. \A m, n \in D : num[m] = num[n] => m = n
    <2> TAKE m, n \in D
    <2> HAVE num[m] = num[n]
    <2>1. Append(name, <<"#", m, 0>>) = Append(name, <<"#", n, 0>>)
      BY Zenon DEF Numbered
    <2> HIDE DEF D
    <2>2. PICK a, b : a = <<"#", m, 0>> /\ b = <<"#", n, 0>>
      OBVIOUS
    <2>3. Append(name, a) = Append(name, b)
      BY <2>1, <2>2, Zenon
    <2>4. a = b
      <3>1. name \in Seq(X \cup {a, b}) /\ a \in X \cup {a, b} /\ b \in X \cup {a, b}
        OBVIOUS
      <3>2. Append(name, a)[Len(name) + 1] = a /\ Append(name, b)[Len(name) + 1] = b
        BY <3>1
      <3> QED
        BY <2>3, <3>2, Zenon
    <2> QED
      BY <2>2, <2>4
  <1>4. F # {}
    <2> SUFFICES ASSUME F = {} PROVE FALSE
      OBVIOUS
    <2>1. \A n \in D : num[n] \in taken
      BY DEF Free
    <2>2. num \in [D -> taken]
      <3> HIDE DEF D
      <3> QED
        BY <2>1
    <2>3. c < Cardinality(D)
      BY <1>1, <1>2
    <2>4. \E m, n \in D : m # n /\ num[m] = num[n]
      <3>1. PICK S, f : S = D /\ f = num
        OBVIOUS
      <3>2. IsFiniteSet(S) /\ Cardinality(taken) < Cardinality(S) /\ f \in [S -> taken]
        <4> HIDE DEF D, num
        <4> QED
          BY <1>2, <2>2, <2>3, <3>1, Zenon
      <3>3. \E m, n \in S : m # n /\ f[m] = f[n]
        BY <3>2, FS_PigeonHole
      <3> HIDE DEF D, num
      <3> QED
        BY <3>1, <3>3, Zenon
    <2> QED
      BY <1>3, <2>4
  <1>5. F \subseteq Nat
    BY <1>2 DEF Free
  <1>6. \E n \in F : \A k \in F : n <= k
    <2> HIDE DEF F
    <2> QED
      BY <1>4, <1>5, LeastNumber
  <1>7. NextFree(name, after, taken) \in F
    BY <1>6, Zenon DEF NextFree
  <1> QED
    BY <1>5, <1>7 DEF Free

Renamed(acc, names) ==
    /\ acc = [name |-> acc.name, taken |-> acc.taken, last |-> acc.last]
    /\ IsFiniteSet(acc.taken) /\ names \subseteq acc.taken
    /\ \A x \in DOMAIN acc.last : acc.last[x] \in Nat

LEMMA RenameTells ==
    ASSUME NEW list, NEW i \in DOMAIN list, list[i].name \in Text,
           NEW names, NEW acc, Renamed(acc, names)
    PROVE  LET r == Rename(acc, list, i)
           IN  /\ Renamed(r, names)
               /\ acc.taken \subseteq r.taken
               /\ ~ Shared(list, i) => r.name = list[i].name
               /\ Shared(list, i) => r.name \in r.taken /\ r.name \notin acc.taken
  <1>1. PICK name : name = list[i].name
    OBVIOUS
  <1>2. PICK used : used = IF name \in DOMAIN acc.last THEN acc.last[name] ELSE 0
    OBVIOUS
  <1>3. PICK n : n = NextFree(name, used, acc.taken)
    OBVIOUS
  <1>4. PICK r : r = Rename(acc, list, i)
    OBVIOUS
  <1>5. CASE ~ Shared(list, i)
    <2>1. r = [acc EXCEPT !.name = name]
      BY <1>1, <1>4, <1>5 DEF Rename
    <2>2. r = [name |-> name, taken |-> acc.taken, last |-> acc.last]
      BY <2>1 DEF Renamed
    <2>3. r.name = name /\ r.taken = acc.taken /\ r.last = acc.last
      BY <2>2
    <2>4. Renamed(r, names)
      BY <2>2, <2>3, Zenon DEF Renamed
    <2> QED
      BY <1>1, <1>4, <1>5, <2>3, <2>4, Zenon
  <1>6. CASE Shared(list, i)
    <2>1. used \in Nat
      BY <1>2 DEF Renamed
    <2>2. name \in Seq(Tokens) /\ IsFiniteSet(acc.taken)
      BY <1>1 DEF Text, Renamed
    <2>3. n \in Nat /\ Numbered(name, n) \notin acc.taken
      BY <1>3, <2>1, <2>2, FreeFinds, Zenon
    <2>4. PICK new : new = Numbered(name, n)
      OBVIOUS
    <2>5. PICK last : last = [x \in DOMAIN acc.last \cup {name} |-> IF x = name THEN n ELSE acc.last[x]]
      OBVIOUS
    <2>6. r = [name |-> new, taken |-> acc.taken \cup {new}, last |-> last]
      BY <1>1, <1>2, <1>3, <1>4, <1>6, <2>4, <2>5, Zenon DEF Rename
    <2>7. r.name = new /\ r.taken = acc.taken \cup {new} /\ r.last = last
      BY <2>6
    <2>8. \A x \in DOMAIN last : last[x] \in Nat
      BY <2>3, <2>5 DEF Renamed
    <2>9. IsFiniteSet(acc.taken \cup {new})
      BY <2>2, FS_AddElement
    <2>10. Renamed(r, names)
      <3>1. names \subseteq r.taken
        BY <2>7 DEF Renamed
      <3> QED
        BY <2>6, <2>7, <2>8, <2>9, <3>1, Zenon DEF Renamed
    <2>11. r.name \in r.taken /\ r.name \notin acc.taken /\ acc.taken \subseteq r.taken
      BY <2>3, <2>4, <2>7
    <2> QED
      BY <1>4, <1>6, <2>10, <2>11, Zenon
  <1> QED
    BY <1>5, <1>6

\* Renaming(f, list): f[i] is what i rounds of dedup_names have come to.
Renaming(f, list) ==
    f = [i \in 0..Len(list) |->
            IF i = 0 THEN [name |-> <<>>, taken |-> {list[j].name : j \in DOMAIN list}, last |-> <<>>]
            ELSE Rename(f[i - 1], list, i)]
RenamingTo(f, list, k) ==
    \A i \in 0..Len(list) :
        i <= k => f[i] = IF i = 0 THEN [name |-> <<>>, taken |-> {list[j].name : j \in DOMAIN list}, last |-> <<>>]
                         ELSE Rename(f[i - 1], list, i)

LEMMA RenamingOn ==
    ASSUME NEW list, Len(list) \in Nat,
           NEW k \in Nat, NEW f, RenamingTo(f, list, k)
    PROVE  \E g : RenamingTo(g, list, k + 1)
  <1> DEFINE g == [i \in 0..Len(list) |->
                     IF i <= k THEN f[i]
                     ELSE IF i = 0 THEN [name |-> <<>>, taken |-> {list[j].name : j \in DOMAIN list}, last |-> <<>>]
                     ELSE Rename(f[i - 1], list, i)]
  <1>1. \A i \in 0..Len(list) : g[i] = IF i <= k THEN f[i]
                                    ELSE IF i = 0 THEN [name |-> <<>>, taken |-> {list[j].name : j \in DOMAIN list}, last |-> <<>>]
                                    ELSE Rename(f[i - 1], list, i)
    OBVIOUS
  <1> HIDE DEF g
  <1>2. ASSUME NEW i \in 0..Len(list), i <= k + 1
        PROVE  g[i] = IF i = 0 THEN [name |-> <<>>, taken |-> {list[j].name : j \in DOMAIN list}, last |-> <<>>]
                      ELSE Rename(g[i - 1], list, i)
    <2>1. i # 0 => i - 1 \in 0..Len(list) /\ i - 1 <= k
      BY <1>2
    <2>2. i # 0 => g[i - 1] = f[i - 1]
      BY <1>1, <2>1
    <2>3. CASE i <= k
      <3>1. f[i] = IF i = 0 THEN [name |-> <<>>, taken |-> {list[j].name : j \in DOMAIN list}, last |-> <<>>]
                   ELSE Rename(f[i - 1], list, i)
        BY <2>3, Zenon DEF RenamingTo
      <3> QED
        BY <1>1, <2>2, <2>3, <3>1, Zenon
    <2>4. CASE ~ (i <= k)
      BY <1>1, <2>2, <2>4, Zenon
    <2> QED
      BY <2>3, <2>4
  <1> QED
    BY <1>2 DEF RenamingTo

LEMMA RenamingRuns ==
    ASSUME NEW list, Len(list) \in Nat
    PROVE  \E f : Renaming(f, list)
  <1> DEFINE P == {k \in Nat : \E f : RenamingTo(f, list, k)}
  <1>1. 0 \in P
    <2> DEFINE f == [i \in 0..Len(list) |-> [name |-> <<>>, taken |-> {list[j].name : j \in DOMAIN list}, last |-> <<>>]]
    <2>1. RenamingTo(f, list, 0)
      BY DEF RenamingTo
    <2> QED
      BY <2>1
  <1>2. \A k \in Nat : k \in P => k + 1 \in P
    BY RenamingOn
  <1> HIDE DEF P
  <1>3. Len(list) \in P
    BY <1>1, <1>2, CountingOn
  <1>4. PICK f : RenamingTo(f, list, Len(list))
    BY <1>3 DEF P
  <1> DEFINE g == [i \in 0..Len(list) |-> f[i]]
  <1>5. \A i \in 0..Len(list) : g[i] = f[i]
    OBVIOUS
  <1>6. g = [i \in 0..Len(list) |-> g[i]]
    OBVIOUS
  <1> HIDE DEF g
  <1>7. ASSUME NEW i \in 0..Len(list)
        PROVE  g[i] = IF i = 0 THEN [name |-> <<>>, taken |-> {list[j].name : j \in DOMAIN list}, last |-> <<>>]
                      ELSE Rename(g[i - 1], list, i)
    <2>1. i # 0 => i - 1 \in 0..Len(list)
      OBVIOUS
    <2>2. i <= Len(list)
      OBVIOUS
    <2>3. f[i] = IF i = 0 THEN [name |-> <<>>, taken |-> {list[j].name : j \in DOMAIN list}, last |-> <<>>]
                 ELSE Rename(f[i - 1], list, i)
      BY <1>4, <2>2, Zenon DEF RenamingTo
    <2> QED
      BY <1>5, <2>1, <2>3, Zenon
  <1>8. Renaming(g, list)
    BY <1>6, <1>7, Zenon DEF Renaming
  <1> QED
    BY <1>8

LEMMA DedupFits ==
    ASSUME NEW list, ConcretesFit(list)
    PROVE  /\ DOMAIN Dedup(list) = DOMAIN list
           /\ \A i \in DOMAIN list : Dedup(list)[i].steps = list[i].steps
           /\ \A i, j \in DOMAIN list : Dedup(list)[i].name = Dedup(list)[j].name => i = j
  <1> DEFINE f0 == CHOOSE g : Renaming(g, list)
             d0 == [i \in DOMAIN list |-> [list[i] EXCEPT !.name = f0[i].name]]
             names == {list[j].name : j \in DOMAIN list}
  <1>1. Dedup(list) = d0
    BY Zenon DEF Dedup, Renaming
  <1>2. PICK m \in Nat : m = Len(list) /\ DOMAIN list = 1..m
    BY SequenceHas DEF ConcretesFit
  <1>3. PICK f : f = f0
    OBVIOUS
  <1>4. Renaming(f, list)
    BY <1>2, <1>3, RenamingRuns, Zenon
  <1> HIDE DEF f0
  <1>5. \A i \in 0..m : f[i] = IF i = 0 THEN [name |-> <<>>, taken |-> names, last |-> <<>>]
                               ELSE Rename(f[i - 1], list, i)
    BY <1>2, <1>4, Zenon DEF Renaming
  <1>6. IsFiniteSet(names)
    <2>1. IsFiniteSet(1..m)
      BY <1>2, FS_Interval
    <2> DEFINE g == [j \in 1..m |-> list[j].name]
    <2>2. g \in Surjection(1..m, names)
      <3>1. g \in [1..m -> names] /\ \A t \in names : \E s \in 1..m : g[s] = t
        BY <1>2
      <3> HIDE DEF g, names
      <3> QED
        BY <3>1 DEF Surjection
    <2> HIDE DEF g, names
    <2> QED
      BY <2>1, <2>2, FS_Surjection
  <1>7. \A i \in 1..m : list[i].name \in Text /\ list[i].name \in names
    BY <1>2 DEF ConcretesFit, ConcreteFits
  <1>8. f[0] = [name |-> <<>>, taken |-> names, last |-> <<>>]
    <2>1. 0 \in 0..m
      BY <1>2
    <2> HIDE DEF names
    <2> QED
      BY <1>5, <2>1, Zenon
  <1> HIDE DEF names
  <1> DEFINE Held(i) == Renamed(f[i], names)
             P == {i \in Nat : i \in 0..m => Held(i)}
  <1>9. 0 \in P
    <2>1. f[0].taken = names /\ f[0].last = <<>> /\ f[0].name = <<>>
      BY <1>8
    <2>2. DOMAIN <<>> = {}
      OBVIOUS
    <2>3. \A x \in DOMAIN f[0].last : f[0].last[x] \in Nat
      BY <2>1, <2>2
    <2>4. Held(0)
      BY <1>6, <1>8, <2>1, <2>3 DEF Renamed
    <2> HIDE DEF Held
    <2> QED
      BY <2>4
  <1>10. ASSUME NEW i \in Nat, i + 1 \in 0..m, Renamed(f[i], names)
         PROVE  /\ Renamed(f[i + 1], names) /\ f[i].taken \subseteq f[i + 1].taken
                /\ ~ Shared(list, i + 1) => f[i + 1].name = list[i + 1].name
                /\ Shared(list, i + 1) => f[i + 1].name \in f[i + 1].taken /\ f[i + 1].name \notin f[i].taken
    <2>1. (i + 1) - 1 = i /\ i + 1 # 0 /\ i + 1 \in 1..m
      BY <1>10
    <2>2. f[i + 1] = Rename(f[i], list, i + 1)
      BY <1>5, <1>10, <2>1, Zenon
    <2>3. list[i + 1].name \in Text /\ i + 1 \in DOMAIN list
      BY <1>2, <1>7, <2>1
    <2>4. LET r == Rename(f[i], list, i + 1)
          IN  /\ Renamed(r, names)
              /\ f[i].taken \subseteq r.taken
              /\ ~ Shared(list, i + 1) => r.name = list[i + 1].name
              /\ Shared(list, i + 1) => r.name \in r.taken /\ r.name \notin f[i].taken
      BY <1>10, <2>3, RenameTells, Zenon
    <2> QED
      BY <2>2, <2>4, Zenon
  <1>11. ASSUME NEW i \in Nat, i \in P PROVE i + 1 \in P
    <2>0. i + 1 \in Nat
      OBVIOUS
    <2> SUFFICES ASSUME i + 1 \in 0..m PROVE Held(i + 1)
      BY <2>0, Zenon
    <2>1. i \in 0..m
      BY <1>2
    <2>2. Held(i)
      <3> HIDE DEF Held
      <3> QED
        BY <1>11, <2>1
    <2> QED
      BY <1>10, <2>2, Zenon
  <1>12. \A i \in 0..m : Renamed(f[i], names)
    <2> TAKE i \in 0..m
    <2>1. i \in P
      <3> HIDE DEF P
      <3> QED
        BY <1>9, <1>11, CountingOn
    <2> QED
      BY <2>1
  <1> HIDE DEF P
  <1>13. ASSUME NEW i \in 1..m
         PROVE  /\ f[i - 1].taken \subseteq f[i].taken /\ names \subseteq f[i - 1].taken
                /\ ~ Shared(list, i) => f[i].name = list[i].name
                /\ Shared(list, i) => f[i].name \in f[i].taken /\ f[i].name \notin f[i - 1].taken
    <2>1. PICK h : h = i - 1
      OBVIOUS
    <2>2. h \in Nat /\ h \in 0..m /\ h + 1 = i /\ i \in 0..m
      BY <2>1
    <2>3. Renamed(f[h], names)
      BY <1>12, <2>2
    <2>4. h + 1 \in 0..m
      BY <2>2, Zenon
    <2>5. /\ f[h].taken \subseteq f[h + 1].taken
          /\ ~ Shared(list, h + 1) => f[h + 1].name = list[h + 1].name
          /\ Shared(list, h + 1) => f[h + 1].name \in f[h + 1].taken /\ f[h + 1].name \notin f[h].taken
      BY <1>10, <2>2, <2>3, <2>4, Zenon
    <2>6. names \subseteq f[h].taken
      BY <2>3 DEF Renamed
    <2> QED
      BY <2>1, <2>2, <2>5, <2>6, Zenon
  <1>14. \A i \in 0..m : \A j \in 0..m : i <= j => f[i].taken \subseteq f[j].taken
    <2> DEFINE Grown(j) == \A i \in 0..j : f[i].taken \subseteq f[j].taken
               Q == {j \in Nat : j \in 0..m => Grown(j)}
    <2>1. 0 \in Q
      OBVIOUS
    <2>2. ASSUME NEW j \in Nat, j \in Q PROVE j + 1 \in Q
      <3>0. j + 1 \in Nat
        OBVIOUS
      <3> SUFFICES ASSUME j + 1 \in 0..m PROVE Grown(j + 1)
        BY <3>0, Zenon
      <3>1. j \in 0..m /\ j + 1 \in 1..m /\ (j + 1) - 1 = j
        OBVIOUS
      <3>2. f[j].taken \subseteq f[j + 1].taken
        BY <1>13, <3>1, Zenon
      <3>3. Grown(j)
        <4> HIDE DEF Grown
        <4> QED
          BY <2>2, <3>1
      <3> TAKE i \in 0..(j + 1)
      <3>4. i = j + 1 \/ i \in 0..j
        OBVIOUS
      <3> QED
        BY <3>2, <3>3, <3>4
    <2>3. \A j \in 0..m : j \in Q
      <3> HIDE DEF Q
      <3> QED
        BY <2>1, <2>2, CountingOn
    <2> QED
      BY <2>3
  <1>15. ASSUME NEW i \in 1..m, NEW j \in 1..m, i < j PROVE f[i].name # f[j].name
    <2>1. i \in 0..m /\ j \in 0..m /\ j - 1 \in 0..m /\ i <= j - 1
      BY <1>15
    <2>2. f[i].taken \subseteq f[j - 1].taken
      BY <1>14, <2>1, Zenon
    <2>3. f[i].name \in f[i].taken
      <3>1. ~ Shared(list, i) => f[i].name \in names
        BY <1>7, <1>13
      <3>2. names \subseteq f[i].taken
        BY <1>13
      <3> QED
        BY <1>13, <3>1, <3>2
    <2>4. CASE Shared(list, j)
      <3>1. f[j].name \notin f[j - 1].taken
        BY <1>13, <2>4
      <3> QED
        BY <2>2, <2>3, <3>1
    <2>5. CASE ~ Shared(list, j)
      <3>1. f[j].name = list[j].name
        BY <1>13, <2>5
      <3>2. list[i].name # list[j].name /\ i # j
        BY <1>2, <1>15, <2>5 DEF Shared
      <3>3. CASE Shared(list, i)
        <4>1. f[i].name \notin names
          BY <1>13, <3>3
        <4> QED
          BY <1>7, <3>1, <4>1
      <3>4. CASE ~ Shared(list, i)
        <4>1. f[i].name = list[i].name
          BY <1>13, <3>4
        <4> QED
          BY <3>1, <3>2, <4>1
      <3> QED
        BY <3>3, <3>4
    <2> QED
      BY <2>4, <2>5
  <1>16. ASSUME NEW i \in DOMAIN list
         PROVE  Dedup(list)[i].steps = list[i].steps /\ Dedup(list)[i].name = f[i].name
    <2>1. Dedup(list)[i] = [list[i] EXCEPT !.name = f[i].name]
      BY <1>1, <1>3, Zenon
    <2>2. ConcreteFits(list[i])
      BY DEF ConcretesFit
    <2>3. PICK n, t, s : list[i] = [name |-> n, tags |-> t, steps |-> s]
      BY <2>2, Zenon DEF ConcreteFits
    <2> QED
      BY <2>1, <2>3
  <1>17. DOMAIN Dedup(list) = DOMAIN list
    BY <1>1, Zenon
  <1>18. ASSUME NEW i \in DOMAIN list, NEW j \in DOMAIN list, Dedup(list)[i].name = Dedup(list)[j].name
         PROVE  i = j
    <2>1. f[i].name = f[j].name
      BY <1>16, <1>18
    <2>2. i \in 1..m /\ j \in 1..m
      BY <1>2
    <2>3. i < j \/ j < i \/ i = j
      BY <2>2
    <2> QED
      BY <1>15, <2>1, <2>2, <2>3
  <1> QED
    BY <1>16, <1>17, <1>18, Zenon

SceneFits(list) ==
    /\ \A i \in DOMAIN list : AuthoredSentences(list[i].steps)
    /\ \A i, j \in DOMAIN list : list[i].name = list[j].name => i = j

LEMMA ParsedFits ==
    ASSUME NEW feature, AuthoredFeature(feature)
    PROVE  SceneFits(Parsed(feature).scenarios)
  <1> DEFINE e(i) == Expand(feature.scenarios[i], feature.tags, <<feature.background>>)
             plain == [i \in DOMAIN feature.scenarios |-> e(i)]
             d(r, i) == Expand(feature.rules[r].scenarios[i], feature.tags \cup feature.rules[r].tags,
                               <<feature.background, feature.rules[r].background>>)
             part(r) == [i \in DOMAIN feature.rules[r].scenarios |-> d(r, i)]
             parts == [r \in DOMAIN feature.rules |-> part(r)]
             ruled == FlattenSeq(parts)
             all == plain \o ruled
             lists == [i \in DOMAIN all |-> all[i].scenarios]
             flaws == UNION {all[i].faults : i \in DOMAIN all}
  <1>1. Parsed(feature).scenarios = IF flaws # {} THEN <<>> ELSE Dedup(FlattenSeq(lists))
    BY DEF Parsed
  <1>2. \A x : AuthoredSentences(x) =>
          Sequence(<<x>>) /\ \A i \in DOMAIN <<x>> : AuthoredSentences(<<x>>[i])
    <2> SUFFICES ASSUME NEW x, AuthoredSentences(x)
                 PROVE  Sequence(<<x>>) /\ \A i \in DOMAIN <<x>> : AuthoredSentences(<<x>>[i])
      OBVIOUS
    <2>1. PICK q : q = <<x>>
      OBVIOUS
    <2>2. q \in Seq({x})
      BY <2>1
    <2>3. Sequence(q) /\ \A i \in DOMAIN q : q[i] = x
      BY <2>2, SeqIsSequence
    <2> QED
      BY <2>1, <2>3, Zenon
  <1>3. \A x, y : AuthoredSentences(x) /\ AuthoredSentences(y) =>
          Sequence(<<x, y>>) /\ \A i \in DOMAIN <<x, y>> : AuthoredSentences(<<x, y>>[i])
    <2> SUFFICES ASSUME NEW x, NEW y, AuthoredSentences(x), AuthoredSentences(y)
                 PROVE  Sequence(<<x, y>>) /\ \A i \in DOMAIN <<x, y>> : AuthoredSentences(<<x, y>>[i])
      OBVIOUS
    <2>1. PICK q : q = <<x, y>>
      OBVIOUS
    <2>2. q \in Seq({x, y})
      BY <2>1
    <2>3. Sequence(q) /\ \A i \in DOMAIN q : q[i] = x \/ q[i] = y
      BY <2>2, SeqIsSequence
    <2> QED
      BY <2>1, <2>3, Zenon
  <1>4. ASSUME NEW i \in DOMAIN feature.scenarios PROVE ConcretesFit(e(i).scenarios)
    <2>1. AuthoredScenario(feature.scenarios[i]) /\ AuthoredSentences(feature.background)
      BY Zenon DEF AuthoredFeature, AuthoredScenarios
    <2> QED
      BY <1>2, <2>1, ExpandFits
  <1>5. ASSUME NEW r \in DOMAIN feature.rules
        PROVE  /\ Sequence(feature.rules[r].scenarios)
               /\ \A i \in DOMAIN feature.rules[r].scenarios : ConcretesFit(d(r, i).scenarios)
    <2>1. /\ AuthoredSentences(feature.rules[r].background) /\ AuthoredSentences(feature.background)
          /\ Sequence(feature.rules[r].scenarios)
          /\ \A i \in DOMAIN feature.rules[r].scenarios : AuthoredScenario(feature.rules[r].scenarios[i])
      BY Zenon DEF AuthoredFeature, AuthoredScenarios
    <2>2. \A i \in DOMAIN feature.rules[r].scenarios : ConcretesFit(d(r, i).scenarios)
      BY <1>3, <2>1, ExpandFits
    <2> QED
      BY <2>1, <2>2
  <1> HIDE DEF e, d
  <1>6. Sequence(plain) /\ \A k \in DOMAIN plain : ConcretesFit(plain[k].scenarios)
    <2>1. Sequence(feature.scenarios)
      BY DEF AuthoredFeature, AuthoredScenarios
    <2>2. PICK n \in Nat : DOMAIN feature.scenarios = 1..n
      BY <2>1, SequenceHas
    <2>3. plain = [i \in 1..n |-> plain[i]] /\ \A i \in 1..n : plain[i] = e(i)
      BY <2>2
    <2> HIDE DEF plain
    <2>4. Sequence(plain) /\ DOMAIN plain = 1..n
      BY <2>3, SequenceIs
    <2> QED
      BY <1>4, <2>2, <2>3, <2>4
  <1>7. ASSUME NEW r \in DOMAIN feature.rules
        PROVE  Sequence(part(r)) /\ \A k \in DOMAIN part(r) : ConcretesFit(part(r)[k].scenarios)
    <2>1. PICK n \in Nat : DOMAIN feature.rules[r].scenarios = 1..n
      BY <1>5, SequenceHas
    <2>2. PICK q : q = part(r)
      OBVIOUS
    <2>3. q = [i \in 1..n |-> q[i]] /\ \A i \in 1..n : q[i] = d(r, i)
      BY <2>1, <2>2
    <2>4. Sequence(q) /\ DOMAIN q = 1..n
      BY <2>3, SequenceIs
    <2>5. \A k \in DOMAIN q : ConcretesFit(q[k].scenarios)
      BY <1>5, <2>1, <2>3, <2>4
    <2> QED
      BY <2>2, <2>4, <2>5, Zenon
  <1> HIDE DEF plain, part
  <1>8. Sequence(parts) /\ DOMAIN parts = DOMAIN feature.rules /\ \A r \in DOMAIN parts : parts[r] = part(r)
    <2>1. PICK n \in Nat : DOMAIN feature.rules = 1..n
      BY SequenceHas DEF AuthoredFeature
    <2>2. parts = [r \in 1..n |-> parts[r]] /\ \A r \in 1..n : parts[r] = part(r)
      BY <2>1
    <2> HIDE DEF parts
    <2>3. Sequence(parts) /\ DOMAIN parts = 1..n
      BY <2>2, SequenceIs
    <2> QED
      BY <2>1, <2>2, <2>3, Zenon
  <1> HIDE DEF parts
  <1>9. Sequence(ruled) /\ \A k \in DOMAIN ruled : ConcretesFit(ruled[k].scenarios)
    <2>1. \A r \in DOMAIN parts : Sequence(parts[r])
      BY <1>7, <1>8, Zenon
    <2>2. /\ Sequence(ruled)
          /\ \A k \in DOMAIN ruled : \E r \in DOMAIN parts : \E j \in DOMAIN parts[r] : ruled[k] = parts[r][j]
      BY <1>8, <2>1, FlattenFrom
    <2>3. \A r \in DOMAIN parts : \A j \in DOMAIN parts[r] : ConcretesFit(parts[r][j].scenarios)
      BY <1>7, <1>8, Zenon
    <2> HIDE DEF ruled
    <2> QED
      BY <2>2, <2>3, Zenon
  <1> HIDE DEF ruled
  <1>10. Sequence(all) /\ \A k \in DOMAIN all : ConcretesFit(all[k].scenarios)
    <2>1. PICK a : a = all
      OBVIOUS
    <2>2. /\ Sequence(a)
          /\ \A k \in DOMAIN a : (\E i \in DOMAIN plain : a[k] = plain[i]) \/ (\E i \in DOMAIN ruled : a[k] = ruled[i])
      <3>1. Sequence(plain) /\ Sequence(ruled) /\ a = plain \o ruled
        BY <1>6, <1>9, <2>1
      <3>2. PICK x, y : x = plain /\ y = ruled
        OBVIOUS
      <3>3. Sequence(x) /\ Sequence(y) /\ a = x \o y
        BY <3>1, <3>2, Zenon
      <3>4. Sequence(a) /\ OfEither(a, x, y)
        BY <3>3, JoinFrom
      <3> QED
        BY <3>2, <3>4, Zenon DEF OfEither
    <2>3. \A k \in DOMAIN a : ConcretesFit(a[k].scenarios)
      BY <1>6, <1>9, <2>2, Zenon
    <2> QED
      BY <2>1, <2>2, <2>3, Zenon
  <1> HIDE DEF all
  <1>11. Sequence(lists) /\ \A k \in DOMAIN lists : ConcretesFit(lists[k])
    <2>1. PICK n \in Nat : DOMAIN all = 1..n
      BY <1>10, SequenceHas
    <2>2. lists = [i \in 1..n |-> lists[i]] /\ \A i \in 1..n : lists[i] = all[i].scenarios
      BY <2>1
    <2> HIDE DEF lists
    <2>3. Sequence(lists) /\ DOMAIN lists = 1..n
      BY <2>2, SequenceIs
    <2> QED
      BY <1>10, <2>1, <2>2, <2>3, Zenon
  <1> HIDE DEF lists
  <1>12. PICK flat : flat = FlattenSeq(lists)
    OBVIOUS
  <1>13. ConcretesFit(flat)
    BY <1>11, <1>12, FlattenConcretes, Zenon
  <1>14. SceneFits(Dedup(flat))
    <2>1. \A i \in DOMAIN flat : AuthoredSentences(flat[i].steps)
      BY <1>13, Zenon DEF ConcretesFit, ConcreteFits
    <2>2. /\ DOMAIN Dedup(flat) = DOMAIN flat
          /\ \A i \in DOMAIN flat : Dedup(flat)[i].steps = flat[i].steps
          /\ \A i, j \in DOMAIN flat : Dedup(flat)[i].name = Dedup(flat)[j].name => i = j
      BY <1>13, DedupFits
    <2> QED
      BY <2>1, <2>2, Zenon DEF SceneFits
  <1>15. SceneFits(<<>>)
    <2>1. DOMAIN <<>> = {}
      OBVIOUS
    <2> QED
      BY <2>1 DEF SceneFits
  <1> HIDE DEF flaws
  <1> QED
    BY <1>1, <1>12, <1>14, <1>15, Zenon

(***************************************************************************)
(* match_pattern: what is caught is a piece of the sentence.                *)
(***************************************************************************)
Parts == ({"lit"} \X Text) \cup ({"cap"} \X Nat)

LEMMA PieceFits ==
    ASSUME NEW text \in Text, NEW n \in Nat, n <= Len(text)
    PROVE  After(text, n) \in Text /\ SubSeq(text, 1, n) \in Text
  BY DEF Text, After

Taking(acc) == acc = [ok |-> acc.ok, rest |-> acc.rest, args |-> acc.args]
               /\ acc.rest \in Text /\ TextsOnly(acc.args)

LEMMA TakeFits ==
    ASSUME NEW pattern \in Seq(Parts), NEW i \in 1..Len(pattern), NEW acc, Taking(acc)
    PROVE  Taking(Take(acc, pattern, i))
  <1> DEFINE part == pattern[i]
             bounded == i < Len(pattern) /\ pattern[i + 1][1] = "lit"
             ends == IF bounded THEN Occurs(acc.rest, pattern[i + 1][2]) ELSE {Len(acc.rest)}
             end == CHOOSE e \in ends : \A f \in ends : e <= f
             caught == [x \in DOMAIN acc.args \cup {part[2]} |->
                          IF x = part[2] THEN SubSeq(acc.rest, 1, end) ELSE acc.args[x]]
             r == Take(acc, pattern, i)
  <1>1. PICK ok, rest, args : acc = [ok |-> ok, rest |-> rest, args |-> args]
                                /\ rest \in Text /\ TextsOnly(args)
    BY Zenon DEF Taking
  <1>2. acc.ok = ok /\ acc.rest = rest /\ acc.args = args
    BY <1>1
  <1>3. Len(rest) \in Nat
    BY <1>1 DEF Text
  <1>4. \A b, q, f : q \in Text /\ TextsOnly(f) => Taking([ok |-> b, rest |-> q, args |-> f])
    BY DEF Taking
  <1>5. CASE ~ acc.ok
    BY <1>5, Zenon DEF Take
  <1>6. CASE acc.ok /\ part[1] = "lit"
    <2>1. part[2] \in Text
      <3>1. pattern[i] \in Parts
        OBVIOUS
      <3> QED
        BY <1>6, <3>1 DEF Parts
    <2>2. CASE Prefixed(acc.rest, part[2])
      <3>1. Len(part[2]) \in Nat /\ Len(part[2]) <= Len(rest)
        BY <1>2, <2>1, <2>2 DEF Prefixed, Text
      <3>2. After(rest, Len(part[2])) \in Text
        <4> HIDE DEF part
        <4> QED
          BY <1>1, <3>1, PieceFits
      <3>3. r = [acc EXCEPT !.rest = After(@, Len(part[2]))]
        BY <1>6, <2>2, Zenon DEF Take
      <3> HIDE DEF part, r
      <3>4. r = [ok |-> ok, rest |-> After(rest, Len(part[2])), args |-> args]
        BY <1>1, <1>2, <3>3
      <3>5. Taking(r)
        BY <1>1, <1>4, <3>2, <3>4, Zenon
      <3> QED
        BY <3>5 DEF r
    <2>3. CASE ~ Prefixed(acc.rest, part[2])
      <3>1. r = [acc EXCEPT !.ok = FALSE]
        BY <1>6, <2>3, Zenon DEF Take
      <3> HIDE DEF part, r
      <3>2. r = [ok |-> FALSE, rest |-> rest, args |-> args]
        BY <1>1, <1>2, <3>1
      <3>3. Taking(r)
        BY <1>1, <1>4, <3>2, Zenon
      <3> QED
        BY <3>3 DEF r
    <2> QED
      BY <2>2, <2>3
  <1>7. CASE acc.ok /\ part[1] # "lit" /\ ends = {}
    <2>1. r = [acc EXCEPT !.ok = FALSE]
      BY <1>7, Zenon DEF Take
    <2> HIDE DEF part, ends, r
    <2>2. r = [ok |-> FALSE, rest |-> rest, args |-> args]
      BY <1>1, <1>2, <2>1
    <2>3. Taking(r)
      BY <1>1, <1>4, <2>2, Zenon
    <2> QED
      BY <2>3 DEF r
  <1>8. CASE acc.ok /\ part[1] # "lit" /\ ends # {}
    <2>1. ends \subseteq 0..Len(rest)
      BY <1>2, <1>3 DEF Occurs
    <2>2. \E e \in ends : \A f \in ends : e <= f
      <3> HIDE DEF ends
      <3>1. ends \subseteq Nat /\ ends # {}
        BY <1>3, <1>8, <2>1
      <3> QED
        BY <3>1, LeastNumber
    <2>3. end \in ends
      <3> HIDE DEF ends
      <3> QED
        BY <2>2, Zenon
    <2>4. end \in Nat /\ end <= Len(rest)
      <3> HIDE DEF ends, end
      <3> QED
        BY <1>3, <2>1, <2>3
    <2>5. r = [acc EXCEPT !.rest = After(@, end), !.args = caught]
      BY <1>8, Zenon DEF Take
    <2> HIDE DEF end
    <2>6. After(rest, end) \in Text /\ SubSeq(rest, 1, end) \in Text
      BY <1>1, <2>4, PieceFits
    <2> HIDE DEF part
    <2>7. TextsOnly(caught)
      BY <1>1, <1>2, <2>6 DEF TextsOnly
    <2> HIDE DEF caught, r, ends
    <2>8. r = [ok |-> ok, rest |-> After(rest, end), args |-> caught]
      BY <1>1, <1>2, <2>5
    <2>9. Taking(r)
      BY <1>4, <2>6, <2>7, <2>8, Zenon
    <2> QED
      BY <2>9 DEF r
  <1> QED
    BY <1>5, <1>6, <1>7, <1>8

\* Matching(f, ...): f[i] is what i parts of a pattern have taken.
Matching(f, pattern, text) ==
    f = [i \in 0..Len(pattern) |->
            IF i = 0 THEN [ok |-> TRUE, rest |-> text, args |-> <<>>]
            ELSE Take(f[i - 1], pattern, i)]
MatchingTo(f, pattern, text, k) ==
    \A i \in 0..Len(pattern) :
        i <= k => f[i] = IF i = 0 THEN [ok |-> TRUE, rest |-> text, args |-> <<>>]
                         ELSE Take(f[i - 1], pattern, i)

LEMMA MatchingOn ==
    ASSUME NEW pattern, NEW text, Len(pattern) \in Nat,
           NEW k \in Nat, NEW f, MatchingTo(f, pattern, text, k)
    PROVE  \E g : MatchingTo(g, pattern, text, k + 1)
  <1> DEFINE g == [i \in 0..Len(pattern) |->
                     IF i <= k THEN f[i]
                     ELSE IF i = 0 THEN [ok |-> TRUE, rest |-> text, args |-> <<>>]
                     ELSE Take(f[i - 1], pattern, i)]
  <1>1. \A i \in 0..Len(pattern) : g[i] = IF i <= k THEN f[i]
                                    ELSE IF i = 0 THEN [ok |-> TRUE, rest |-> text, args |-> <<>>]
                                    ELSE Take(f[i - 1], pattern, i)
    OBVIOUS
  <1> HIDE DEF g
  <1>2. ASSUME NEW i \in 0..Len(pattern), i <= k + 1
        PROVE  g[i] = IF i = 0 THEN [ok |-> TRUE, rest |-> text, args |-> <<>>]
                      ELSE Take(g[i - 1], pattern, i)
    <2>1. i # 0 => i - 1 \in 0..Len(pattern) /\ i - 1 <= k
      BY <1>2
    <2>2. i # 0 => g[i - 1] = f[i - 1]
      BY <1>1, <2>1
    <2>3. CASE i <= k
      <3>1. f[i] = IF i = 0 THEN [ok |-> TRUE, rest |-> text, args |-> <<>>]
                   ELSE Take(f[i - 1], pattern, i)
        BY <2>3, Zenon DEF MatchingTo
      <3> QED
        BY <1>1, <2>2, <2>3, <3>1, Zenon
    <2>4. CASE ~ (i <= k)
      BY <1>1, <2>2, <2>4, Zenon
    <2> QED
      BY <2>3, <2>4
  <1> QED
    BY <1>2 DEF MatchingTo

LEMMA MatchingRuns ==
    ASSUME NEW pattern, NEW text, Len(pattern) \in Nat
    PROVE  \E f : Matching(f, pattern, text)
  <1> DEFINE P == {k \in Nat : \E f : MatchingTo(f, pattern, text, k)}
  <1>1. 0 \in P
    <2> DEFINE f == [i \in 0..Len(pattern) |-> [ok |-> TRUE, rest |-> text, args |-> <<>>]]
    <2>1. MatchingTo(f, pattern, text, 0)
      BY DEF MatchingTo
    <2> QED
      BY <2>1
  <1>2. \A k \in Nat : k \in P => k + 1 \in P
    BY MatchingOn
  <1> HIDE DEF P
  <1>3. Len(pattern) \in P
    BY <1>1, <1>2, CountingOn
  <1>4. PICK f : MatchingTo(f, pattern, text, Len(pattern))
    BY <1>3 DEF P
  <1> DEFINE g == [i \in 0..Len(pattern) |-> f[i]]
  <1>5. \A i \in 0..Len(pattern) : g[i] = f[i]
    OBVIOUS
  <1>6. g = [i \in 0..Len(pattern) |-> g[i]]
    OBVIOUS
  <1> HIDE DEF g
  <1>7. ASSUME NEW i \in 0..Len(pattern)
        PROVE  g[i] = IF i = 0 THEN [ok |-> TRUE, rest |-> text, args |-> <<>>]
                      ELSE Take(g[i - 1], pattern, i)
    <2>1. i # 0 => i - 1 \in 0..Len(pattern)
      OBVIOUS
    <2>2. i <= Len(pattern)
      OBVIOUS
    <2>3. f[i] = IF i = 0 THEN [ok |-> TRUE, rest |-> text, args |-> <<>>]
                 ELSE Take(f[i - 1], pattern, i)
      BY <1>4, <2>2, Zenon DEF MatchingTo
    <2> QED
      BY <1>5, <2>1, <2>3, Zenon
  <1>8. Matching(g, pattern, text)
    BY <1>6, <1>7, Zenon DEF Matching
  <1> QED
    BY <1>8

LEMMA MatchFits ==
    ASSUME NEW pattern \in Seq(Parts), NEW text \in Text
    PROVE  TextsOnly(Match(pattern, text).args)
  <1> DEFINE f0 == CHOOSE g : Matching(g, pattern, text)
  <1>1. Match(pattern, text) = [ok |-> f0[Len(pattern)].ok /\ f0[Len(pattern)].rest = <<>>,
                                args |-> f0[Len(pattern)].args]
    BY Zenon DEF Match, Matching
  <1>2. PICK m \in Nat : m = Len(pattern)
    OBVIOUS
  <1>3. PICK f : f = f0
    OBVIOUS
  <1>4. Matching(f, pattern, text)
    BY <1>2, <1>3, MatchingRuns, Zenon
  <1> HIDE DEF f0
  <1>5. \A i \in 0..m : f[i] = IF i = 0 THEN [ok |-> TRUE, rest |-> text, args |-> <<>>]
                               ELSE Take(f[i - 1], pattern, i)
    BY <1>2, <1>4, Zenon DEF Matching
  <1> DEFINE P == {i \in Nat : i \in 0..m => Taking(f[i])}
  <1>6. 0 \in P
    <2>1. f[0] = [ok |-> TRUE, rest |-> text, args |-> <<>>]
      <3>1. 0 \in 0..m
        OBVIOUS
      <3> QED
        BY <1>5, <3>1, Zenon
    <2>2. DOMAIN <<>> = {}
      OBVIOUS
    <2>3. Taking(f[0])
      BY <2>1, <2>2 DEF Taking, TextsOnly
    <2> QED
      BY <2>3
  <1>7. ASSUME NEW i \in Nat, i \in P PROVE i + 1 \in P
    <2>0. i + 1 \in Nat
      OBVIOUS
    <2> SUFFICES ASSUME i + 1 \in 0..m PROVE Taking(f[i + 1])
      BY <2>0, Zenon
    <2>1. i \in 0..m /\ (i + 1) - 1 = i /\ i + 1 # 0 /\ i + 1 \in 1..m
      OBVIOUS
    <2>2. Taking(f[i])
      BY <1>7, <2>1
    <2>3. f[i + 1] = Take(f[i], pattern, i + 1)
      BY <1>5, <2>1, Zenon
    <2>4. Taking(Take(f[i], pattern, i + 1))
      BY <1>2, <2>1, <2>2, TakeFits
    <2> QED
      BY <2>3, <2>4, Zenon
  <1>8. m \in P
    <2> HIDE DEF P
    <2> QED
      BY <1>6, <1>7, CountingOn
  <1>9. TextsOnly(f[m].args)
    BY <1>8 DEF Taking
  <1>10. Match(pattern, text).args = f[m].args
    BY <1>1, <1>2, <1>3
  <1> QED
    BY <1>9, <1>10, Zenon

(***************************************************************************)
(* What is authored is found again: in a macro that loaded, in its steps,   *)
(* and in the arguments that a sentence binds.                              *)
(***************************************************************************)
LEMMA SuiteAuthored ==
    ASSUME suite \in Suites
    PROVE  /\ AuthoredFeature(suite.feature)
           /\ \A p \in DOMAIN Packs_ :
                 /\ AuthoredTable(Packs_[p].bind)
                 /\ \A m \in DOMAIN Packs_[p].macros : AuthoredMacro(Packs_[p].macros[m])
  BY AuthoredAssumption, Zenon DEF Suites, Packs_

LEMMA LoadedAuthored ==
    ASSUME suite \in Suites, NEW m \in Loaded(Packs_)
    PROVE  /\ AuthoredMacro(MacroOf(Packs_, m)) /\ Listed(MacroOf(Packs_, m).steps)
           /\ PackOf(Packs_, m) \in DOMAIN Packs_ /\ AuthoredTable(Packs_[PackOf(Packs_, m)].bind)
  <1>1. Fit(Packs_)
    BY SuiteFits
  <1>2. PackOf(Packs_, m) \in DOMAIN Packs_ /\ m \in DOMAIN Packs_[PackOf(Packs_, m)].macros
    BY <1>1, LoadedPlace
  <1>3. Listed(MacroOf(Packs_, m).steps)
    BY <1>1, LoadedListed
  <1> QED
    BY <1>2, <1>3, SuiteAuthored, Zenon DEF MacroOf

LEMMA KeptAuthored ==
    ASSUME NEW m, AuthoredMacro(m), Listed(m.steps), NEW k \in DOMAIN KeptSteps(m)
    PROVE  AuthoredStep(KeptSteps(m)[k]) /\ OneBody(KeptSteps(m)[k])
  <1>1. PICK I : I = {i \in DOMAIN m.steps : OneBody(m.steps[i])}
    OBVIOUS
  <1>2. I \subseteq Nat /\ IsFiniteSet(I)
    <2>1. I \subseteq DOMAIN m.steps
      BY <1>1
    <2> QED
      BY <2>1, FS_Subset DEF Listed
  <1>3. PICK K : K = KeptSteps(m)
    OBVIOUS
  <1>4. K = Picked(m.steps, I)
    BY <1>1, <1>3, Zenon DEF KeptSteps
  <1>5. DOMAIN K = 1..Cardinality(I) /\ \A j \in 1..Cardinality(I) : \E i \in I : K[j] = m.steps[i]
    BY <1>2, <1>4, PickedFinds
  <1>6. PICK i \in I : K[k] = m.steps[i]
    BY <1>3, <1>5, Zenon
  <1>7. i \in DOMAIN m.steps /\ OneBody(m.steps[i])
    BY <1>1
  <1>8. AuthoredStep(m.steps[i])
    BY <1>7 DEF AuthoredMacro
  <1> QED
    BY <1>3, <1>6, <1>7, <1>8, Zenon

LEMMA FirstText ==
    ASSUME NEW t \in Seq(Text), t # <<>>
    PROVE  t[1] \in Text
  OBVIOUS

LEMMA BodyTexts ==
    ASSUME NEW s, AuthoredStep(s), OneBody(s)
    PROVE  /\ Kind(s) = "payload" => s.payloads[1] \in Text
           /\ Given(s.when) => s.when[1] \in Text
           /\ Given(s.label) => s.label[1] \in Text
  <1>1. PICK use, ref, payloads : use = s.use /\ ref = s.ref /\ payloads = s.payloads
    OBVIOUS
  <1>2. use \in Seq(Nat \X Nat) /\ ref \in Seq(Nat \X Nat) /\ payloads \in Seq(Text)
    BY <1>1 DEF AuthoredStep
  <1>3. Kind(s) = "payload" => payloads[1] \in Text
    <2> SUFFICES ASSUME Kind(s) = "payload" PROVE payloads[1] \in Text
      OBVIOUS
    <2>1. use = <<>> /\ ref = <<>>
      BY <1>1 DEF Kind, Given
    <2>2. Len(use) + Len(ref) + Len(payloads) = 1
      BY <1>1, Zenon DEF OneBody
    <2>3. Len(payloads) = 1
      BY <1>2, <2>1, <2>2
    <2>4. payloads # <<>>
      BY <2>3
    <2> QED
      BY <1>2, <2>4, FirstText, Zenon
  <1>4. \A t : t \in Seq(Text) /\ Given(t) => t[1] \in Text
    BY FirstText, Zenon DEF Given
  <1> QED
    BY <1>1, <1>3, <1>4, Zenon DEF AuthoredStep

LEMMA BoundTexts ==
    ASSUME suite \in Suites, NEW step, SentenceFits(step), BindFaults(Packs_, step) = {}
    PROVE  TextsOnly(Bound(Packs_, step).args)
  <1>1. PICK name : name = BoundMacro(Packs_, step.text)
    OBVIOUS
  <1>2. name \in Loaded(Packs_)
    <2>1. Bound(Packs_, step).macro \in Loaded(Packs_)
      BY BindFits
    <2>2. Bound(Packs_, step).macro = BoundMacro(Packs_, step.text)
      BY DEF Bound
    <2> QED
      BY <1>1, <2>1, <2>2, Zenon
  <1>3. PICK m : m = MacroOf(Packs_, name)
    OBVIOUS
  <1>4. AuthoredMacro(m)
    BY <1>2, <1>3, LoadedAuthored, Zenon
  <1>5. PICK caught : caught = Caught(Packs_, step)
    OBVIOUS
  <1>6. TextsOnly(caught)
    <2>1. m.match \in Seq(Parts) /\ step.text \in Text
      BY <1>4 DEF AuthoredMacro, Parts, SentenceFits
    <2>2. TextsOnly(Match(m.match, step.text).args)
      BY <2>1, MatchFits
    <2> QED
      BY <1>1, <1>3, <1>5, <2>2, Zenon DEF Caught
  <1>7. PICK fits : fits = {k \in DOMAIN step.table : k \notin DOMAIN caught /\ k \in ToSet(m.params)}
    OBVIOUS
  <1>8. PICK doc : doc = (Given(step.doc) /\ Docstring \in ToSet(m.params))
    OBVIOUS
  <1> DEFINE Dom == DOMAIN caught \cup fits \cup DOMAIN m.defaults \cup (IF doc THEN {Docstring} ELSE {})
             Val(x) == IF doc /\ x = Docstring THEN step.doc[1]
                       ELSE IF x \in DOMAIN caught THEN caught[x]
                       ELSE IF x \in fits THEN step.table[x] ELSE m.defaults[x]
             all == [x \in Dom |-> Val(x)]
  <1>9. Bound(Packs_, step).args = all
    BY <1>1, <1>3, <1>5, <1>7, <1>8 DEF Bound
  <1>10. ASSUME NEW x \in Dom PROVE Val(x) \in Text
    <2>1. doc => step.doc[1] \in Text
      BY <1>8, FirstText, Zenon DEF SentenceFits, Given
    <2>2. x \in DOMAIN caught => caught[x] \in Text
      BY <1>6 DEF TextsOnly
    <2>3. x \in fits => step.table[x] \in Text
      BY <1>7 DEF SentenceFits, AuthoredTable
    <2>4. x \in DOMAIN m.defaults => m.defaults[x] \in Text
      BY <1>4 DEF AuthoredMacro, AuthoredTable
    <2> QED
      BY <2>1, <2>2, <2>3, <2>4
  <1>11. DOMAIN all = Dom /\ \A x \in Dom : all[x] = Val(x)
    BY Zenon
  <1> HIDE DEF all, Dom, Val
  <1>12. TextsOnly(all)
    BY <1>10, <1>11, Zenon DEF TextsOnly
  <1> QED
    BY <1>9, <1>12, Zenon

(***************************************************************************)
(* Identities: what was made so far goes up to the counter, and what a pack *)
(* binds is what its table has.                                             *)
(***************************************************************************)
Agree(f, g, V) == \A v \in V : /\ v \in DOMAIN f <=> v \in DOMAIN g
                               /\ v \in DOMAIN f => f[v] = g[v]

\* What the pack of a macro binds, and the macro, or its k-th step, does not.
PackOnly(packs, name) ==
    DOMAIN packs[PackOf(packs, name)].bind \ DOMAIN MacroOf(packs, name).bind
StepOnly(packs, name, k) ==
    PackOnly(packs, name) \ DOMAIN KeptSteps(MacroOf(packs, name))[k].bind

Bears(packs, made, name, f, V) ==
    PackOf(packs, name) \in DOMAIN made /\ Agree(f, made[PackOf(packs, name)], V)

StepMade(packs, made, n, s) ==
    /\ s.own \subseteq 1..n /\ Occurrences(s.label) \subseteq 1..n
    /\ s.form = "ref" => Bears(packs, made, s.macro, s.vals, StepOnly(packs, s.macro, s.item))

FrameMade(packs, made, n, f) ==
    /\ Fitting(f.args, n)
    /\ HasRef(MacroOf(packs, f.macro)) => Bears(packs, made, f.macro, f.scoped, PackOnly(packs, f.macro))

StackMade(packs, made, n, stack) == \A i \in 1..Len(stack) : FrameMade(packs, made, n, stack[i])

Apart(packs, s, t) ==
    /\ s.own \cap t.own = {} /\ Occurrences(s.label) \cap t.own = {}
    /\ s.form = "ref" /\ t.form = "ref" /\ PackOf(packs, s.macro) = PackOf(packs, t.macro) =>
         Agree(s.vals, t.vals, StepOnly(packs, s.macro, s.item) \cap StepOnly(packs, t.macro, t.item))

AllApart(packs, steps) == \A k, l \in DOMAIN steps : k < l => Apart(packs, steps[k], steps[l])

StepsMade(packs, made, n, steps) ==
    /\ Sequence(steps) /\ AllApart(packs, steps)
    /\ \A k \in DOMAIN steps : StepMade(packs, made, n, steps[k])

\* Tables are made once, and the counter only goes up.
Within(made, made2) == \A p \in DOMAIN made : p \in DOMAIN made2 /\ made2[p] = made[p]
Later(made, n, made2, m) == n \in Nat /\ m \in Nat /\ n <= m /\ Within(made, made2)

LEMMA BearsLater ==
    ASSUME NEW made, NEW n, NEW made2, NEW m, Later(made, n, made2, m), NEW packs, NEW name,
           NEW f, NEW V, Bears(packs, made, name, f, V)
    PROVE  Bears(packs, made2, name, f, V)
  <1>1. PICK p : p = PackOf(packs, name)
    OBVIOUS
  <1>2. p \in DOMAIN made /\ Agree(f, made[p], V)
    BY <1>1, Zenon DEF Bears
  <1>3. p \in DOMAIN made2 /\ made2[p] = made[p]
    BY <1>2, Zenon DEF Later, Within
  <1> QED
    BY <1>1, <1>2, <1>3, Zenon DEF Bears

LEMMA StackLater ==
    ASSUME NEW made, NEW n, NEW made2, NEW m, Later(made, n, made2, m),
           NEW packs, NEW stack, StackMade(packs, made, n, stack)
    PROVE  StackMade(packs, made2, m, stack)
  <1>1. n \in Nat /\ m \in Nat /\ n <= m
    BY DEF Later
  <1>2. \A f : Fitting(f, n) => Fitting(f, m)
    BY <1>1, UpToGrows
  <1>3. ASSUME NEW i \in 1..Len(stack) PROVE FrameMade(packs, made2, m, stack[i])
    <2>1. FrameMade(packs, made, n, stack[i])
      BY Zenon DEF StackMade
    <2>2. Fitting(stack[i].args, m)
      BY <1>2, <2>1, Zenon DEF FrameMade
    <2>3. HasRef(MacroOf(packs, stack[i].macro)) =>
            Bears(packs, made2, stack[i].macro, stack[i].scoped, PackOnly(packs, stack[i].macro))
      BY <2>1, BearsLater, Zenon DEF FrameMade
    <2> QED
      BY <2>2, <2>3, Zenon DEF FrameMade
  <1> QED
    BY <1>3, Zenon DEF StackMade

LEMMA StepsLater ==
    ASSUME NEW made, NEW n, NEW made2, NEW m, Later(made, n, made2, m),
           NEW packs, NEW steps, StepsMade(packs, made, n, steps)
    PROVE  StepsMade(packs, made2, m, steps)
  <1>1. 1..n \subseteq 1..m
    BY DEF Later
  <1>2. ASSUME NEW k \in DOMAIN steps PROVE StepMade(packs, made2, m, steps[k])
    <2>1. StepMade(packs, made, n, steps[k])
      BY Zenon DEF StepsMade
    <2>2. steps[k].form = "ref" =>
            Bears(packs, made2, steps[k].macro, steps[k].vals,
                  StepOnly(packs, steps[k].macro, steps[k].item))
      BY <2>1, BearsLater, Zenon DEF StepMade
    <2>3. steps[k].own \subseteq 1..m /\ Occurrences(steps[k].label) \subseteq 1..m
      BY <1>1, <2>1, Zenon DEF StepMade
    <2> QED
      BY <2>2, <2>3, Zenon DEF StepMade
  <1> QED
    BY <1>2, Zenon DEF StepsMade

Longer(r, s, t) ==
    /\ Len(s) \in Nat /\ DOMAIN s = 1..Len(s)
    /\ Sequence(r) /\ DOMAIN r = 1..(Len(s) + 1) /\ Len(r) = Len(s) + 1
    /\ r[Len(s) + 1] = t /\ \A k \in DOMAIN s : r[k] = s[k]

LEMMA AppendHas ==
    ASSUME NEW s, Sequence(s), NEW t, NEW r, r = Append(s, t)
    PROVE  Longer(r, s, t)
  <1>1. PICK X : X = ToSet(s) \cup {t}
    OBVIOUS
  <1>2. s \in Seq(ToSet(s))
    BY DEF Sequence
  <1>3. Len(s) \in Nat /\ DOMAIN s = 1..Len(s)
    BY <1>2
  <1>4. s \in Seq(X) /\ t \in X
    BY <1>1, <1>2
  <1>5. r \in Seq(X) /\ DOMAIN r = 1..(Len(s) + 1) /\ Len(r) = Len(s) + 1
        /\ r[Len(s) + 1] = t /\ \A k \in DOMAIN s : r[k] = s[k]
    BY <1>4
  <1>6. Sequence(r)
    BY <1>5, SeqIsSequence
  <1> QED
    BY <1>3, <1>5, <1>6 DEF Longer

\* A step whose values were made after all the others.
LEMMA StepAppends ==
    ASSUME NEW packs, NEW made, NEW n \in Nat, NEW steps, StepsMade(packs, made, n, steps),
           NEW t, t.own \cap 1..n = {},
           t.form = "ref" => Bears(packs, made, t.macro, t.vals, StepOnly(packs, t.macro, t.item)),
           NEW m \in Nat, n <= m, StepMade(packs, made, m, t)
    PROVE  StepsMade(packs, made, m, Append(steps, t))
  <1>1. PICK r : r = Append(steps, t)
    OBVIOUS
  <1>2. Sequence(steps)
    BY Zenon DEF StepsMade
  <1>3. /\ Len(steps) \in Nat /\ DOMAIN steps = 1..Len(steps)
        /\ Sequence(r) /\ DOMAIN r = 1..(Len(steps) + 1)
        /\ r[Len(steps) + 1] = t /\ \A k \in DOMAIN steps : r[k] = steps[k]
    <2>1. Longer(r, steps, t)
      BY <1>1, <1>2, AppendHas
    <2> QED
      BY <2>1, Zenon DEF Longer
  <1>4. Later(made, n, made, m)
    BY DEF Later, Within
  <1>5. StepsMade(packs, made, m, steps)
    BY <1>4, StepsLater
  <1>6. \A k \in DOMAIN r : (k \in DOMAIN steps /\ r[k] = steps[k]) \/ (k = Len(steps) + 1 /\ r[k] = t)
    BY <1>3
  <1>7. ASSUME NEW k \in DOMAIN r PROVE StepMade(packs, made, m, r[k])
    <2>1. CASE k \in DOMAIN steps /\ r[k] = steps[k]
      BY <1>5, <2>1, Zenon DEF StepsMade
    <2>2. CASE r[k] = t
      BY <2>2, Zenon
    <2> QED
      BY <1>6, <2>1, <2>2, Zenon
  <1>8. ASSUME NEW s, StepMade(packs, made, n, s) PROVE Apart(packs, s, t)
    <2>1. s.own \cap t.own = {} /\ Occurrences(s.label) \cap t.own = {}
      <3>1. PICK a, b, c : a = s.own /\ b = Occurrences(s.label) /\ c = t.own
        OBVIOUS
      <3>2. a \subseteq 1..n /\ b \subseteq 1..n /\ c \cap 1..n = {}
        BY <1>8, <3>1, Zenon DEF StepMade
      <3>3. a \cap c = {} /\ b \cap c = {}
        BY <3>2, Zenon
      <3> QED
        BY <3>1, <3>3, Zenon
    <2>2. ASSUME s.form = "ref", t.form = "ref", PackOf(packs, s.macro) = PackOf(packs, t.macro)
          PROVE  Agree(s.vals, t.vals,
                       StepOnly(packs, s.macro, s.item) \cap StepOnly(packs, t.macro, t.item))
      <3>1. PICK p : p = PackOf(packs, s.macro)
        OBVIOUS
      <3>2. Agree(s.vals, made[p], StepOnly(packs, s.macro, s.item))
        BY <1>8, <2>2, <3>1, Zenon DEF StepMade, Bears
      <3>3. Agree(t.vals, made[p], StepOnly(packs, t.macro, t.item))
        BY <2>2, <3>1, Zenon DEF Bears
      <3> QED
        BY <3>2, <3>3, Zenon DEF Agree
    <2> QED
      BY <2>1, <2>2, Zenon DEF Apart
  <1>9. ASSUME NEW k \in DOMAIN r, NEW l \in DOMAIN r, k < l PROVE Apart(packs, r[k], r[l])
    <2>1. k \in DOMAIN steps /\ r[k] = steps[k]
      BY <1>3, <1>9
    <2>2. StepMade(packs, made, n, steps[k])
      BY <2>1, Zenon DEF StepsMade
    <2>3. CASE l \in DOMAIN steps /\ r[l] = steps[l]
      <3>1. AllApart(packs, steps)
        BY Zenon DEF StepsMade
      <3> QED
        BY <1>9, <2>1, <2>3, <3>1, Zenon DEF AllApart
    <2>4. CASE r[l] = t
      BY <1>8, <2>1, <2>2, <2>4, Zenon
    <2> QED
      BY <1>6, <2>3, <2>4, Zenon
  <1>10. AllApart(packs, r)
    BY <1>9, Zenon DEF AllApart
  <1>11. StepsMade(packs, made, m, r)
    BY <1>3, <1>7, <1>10, Zenon DEF StepsMade
  <1> QED
    BY <1>1, <1>11, Zenon

LEMMA OccurrencesFit ==
    ASSUME NEW n \in Nat, NEW text \in Seq(UpTo(n))
    PROVE  Occurrences(text) \subseteq 1..n
  <1> SUFFICES ASSUME NEW x \in Occurrences(text) PROVE x \in 1..n
    OBVIOUS
  <1>1. PICK i \in DOMAIN text : text[i][1] = "made" /\ x = text[i][3]
    BY DEF Occurrences
  <1>2. PICK tok : tok = text[i]
    OBVIOUS
  <1>3. tok \in UpTo(n)
    BY <1>2
  <1> QED
    BY <1>1, <1>2, <1>3, TokenParts, Zenon

\* Bindings that are laid over others leave what they do not name.
LEMMA OverAgrees ==
    ASSUME NEW f, NEW g, NEW h, NEW V, NEW W, Agree(f, h, V), DOMAIN g \cap W = {}, W \subseteq V
    PROVE  Agree(Over(f, g), h, W)
  <1> SUFFICES ASSUME NEW v \in W
               PROVE  /\ v \in DOMAIN Over(f, g) <=> v \in DOMAIN h
                      /\ v \in DOMAIN Over(f, g) => Over(f, g)[v] = h[v]
    BY Zenon DEF Agree
  <1>1. v \notin DOMAIN g /\ v \in V
    OBVIOUS
  <1>2. DOMAIN Over(f, g) = DOMAIN f \cup DOMAIN g
    BY DEF Over
  <1>3. v \in DOMAIN f => Over(f, g)[v] = f[v]
    BY <1>1 DEF Over
  <1> QED
    BY <1>1, <1>2, <1>3 DEF Agree

(***************************************************************************)
(* The identities of a run so far.                                          *)
(***************************************************************************)
ArgsAuthored(b) == \A i \in DOMAIN b : \A j \in DOMAIN b[i] : TextsOnly(b[i][j].args)
PastApart(packs, list) == Sequence(list) /\ \A i \in DOMAIN list : AllApart(packs, list[i])

IdInv ==
    /\ SceneFits(scenarios) /\ PastApart(Packs_, lowered)
    /\ fakes \in Nat /\ StackMade(Packs_, tables, fakes, frames) /\ StepsMade(Packs_, tables, fakes, out)
    /\ pc = "lower" => ArgsAuthored(bound)

LEMMA Nothing ==
    /\ DOMAIN <<>> = {} /\ Len(<<>>) = 0 /\ 1..0 = {} /\ Sequence(<<>>) /\ <<>> \in Text
    /\ \A packs, made, n : StackMade(packs, made, n, <<>>) /\ StepsMade(packs, made, n, <<>>)
    /\ \A n : Fitting(<<>>, n)
  <1>1. <<>> \in Seq({}) /\ DOMAIN <<>> = {} /\ Len(<<>>) = 0 /\ 1..0 = {}
    OBVIOUS
  <1>2. Sequence(<<>>)
    BY <1>1, SeqIsSequence
  <1>3. <<>> \in Text
    BY DEF Text
  <1>4. \A packs, made, n : StackMade(packs, made, n, <<>>)
    BY <1>1, Zenon DEF StackMade
  <1>5. \A packs, made, n : StepsMade(packs, made, n, <<>>)
    BY <1>1, <1>2, Zenon DEF StepsMade, AllApart
  <1>6. \A n : Fitting(<<>>, n)
    BY <1>1, Zenon DEF Fitting
  <1> QED
    BY <1>1, <1>2, <1>3, <1>4, <1>5, <1>6, Zenon

LEMMA AuthoredFitting ==
    ASSUME NEW n \in Nat
    PROVE  /\ \A f : TextsOnly(f) => Fitting(f, n)
           /\ \A f : AuthoredTable(f) => Fitting(f, n)
           /\ Text \subseteq Seq(UpTo(n))
  <1>1. Text \subseteq Seq(UpTo(n))
    BY UpToGrows
  <1>2. \A f : TextsOnly(f) => Fitting(f, n)
    BY <1>1, Zenon DEF TextsOnly, Fitting
  <1>3. ASSUME NEW f, AuthoredTable(f) PROVE TextsOnly(f)
    <2>1. f \in [DOMAIN f -> Text]
      BY <1>3, Zenon DEF AuthoredTable
    <2> QED
      BY <2>1 DEF TextsOnly
  <1> QED
    BY <1>1, <1>2, <1>3, Zenon

LEMMA IdStart == Init => IdInv
  <1> HAVE Init
  <1>1. /\ scenarios = <<>> /\ lowered = <<>> /\ out = <<>> /\ frames = <<>>
        /\ fakes = 0 /\ pc = "walk"
    BY DEF Init
  <1>2. SceneFits(<<>>) /\ PastApart(Packs_, <<>>)
    BY Nothing, Zenon DEF SceneFits, PastApart
  <1>3. StackMade(Packs_, tables, fakes, <<>>) /\ StepsMade(Packs_, tables, fakes, <<>>)
    BY Nothing, Zenon
  <1> QED
    BY <1>1, <1>2, <1>3 DEF IdInv

\* A step that leaves the expansion alone.
LEMMA IdStands ==
    ASSUME IdInv, UNCHANGED <<suite, lvars>>, SceneFits(scenarios'),
           pc' = "lower" => ArgsAuthored(bound')
    PROVE  IdInv'
  <1>1. /\ suite' = suite /\ frames' = frames /\ fakes' = fakes /\ tables' = tables
        /\ out' = out /\ lowered' = lowered
    BY DEF lvars
  <1>2. Packs_' = Packs_
    BY <1>1 DEF Packs_
  <1> QED
    BY <1>1, <1>2 DEF IdInv

\* A step of the expansion.
LEMMA IdLowers ==
    ASSUME IdInv, pc = "lower", UNCHANGED <<suite, scenarios, bound, lowered>>, fakes' \in Nat,
           StackMade(Packs_, tables', fakes', frames'), StepsMade(Packs_, tables', fakes', out')
    PROVE  IdInv'
  <1>1. suite' = suite /\ scenarios' = scenarios /\ bound' = bound /\ lowered' = lowered
    OBVIOUS
  <1>2. Packs_' = Packs_
    BY <1>1 DEF Packs_
  <1> QED
    BY <1>1, <1>2 DEF IdInv

LEMMA StackAppends ==
    ASSUME NEW packs, NEW made, NEW n, NEW S, NEW stack \in Seq(S), StackMade(packs, made, n, stack),
           NEW f, FrameMade(packs, made, n, f)
    PROVE  StackMade(packs, made, n, Append(stack, f))
  <1>1. PICK r : r = Append(stack, f)
    OBVIOUS
  <1>2. stack \in Seq(S \cup {f}) /\ f \in S \cup {f}
    OBVIOUS
  <1>3. Len(stack) \in Nat /\ Len(r) = Len(stack) + 1 /\ r[Len(stack) + 1] = f
        /\ \A i \in 1..Len(stack) : r[i] = stack[i]
    BY <1>1, <1>2
  <1>4. ASSUME NEW i \in 1..Len(r) PROVE FrameMade(packs, made, n, r[i])
    <2>1. i = Len(stack) + 1 \/ i \in 1..Len(stack)
      BY <1>3
    <2>2. CASE i \in 1..Len(stack)
      <3>1. FrameMade(packs, made, n, stack[i])
        BY <2>2, Zenon DEF StackMade
      <3> QED
        BY <1>3, <2>2, <3>1, Zenon
    <2>3. CASE i = Len(stack) + 1
      BY <1>3, <2>3, Zenon
    <2> QED
      BY <2>1, <2>2, <2>3
  <1> QED
    BY <1>1, <1>4, Zenon DEF StackMade

\* Where it stands in a macro is not a frame's identity.
LEMMA PassedMade ==
    ASSUME NEW height, NEW packs, Expanding(packs, height, frames), frames # <<>>,
           NEW made, NEW n, StackMade(packs, made, n, frames)
    PROVE  /\ StackMade(packs, made, n, Passed) /\ FrameMade(packs, made, n, Frame)
           /\ \E S : Passed \in Seq(S)
  <1>1. /\ Expanding(packs, height, Passed) /\ Len(Passed) = Len(frames)
        /\ Len(frames) \in Nat \ {0} /\ FrameFits(packs, height, Frame, Len(frames))
    BY PassedExpands
  <1>2. PICK S : frames \in Seq(S)
    BY DEF Expanding
  <1>3. FrameMade(packs, made, n, Frame)
    <2>1. Len(frames) \in 1..Len(frames)
      BY <1>1
    <2> QED
      BY <2>1, Zenon DEF Frame, StackMade
  <1>4. ASSUME NEW i \in 1..Len(frames) PROVE FrameMade(packs, made, n, Passed[i])
    <2>1. FrameMade(packs, made, n, frames[i])
      BY Zenon DEF StackMade
    <2>2. CASE i # Len(frames)
      <3>1. Passed[i] = frames[i]
        BY <1>2, <2>2 DEF Passed
      <3> QED
        BY <2>1, <3>1, Zenon
    <2>3. CASE i = Len(frames)
      <3>1. PICK f : f = frames[i]
        OBVIOUS
      <3>2. Passed[i] = [f EXCEPT !.item = @ + 1]
        BY <1>2, <2>3, <3>1 DEF Passed
      <3>3. f = [macro |-> f.macro, args |-> f.args, scoped |-> f.scoped, item |-> f.item]
        <4>1. f = Frame
          BY <2>3, <3>1 DEF Frame
        <4> QED
          BY <1>1, <4>1, Zenon DEF FrameFits
      <3>4. Passed[i].macro = f.macro /\ Passed[i].args = f.args /\ Passed[i].scoped = f.scoped
        BY <3>2, <3>3
      <3> QED
        BY <2>1, <3>1, <3>4, Zenon DEF FrameMade
    <2> QED
      BY <2>2, <2>3
  <1>5. StackMade(packs, made, n, Passed)
    BY <1>1, <1>4, Zenon DEF StackMade
  <1> QED
    BY <1>1, <1>3, <1>5, Zenon DEF Expanding

Only(f, p, v) == f = [x \in {p} |-> v]

LEMMA TablesLater ==
    ASSUME NEW made, NEW p, NEW vals, p \in DOMAIN made => vals = made[p],
           NEW one, Only(one, p, vals), NEW r, r = Over(made, one)
    PROVE  p \in DOMAIN r /\ r[p] = vals /\ Within(made, r)
  <1>1. DOMAIN one = {p} /\ one[p] = vals
    BY DEF Only
  <1>2. DOMAIN r = DOMAIN made \cup {p} /\ r[p] = vals
    BY <1>1 DEF Over
  <1>3. ASSUME NEW q \in DOMAIN made PROVE q \in DOMAIN r /\ r[q] = made[q]
    <2>1. CASE q = p
      BY <1>2, <2>1
    <2>2. CASE q # p
      <3>1. r[q] = made[q]
        <4>1. q \notin DOMAIN one
          BY <1>1, <2>2
        <4> QED
          BY <4>1 DEF Over
      <3> QED
        BY <1>2, <3>1
    <2> QED
      BY <2>1, <2>2
  <1> QED
    BY <1>2, <1>3, Zenon DEF Within

LEMMA InvokeMakes ==
    ASSUME suite \in Suites, NEW name \in Loaded(Packs_), NEW n \in Nat, fakes \in Nat, fakes <= n,
           NEW args, Fitting(args, n), NEW S, NEW below \in Seq(S),
           StackMade(Packs_, tables, fakes, below),
           NEW raised, Invoke(name, args, below, n, raised)
    PROVE  Later(tables, fakes, tables', fakes') /\ StackMade(Packs_, tables', fakes', frames')
  <1>1. PICK m, p : m = MacroOf(Packs_, name) /\ p = PackOf(Packs_, name)
    OBVIOUS
  <1>2. AuthoredMacro(m) /\ AuthoredTable(Packs_[p].bind)
    BY <1>1, LoadedAuthored, Zenon
  <1>3. AuthoredTable(m.bind) /\ AuthoredTable(m.defaults)
    BY <1>2, Zenon DEF AuthoredMacro
  <1>4. ASSUME NEW scoped, frames' = Onto(below, name, args, scoped),
               Later(tables, fakes, tables', fakes'), Fitting(args, fakes'),
               HasRef(m) => Bears(Packs_, tables', name, scoped, PackOnly(Packs_, name))
        PROVE  StackMade(Packs_, tables', fakes', frames')
    <2>1. PICK f : f = [macro |-> name, args |-> args, scoped |-> scoped, item |-> 1]
      OBVIOUS
    <2>2. f.macro = name /\ f.args = args /\ f.scoped = scoped
      BY <2>1
    <2>3. FrameMade(Packs_, tables', fakes', f)
      BY <1>1, <1>4, <2>2, Zenon DEF FrameMade
    <2>4. StackMade(Packs_, tables', fakes', below)
      BY <1>4, StackLater
    <2>5. StackMade(Packs_, tables', fakes', Append(below, f))
      BY <2>3, <2>4, StackAppends
    <2> QED
      BY <1>4, <2>1, <2>5, Zenon DEF Onto
  <1>5. CASE ~ HasRef(m)
    <2>1. frames' = Onto(below, name, args, <<>>) /\ fakes' = n /\ tables' = tables
      BY <1>1, <1>5 DEF Invoke, Onto
    <2>2. Later(tables, fakes, tables', fakes')
      BY <2>1 DEF Later, Within
    <2> QED
      BY <1>4, <1>5, <2>1, <2>2
  <1>6. CASE HasRef(m)
    <2>1. PICK pack : pack = PackTable(p, n)
      OBVIOUS
    <2>2. PICK own : own = ResolveTable(m.bind, args, m.defaults, pack.n)
      OBVIOUS
    <2>3. /\ frames' = Onto(below, name, args, Over(pack.vals, own.vals))
          /\ fakes' = own.n /\ tables' = Over(tables, [x \in {p} |-> pack.vals])
      BY <1>1, <1>6, <2>1, <2>2 DEF Invoke, Onto
    <2>4. pack.n \in Nat /\ n <= pack.n /\ (p \in DOMAIN tables => pack.vals = tables[p])
      <3>1. CASE p \in DOMAIN tables
        BY <2>1, <3>1 DEF PackTable
      <3>2. CASE p \notin DOMAIN tables
        <4>1. pack = ResolveTable(Packs_[p].bind, <<>>, <<>>, n)
          BY <2>1, <3>2, Zenon DEF PackTable
        <4>2. PICK bind, e : bind = Packs_[p].bind /\ e = <<>>
          OBVIOUS
        <4>3. AuthoredTable(bind) /\ Fitting(e, n)
          BY <1>2, <4>2, Nothing, Zenon
        <4>4. pack = ResolveTable(bind, e, e, n)
          BY <4>1, <4>2, Zenon
        <4>5. pack.n \in Nat /\ n <= pack.n
          BY <4>3, <4>4, TableFits
        <4> QED
          BY <3>2, <4>5
      <3> QED
        BY <3>1, <3>2
    <2>5. Fitting(args, pack.n) /\ Fitting(m.defaults, pack.n)
      BY <1>3, <2>4, UpToGrows, AuthoredFitting
    <2>6. own.n \in Nat /\ pack.n <= own.n /\ DOMAIN own.vals \subseteq DOMAIN m.bind
      BY <1>3, <2>2, <2>4, <2>5, TableFits
    <2>7. /\ p \in DOMAIN tables' /\ tables'[p] = pack.vals
          /\ Within(tables, tables')
      <3>1. PICK made, vals, r : made = tables /\ vals = pack.vals /\ r = tables'
        OBVIOUS
      <3>2. p \in DOMAIN made => vals = made[p]
        BY <2>4, <3>1, Zenon
      <3>3. PICK one : one = [x \in {p} |-> vals]
        OBVIOUS
      <3>4. r = Over(made, one)
        BY <2>3, <3>1, <3>3, Zenon
      <3>5. p \in DOMAIN r /\ r[p] = vals /\ Within(made, r)
        <4>1. Only(one, p, vals)
          BY <3>3, Zenon DEF Only
        <4> QED
          BY <3>2, <3>4, <4>1, TablesLater
      <3> QED
        BY <3>1, <3>5, Zenon
    <2>8. Later(tables, fakes, tables', fakes')
      <3>1. fakes' \in Nat /\ fakes <= fakes'
        BY <2>3, <2>4, <2>6
      <3> QED
        BY <2>7, <3>1, Zenon DEF Later
    <2>9. Fitting(args, fakes')
      BY <2>3, <2>4, <2>5, <2>6, UpToGrows
    <2>10. Bears(Packs_, tables', name, Over(pack.vals, own.vals), PackOnly(Packs_, name))
      <3>1. PICK V : V = PackOnly(Packs_, name)
        OBVIOUS
      <3>2. DOMAIN own.vals \cap V = {}
        BY <1>1, <2>6, <3>1 DEF PackOnly
      <3>3. Agree(pack.vals, pack.vals, V) /\ V \subseteq V
        BY DEF Agree
      <3>4. Agree(Over(pack.vals, own.vals), pack.vals, V)
        BY <3>2, <3>3, OverAgrees
      <3> QED
        BY <1>1, <2>7, <3>1, <3>4, Zenon DEF Bears
    <2> QED
      BY <1>4, <2>3, <2>8, <2>9, <2>10
  <1> QED
    BY <1>5, <1>6

LEMMA BeginMakes == ASSUME UsesInv, IdInv, BeginStep PROVE IdInv'
  <1>1. PICK b : b = bound[at[1]][at[2]]
    OBVIOUS
  <1>2. /\ pc = "lower" /\ frames = <<>> /\ at[1] \in DOMAIN bound /\ at[2] \in DOMAIN bound[at[1]]
        /\ Invoke(b.macro, b.args, <<>>, fakes, {})
        /\ UNCHANGED <<suite, scenarios, bound, lowered>> /\ out' = out
    BY <1>1 DEF BeginStep
  <1>3. suite \in Suites /\ b.macro \in Loaded(Packs_)
    BY <1>1, <1>2 DEF UsesInv, BoundFits
  <1>4. TextsOnly(b.args)
    BY <1>1, <1>2 DEF IdInv, ArgsAuthored
  <1>5. fakes \in Nat /\ StepsMade(Packs_, tables, fakes, out)
    BY DEF IdInv
  <1>6. Fitting(b.args, fakes)
    BY <1>4, <1>5, AuthoredFitting
  <1>7. PICK e : e = <<>>
    OBVIOUS
  <1>8. StackMade(Packs_, tables, fakes, e) /\ Invoke(b.macro, b.args, e, fakes, {})
    BY <1>2, <1>7, Nothing, Zenon
  <1>9. fakes <= fakes /\ e \in Seq({})
    BY <1>5, <1>7
  <1>10. Later(tables, fakes, tables', fakes') /\ StackMade(Packs_, tables', fakes', frames')
    BY <1>3, <1>5, <1>6, <1>7, <1>8, <1>9, InvokeMakes
  <1>11. StepsMade(Packs_, tables', fakes', out')
    BY <1>2, <1>5, <1>10, StepsLater, Zenon
  <1>12. fakes' \in Nat
    BY <1>10 DEF Later
  <1> QED
    BY <1>2, <1>10, <1>11, <1>12, IdLowers

\* The step that comes next is one that its macro authors.
LEMMA ItemTells ==
    ASSUME UsesInv, IdInv, More
    PROVE  /\ suite \in Suites /\ Expanding(Packs_, chains, frames) /\ frames # <<>> /\ pc = "lower"
           /\ Frame.macro \in Loaded(Packs_) /\ Frame.item \in DOMAIN KeptSteps(Body)
           /\ AuthoredStep(Item) /\ OneBody(Item)
           /\ fakes \in Nat /\ Fitting(Frame.args, fakes) /\ Fitting(Body.defaults, fakes)
           /\ FrameMade(Packs_, tables, fakes, Frame) /\ StackMade(Packs_, tables, fakes, Passed)
           /\ \E S : Passed \in Seq(S)
  <1>1. pc = "lower" /\ frames # <<>> /\ Frame.item <= Len(KeptSteps(Body))
    BY DEF More
  <1>2. suite \in Suites /\ Expanding(Packs_, chains, frames)
    BY <1>1 DEF UsesInv
  <1>3. FrameFits(Packs_, chains, Frame, Len(frames))
    BY <1>1, <1>2, PassedExpands
  <1>4. Frame.macro \in Loaded(Packs_) /\ Frame.item \in Nat \ {0}
    BY <1>3 DEF FrameFits
  <1>5. AuthoredMacro(Body) /\ Listed(Body.steps)
    BY <1>2, <1>4, LoadedAuthored DEF Body
  <1>6. PICK K : K = KeptSteps(Body)
    OBVIOUS
  <1>7. Len(K) \in Nat /\ DOMAIN K = 1..Len(K)
    BY <1>5, <1>6, KeptListed, Zenon
  <1>8. Frame.item \in DOMAIN K
    BY <1>1, <1>4, <1>6, <1>7
  <1>9. AuthoredStep(Item) /\ OneBody(Item)
    BY <1>5, <1>6, <1>8, KeptAuthored, Zenon DEF Item
  <1>10. fakes \in Nat /\ StackMade(Packs_, tables, fakes, frames)
    BY DEF IdInv
  <1>11. /\ FrameMade(Packs_, tables, fakes, Frame) /\ StackMade(Packs_, tables, fakes, Passed)
         /\ \E S : Passed \in Seq(S)
    BY <1>1, <1>2, <1>10, PassedMade
  <1>12. Fitting(Frame.args, fakes)
    BY <1>11, Zenon DEF FrameMade
  <1>13. Fitting(Body.defaults, fakes)
    BY <1>5, <1>10, AuthoredFitting DEF AuthoredMacro
  <1> QED
    BY <1>1, <1>2, <1>4, <1>6, <1>8, <1>9, <1>10, <1>11, <1>12, <1>13, Zenon

LEMMA UseMakes == ASSUME UsesInv, IdInv, ExpandUse PROVE IdInv'
  <1>1. PICK given : given = ResolveWith(Item.with)
    OBVIOUS
  <1>2. /\ More /\ Item.use[1][2] \in Loaded(Packs_)
        /\ UNCHANGED <<suite, scenarios, bound, lowered>> /\ out' = out
    BY DEF ExpandUse, UseFound
  <1>3. IF Len(frames) <= MaxExpansion
        THEN Invoke(Item.use[1][2], given.vals, Passed, given.n, given.faults)
        ELSE fakes' = given.n /\ frames' = Passed /\ UNCHANGED tables
    BY <1>1 DEF ExpandUse
  <1>4. /\ suite \in Suites /\ pc = "lower" /\ AuthoredStep(Item)
        /\ fakes \in Nat /\ Fitting(Frame.args, fakes) /\ Fitting(Body.defaults, fakes)
        /\ StackMade(Packs_, tables, fakes, Passed)
    BY <1>2, ItemTells
  <1>5. PICK S : Passed \in Seq(S)
    BY <1>2, ItemTells
  <1>6. StepsMade(Packs_, tables, fakes, out)
    BY DEF IdInv
  <1>7. given.n \in Nat /\ fakes <= given.n /\ Fitting(given.vals, given.n)
    <2>1. AuthoredTable(Item.with)
      BY <1>4, Zenon DEF AuthoredStep
    <2>2. /\ ResolveWith(Item.with).n \in Nat /\ fakes <= ResolveWith(Item.with).n
          /\ Fitting(ResolveWith(Item.with).vals, ResolveWith(Item.with).n)
      BY <1>4, <2>1, WithFits
    <2> QED
      BY <1>1, <2>2, Zenon
  <1>8. Later(tables, fakes, tables', fakes') /\ StackMade(Packs_, tables', fakes', frames')
    <2>1. CASE Len(frames) <= MaxExpansion
      <3>1. Invoke(Item.use[1][2], given.vals, Passed, given.n, given.faults)
        BY <1>3, <2>1
      <3>2. PICK name, vals, raised, n : /\ name = Item.use[1][2] /\ vals = given.vals
                                         /\ raised = given.faults /\ n = given.n
        OBVIOUS
      <3>3. /\ Invoke(name, vals, Passed, n, raised) /\ name \in Loaded(Packs_)
            /\ n \in Nat /\ fakes <= n /\ Fitting(vals, n)
        BY <1>2, <1>7, <3>1, <3>2, Zenon
      <3> QED
        BY <1>4, <1>5, <3>3, InvokeMakes
    <2>2. CASE ~ (Len(frames) <= MaxExpansion)
      <3>1. fakes' = given.n /\ frames' = Passed /\ tables' = tables
        BY <1>3, <2>2
      <3>2. Later(tables, fakes, tables', fakes')
        BY <1>4, <1>7, <3>1 DEF Later, Within
      <3>3. StackMade(Packs_, tables', fakes', Passed)
        BY <1>4, <3>2, StackLater
      <3> QED
        BY <3>1, <3>2, <3>3, Zenon
    <2> QED
      BY <2>1, <2>2
  <1>9. StepsMade(Packs_, tables', fakes', out')
    BY <1>2, <1>6, <1>8, StepsLater, Zenon
  <1>10. fakes' \in Nat
    BY <1>8 DEF Later
  <1> QED
    BY <1>2, <1>4, <1>8, <1>9, <1>10, IdLowers

\* The values of the step's own come after all that is there; its label shows
\* none that is still to come.
LEMMA FinishMakes ==
    ASSUME UsesInv, IdInv, More, NEW n \in Nat, fakes <= n,
           NEW text, NEW vals, NEW ok, NEW raised, Finish(text, vals, fakes, n, ok, raised),
           Kind(Item) = "ref" =>
             Bears(Packs_, tables, Frame.macro, vals, StepOnly(Packs_, Frame.macro, Frame.item))
    PROVE  IdInv'
  <1>1. PICK when, label : /\ when = (IF Given(Item.when) THEN Item.when[1] ELSE <<>>)
                           /\ label = (IF Given(Item.label) THEN Item.label[1] ELSE <<>>)
    OBVIOUS
  <1>2. PICK g, l : g = In(when, n) /\ l = In(label, fakes)
    OBVIOUS
  <1>3. PICK t : t = [author |-> at, form |-> Kind(Item), macro |-> Frame.macro,
                      item |-> Frame.item,
                      text |-> text \o g.text, vals |-> vals,
                      own |-> (fakes + 1)..g.n, label |-> l.text]
    OBVIOUS
  <1>4. /\ fakes' = IF ~ ok THEN n
                    ELSE IF g.ok /\ Given(Item.label) THEN HighWater(g.n, l.n) ELSE g.n
        /\ out' = IF (ok /\ g.ok) /\ l.ok THEN Append(out, t) ELSE out
        /\ frames' = Passed /\ tables' = tables
        /\ UNCHANGED <<suite, scenarios, bound, lowered>>
    BY <1>1, <1>2, <1>3, Zenon DEF Finish
  <1>5. /\ pc = "lower" /\ AuthoredStep(Item) /\ OneBody(Item)
        /\ fakes \in Nat /\ Fitting(Frame.args, fakes) /\ Fitting(Body.defaults, fakes)
        /\ StackMade(Packs_, tables, fakes, Passed)
    BY ItemTells
  <1>6. when \in Text /\ label \in Text
    BY <1>1, <1>5, BodyTexts, Nothing, Zenon
  <1>7. Ahead(g, n)
    <2>1. Fitting(Frame.args, n) /\ Fitting(Body.defaults, n) /\ when \in Seq(UpTo(n))
      BY <1>5, <1>6, UpToGrows
    <2> QED
      BY <1>2, <2>1, ResolveFits DEF In
  <1>8. Ahead(l, fakes) /\ (~ Given(Item.label) => l.n = fakes)
    <2>1. label \in Seq(UpTo(fakes))
      BY <1>5, <1>6, AuthoredFitting
    <2>2. ~ Given(Item.label) => label = <<>>
      BY <1>1, Zenon
    <2>3. /\ Ahead(Resolve(label, Frame.args, Body.defaults, fakes), fakes)
          /\ label = <<>> => Resolve(label, Frame.args, Body.defaults, fakes).n = fakes
      BY <1>5, <2>1, ResolveFits
    <2> QED
      BY <1>2, <2>2, <2>3, Zenon DEF In
  <1>9. g.n \in Nat /\ n <= g.n /\ l.n \in Nat /\ fakes <= l.n
    BY <1>7, <1>8, Zenon DEF Ahead
  <1>10. fakes' \in Nat /\ fakes <= fakes'
    <2>1. fakes' \in {n, g.n, l.n}
      BY <1>4 DEF HighWater
    <2> QED
      BY <1>5, <1>9, <2>1
  <1>11. Later(tables, fakes, tables', fakes')
    BY <1>4, <1>5, <1>10 DEF Later, Within
  <1>12. StackMade(Packs_, tables', fakes', frames')
    <2>1. StackMade(Packs_, tables', fakes', Passed)
      BY <1>5, <1>11, StackLater
    <2> QED
      BY <1>4, <2>1, Zenon
  <1>13. StepsMade(Packs_, tables, fakes, out)
    BY DEF IdInv
  <1>14. CASE ok /\ g.ok /\ l.ok
    <2>1. /\ t.own = (fakes + 1)..g.n /\ t.label = l.text /\ t.form = Kind(Item) /\ t.vals = vals
          /\ t.macro = Frame.macro /\ t.item = Frame.item
      BY <1>3
    <2>2. g.n <= fakes' /\ l.n <= fakes'
      <3>1. CASE Given(Item.label)
        <4>1. fakes' = HighWater(g.n, l.n)
          BY <1>4, <1>14, <3>1, Zenon
        <4> QED
          BY <1>9, <4>1 DEF HighWater
      <3>2. CASE ~ Given(Item.label)
        <4>1. fakes' = g.n /\ l.n = fakes
          BY <1>4, <1>8, <1>14, <3>2, Zenon
        <4> QED
          BY <1>5, <1>9, <4>1
      <3> QED
        BY <3>1, <3>2
    <2>3. t.own \cap 1..fakes = {} /\ t.own \subseteq 1..fakes'
      BY <1>5, <1>9, <1>10, <2>1, <2>2
    <2>4. Occurrences(t.label) \subseteq 1..fakes'
      <3>1. PICK x, k : x = l.text /\ k = l.n
        OBVIOUS
      <3>2. k \in Nat /\ k <= fakes' /\ x \in Seq(UpTo(k))
        BY <1>8, <1>9, <2>2, <3>1, Zenon DEF Ahead
      <3>3. Occurrences(x) \subseteq 1..k
        BY <3>2, OccurrencesFit
      <3>4. 1..k \subseteq 1..fakes'
        BY <1>10, <3>2
      <3>5. Occurrences(x) \subseteq 1..fakes'
        BY <3>3, <3>4, Zenon
      <3> QED
        BY <2>1, <3>1, <3>5, Zenon
    <2>5. t.form = "ref" => Bears(Packs_, tables, t.macro, t.vals, StepOnly(Packs_, t.macro, t.item))
      BY <2>1, Zenon
    <2>6. StepMade(Packs_, tables, fakes', t)
      BY <2>3, <2>4, <2>5, Zenon DEF StepMade
    <2>7. StepsMade(Packs_, tables, fakes', Append(out, t))
      BY <1>5, <1>10, <1>13, <2>3, <2>5, <2>6, StepAppends
    <2>8. out' = Append(out, t) /\ tables' = tables
      BY <1>4, <1>14, Zenon
    <2>9. StepsMade(Packs_, tables', fakes', out')
      BY <2>7, <2>8, Zenon
    <2> QED
      BY <1>4, <1>5, <1>10, <1>12, <2>9, IdLowers
  <1>15. CASE ~ (ok /\ g.ok /\ l.ok)
    <2>1. out' = out
      BY <1>4, <1>15, Zenon
    <2>2. StepsMade(Packs_, tables', fakes', out')
      BY <1>11, <1>13, <2>1, StepsLater, Zenon
    <2> QED
      BY <1>4, <1>5, <1>10, <1>12, <2>2, IdLowers
  <1> QED
    BY <1>14, <1>15

LEMMA PayloadMakes == ASSUME UsesInv, IdInv, ExpandPayload PROVE IdInv'
  <1>1. More /\ Kind(Item) = "payload"
    BY DEF ExpandPayload
  <1>2. PICK r : r = In(Item.payloads[1], fakes)
    OBVIOUS
  <1>3. Finish(r.text, <<>>, fakes, r.n, r.ok, {})
    BY <1>2 DEF ExpandPayload
  <1>4. /\ AuthoredStep(Item) /\ OneBody(Item)
        /\ fakes \in Nat /\ Fitting(Frame.args, fakes) /\ Fitting(Body.defaults, fakes)
    BY <1>1, ItemTells
  <1>5. Item.payloads[1] \in Seq(UpTo(fakes))
    <2>1. Item.payloads[1] \in Text
      BY <1>1, <1>4, BodyTexts
    <2> QED
      BY <1>4, <2>1, AuthoredFitting
  <1>6. Ahead(r, fakes)
    BY <1>2, <1>4, <1>5, ResolveFits DEF In
  <1>7. PICK n, text, ok : n = r.n /\ text = r.text /\ ok = r.ok
    OBVIOUS
  <1>8. n \in Nat /\ fakes <= n
    BY <1>6, <1>7, Zenon DEF Ahead
  <1>9. Finish(text, <<>>, fakes, n, ok, {})
    BY <1>3, <1>7, Zenon
  <1>10. Kind(Item) # "ref"
    BY <1>1
  <1> QED
    BY <1>1, <1>8, <1>9, <1>10, FinishMakes

LEMMA RefMakes == ASSUME UsesInv, IdInv, ExpandRef PROVE IdInv'
  <1>1. More /\ Kind(Item) = "ref"
    BY DEF ExpandRef
  <1>2. PICK step : step = ResolveTable(Item.bind, Frame.args, Body.defaults, fakes)
    OBVIOUS
  <1>3. Finish(<<>>, Over(Frame.scoped, step.vals), fakes, step.n, TRUE, step.faults)
    BY <1>2 DEF ExpandRef
  <1>4. /\ AuthoredStep(Item) /\ Frame.item \in DOMAIN KeptSteps(Body)
        /\ fakes \in Nat /\ Fitting(Frame.args, fakes) /\ Fitting(Body.defaults, fakes)
        /\ FrameMade(Packs_, tables, fakes, Frame)
    BY <1>1, ItemTells
  <1>5. AuthoredTable(Item.bind)
    BY <1>4, Zenon DEF AuthoredStep
  <1>6. step.n \in Nat /\ fakes <= step.n /\ DOMAIN step.vals \subseteq DOMAIN Item.bind
    BY <1>2, <1>4, <1>5, TableFits
  <1>7. HasRef(Body)
    BY <1>1, <1>4 DEF HasRef, RefSteps, Item
  <1>8. Bears(Packs_, tables, Frame.macro, Frame.scoped, PackOnly(Packs_, Frame.macro))
    BY <1>4, <1>7, Zenon DEF FrameMade, Body
  <1>9. PICK n, vals, raised : n = step.n /\ vals = Over(Frame.scoped, step.vals) /\ raised = step.faults
    OBVIOUS
  <1>10. Bears(Packs_, tables, Frame.macro, vals, StepOnly(Packs_, Frame.macro, Frame.item))
    <2>1. PICK p, V, W : /\ p = PackOf(Packs_, Frame.macro) /\ V = PackOnly(Packs_, Frame.macro)
                         /\ W = StepOnly(Packs_, Frame.macro, Frame.item)
      OBVIOUS
    <2>2. W \subseteq V /\ DOMAIN Item.bind \cap W = {}
      BY <2>1 DEF StepOnly, Item, Body
    <2>3. DOMAIN step.vals \cap W = {}
      BY <1>6, <2>2
    <2>4. p \in DOMAIN tables /\ Agree(Frame.scoped, tables[p], V)
      BY <1>8, <2>1, Zenon DEF Bears
    <2>5. Agree(Over(Frame.scoped, step.vals), tables[p], W)
      BY <2>2, <2>3, <2>4, OverAgrees
    <2> QED
      BY <1>9, <2>1, <2>4, <2>5, Zenon DEF Bears
  <1>11. Finish(<<>>, vals, fakes, n, TRUE, raised) /\ n \in Nat /\ fakes <= n
    BY <1>3, <1>6, <1>9, Zenon
  <1> QED
    BY <1>1, <1>10, <1>11, FinishMakes

LEMMA ExpectMakes == ASSUME UsesInv, IdInv, ExpandExpect PROVE IdInv'
  <1>1. /\ pc = "lower" /\ frames # <<>> /\ frames' = Passed /\ fakes' = fakes /\ tables' = tables
        /\ UNCHANGED <<suite, scenarios, bound, lowered>>
    BY DEF ExpandExpect
  <1>2. Expanding(Packs_, chains, frames)
    BY <1>1 DEF UsesInv
  <1>3. /\ fakes \in Nat /\ StackMade(Packs_, tables, fakes, frames)
        /\ StepsMade(Packs_, tables, fakes, out)
    BY DEF IdInv
  <1>4. StackMade(Packs_, tables, fakes, Passed)
    BY <1>1, <1>2, <1>3, PassedMade
  <1>5. PICK t : t = [author |-> at, form |-> "then", macro |-> Frame.macro, item |-> 1,
                      text |-> <<>>, vals |-> <<>>, own |-> {}, label |-> <<>>]
    OBVIOUS
  <1>6. out' = Append(out, t) \/ out' = out
    BY <1>5, Zenon DEF ExpandExpect
  <1>7. StepsMade(Packs_, tables, fakes, Append(out, t))
    <2>1. t.own = {} /\ t.label = <<>> /\ t.form # "ref"
      BY <1>5
    <2>2. Occurrences(<<>>) = {}
      BY DEF Occurrences
    <2>3. StepMade(Packs_, tables, fakes, t)
      BY <2>1, <2>2 DEF StepMade
    <2>4. t.own \cap 1..fakes = {} /\ fakes <= fakes
      BY <1>3, <2>1
    <2> QED
      BY <1>3, <2>1, <2>3, <2>4, StepAppends
  <1>8. StepsMade(Packs_, tables', fakes', out')
    BY <1>1, <1>3, <1>6, <1>7, Zenon
  <1>9. fakes' \in Nat /\ StackMade(Packs_, tables', fakes', frames')
    BY <1>1, <1>3, <1>4, Zenon
  <1> QED
    BY <1>1, <1>8, <1>9, IdLowers

LEMMA LeaveMakes == ASSUME UsesInv, IdInv, LeaveMacro PROVE IdInv'
  <1>1. /\ pc = "lower" /\ frames # <<>> /\ frames' = Pop(frames) /\ fakes' = fakes /\ tables' = tables
        /\ out' = out /\ UNCHANGED <<suite, scenarios, bound, lowered>>
    BY DEF LeaveMacro
  <1>2. PICK S : frames \in Seq(S)
    BY <1>1 DEF UsesInv, Expanding
  <1>3. /\ Len(frames) \in Nat \ {0} /\ Len(Pop(frames)) = Len(frames) - 1
        /\ \A j \in 1..(Len(frames) - 1) : Pop(frames)[j] = frames[j]
    BY <1>1, <1>2, TopOf
  <1>4. /\ fakes \in Nat /\ StackMade(Packs_, tables, fakes, frames)
        /\ StepsMade(Packs_, tables, fakes, out)
    BY DEF IdInv
  <1>5. ASSUME NEW j \in 1..Len(Pop(frames)) PROVE FrameMade(Packs_, tables, fakes, Pop(frames)[j])
    <2>1. j \in 1..(Len(frames) - 1) /\ j \in 1..Len(frames)
      BY <1>3
    <2>2. FrameMade(Packs_, tables, fakes, frames[j])
      BY <1>4, <2>1, Zenon DEF StackMade
    <2> QED
      BY <1>3, <2>1, <2>2, Zenon
  <1>6. StackMade(Packs_, tables, fakes, Pop(frames))
    BY <1>5, Zenon DEF StackMade
  <1>7. /\ fakes' \in Nat /\ StackMade(Packs_, tables', fakes', frames')
        /\ StepsMade(Packs_, tables', fakes', out')
    BY <1>1, <1>4, <1>6, Zenon
  <1> QED
    BY <1>1, <1>7, IdLowers

LEMMA EndMakes == ASSUME UsesInv, IdInv, EndScenario PROVE IdInv'
  <1>1. /\ pc = "lower" /\ frames = <<>> /\ lowered' = Append(lowered, out) /\ out' = <<>> /\ fakes' = 0
        /\ pc' = pc /\ frames' = <<>> /\ UNCHANGED <<suite, scenarios, bound>>
    BY DEF EndScenario
  <1>2. Packs_' = Packs_
    BY <1>1 DEF Packs_
  <1>3. Sequence(lowered) /\ \A i \in DOMAIN lowered : AllApart(Packs_, lowered[i])
    BY Zenon DEF IdInv, PastApart
  <1>4. AllApart(Packs_, out)
    BY Zenon DEF IdInv, StepsMade
  <1>5. PICK r : r = Append(lowered, out)
    OBVIOUS
  <1>6. Longer(r, lowered, out)
    BY <1>3, <1>5, AppendHas
  <1>7. \A i \in DOMAIN r : (i \in DOMAIN lowered /\ r[i] = lowered[i]) \/ r[i] = out
    BY <1>6 DEF Longer
  <1>8. PastApart(Packs_, r)
    BY <1>3, <1>4, <1>6, <1>7, Zenon DEF PastApart, Longer
  <1>9. PastApart(Packs_, lowered)'
    BY <1>1, <1>2, <1>5, <1>8
  <1>10. /\ fakes' \in Nat /\ StackMade(Packs_, tables, fakes, frames)'
         /\ StepsMade(Packs_, tables, fakes, out)'
    BY <1>1, Nothing
  <1>11. SceneFits(scenarios)' /\ (pc = "lower" => ArgsAuthored(bound))'
    BY <1>1 DEF IdInv
  <1> QED
    BY <1>9, <1>10, <1>11 DEF IdInv

LEMMA ParseMakes == ASSUME UsesInv, IdInv, Parse PROVE IdInv'
  <1>1. /\ UNCHANGED <<suite, lvars>> /\ scenarios' = Parsed(suite.feature).scenarios
        /\ pc' \in {"bind", "refused"}
    BY DEF Parse
  <1>2. AuthoredFeature(suite.feature)
    BY SuiteAuthored DEF UsesInv
  <1>3. SceneFits(scenarios')
    BY <1>1, <1>2, ParsedFits
  <1> QED
    BY <1>1, <1>3, IdStands

LEMMA BindMakes == ASSUME UsesInv, IdInv, Bind PROVE IdInv'
  <1>1. /\ UNCHANGED <<suite, lvars>> /\ scenarios' = scenarios
        /\ pc' = IF faults' = {} THEN "lower" ELSE "refused"
    BY DEF Bind
  <1>2. SceneFits(scenarios) /\ SceneFits(scenarios')
    BY <1>1 DEF IdInv
  <1>3. suite \in Suites
    BY DEF UsesInv
  <1>4. ASSUME pc' = "lower" PROVE ArgsAuthored(bound')
    <2>0. faults' = {}
      BY <1>1, <1>4
    <2>1. \A i \in DOMAIN scenarios : \A j \in DOMAIN scenarios[i].steps :
            BindFaults(Packs_, scenarios[i].steps[j]) = {}
      <3>1. UNION {UNION {BindFaults(Packs_, scenarios[i].steps[j]) : j \in DOMAIN scenarios[i].steps}
                     : i \in DOMAIN scenarios} = {}
        BY <2>0, Zenon DEF Bind
      <3>2. ASSUME NEW i \in DOMAIN scenarios, NEW j \in DOMAIN scenarios[i].steps,
                   NEW c \in BindFaults(Packs_, scenarios[i].steps[j])
            PROVE  FALSE
        <4>1. c \in UNION {BindFaults(Packs_, scenarios[i].steps[k]) : k \in DOMAIN scenarios[i].steps}
          BY Zenon
        <4>2. c \in UNION {UNION {BindFaults(Packs_, scenarios[h].steps[k]) : k \in DOMAIN scenarios[h].steps}
                             : h \in DOMAIN scenarios}
          BY <4>1, Zenon
        <4> QED
          BY <3>1, <4>2, Zenon
      <3>3. \A S : (\A c \in S : FALSE) => S = {}
        OBVIOUS
      <3> QED
        BY <3>2, <3>3, Zenon
    <2>2. bound' = [i \in DOMAIN scenarios |->
                      [j \in DOMAIN scenarios[i].steps |-> Bound(Packs_, scenarios[i].steps[j])]]
      BY <2>0 DEF Bind
    <2>3. ASSUME NEW i \in DOMAIN scenarios, NEW j \in DOMAIN scenarios[i].steps
          PROVE  TextsOnly(Bound(Packs_, scenarios[i].steps[j]).args)
      <3>1. SentenceFits(scenarios[i].steps[j])
        BY <1>2, Zenon DEF SceneFits, AuthoredSentences, SentenceFits
      <3> QED
        BY <1>3, <2>1, <3>1, BoundTexts
    <2> QED
      BY <2>2, <2>3 DEF ArgsAuthored
  <1> QED
    BY <1>1, <1>2, <1>4, IdStands

LEMMA OtherMakes ==
    ASSUME UsesInv, IdInv,
           \/ WalkInto \/ WalkTooDeep \/ WalkFile \/ WalkUp \/ WalkDone \/ LoadPacks
           \/ SearchUses \/ Loading \/ Finished \/ Rest \/ UNCHANGED fvars
    PROVE  IdInv'
  <1>1. UNCHANGED <<suite, lvars>> /\ scenarios' = scenarios /\ bound' = bound
    BY DEF WalkInto, WalkTooDeep, WalkFile, WalkUp, WalkDone, LoadPacks, SearchUses, Loading,
           Finished, Rest, fvars
  <1>2. pc' = "lower" => pc = "lower"
    BY DEF WalkInto, WalkTooDeep, WalkFile, WalkUp, WalkDone, LoadPacks, SearchUses, Loading,
           Finished, Rest, fvars
  <1>3. SceneFits(scenarios') /\ (pc' = "lower" => ArgsAuthored(bound'))
    BY <1>1, <1>2 DEF IdInv
  <1> QED
    BY <1>1, <1>3, IdStands

LEMMA IdentitiesStay == ASSUME UsesInv, IdInv, [Next]_fvars PROVE IdInv'
  <1>1. CASE \/ WalkInto \/ WalkTooDeep \/ WalkFile \/ WalkUp \/ WalkDone \/ LoadPacks
             \/ SearchUses \/ Loading \/ Finished \/ Rest \/ UNCHANGED fvars
    BY <1>1, OtherMakes
  <1>2. CASE Parse \/ Bind \/ BeginStep \/ ExpandUse \/ ExpandPayload \/ ExpandRef \/ ExpandExpect
    BY <1>2, ParseMakes, BindMakes, BeginMakes, UseMakes, PayloadMakes, RefMakes, ExpectMakes
  <1>3. CASE LeaveMacro \/ EndScenario
    BY <1>3, LeaveMakes, EndMakes
  <1> QED
    BY <1>1, <1>2, <1>3 DEF Next

LEMMA IdInvKept == ASSUME IdInv PROVE IdentitiesKept
  <1>1. NamesUnique
    BY DEF IdInv, SceneFits, NamesUnique
  <1>2. ASSUME NEW steps, AllApart(Packs_, steps) PROVE KeptApart(steps)
    <2>1. \A s : PackWide(s) = StepOnly(Packs_, s.macro, s.item)
      BY DEF PackWide, Nearer, StepOnly, PackOnly
    <2>2. ASSUME NEW k \in DOMAIN steps, NEW l \in DOMAIN steps, k < l
          PROVE  /\ steps[k].own \cap steps[l].own = {}
                 /\ Occurrences(steps[k].label) \cap steps[l].own = {}
                 /\ steps[k].form = "ref" /\ steps[l].form = "ref"
                       /\ PackOf(Packs_, steps[k].macro) = PackOf(Packs_, steps[l].macro) =>
                         \A v \in PackWide(steps[k]) \cap PackWide(steps[l]) :
                            /\ v \in DOMAIN steps[k].vals <=> v \in DOMAIN steps[l].vals
                            /\ v \in DOMAIN steps[k].vals => steps[k].vals[v] = steps[l].vals[v]
      <3>1. PICK s, t : s = steps[k] /\ t = steps[l]
        OBVIOUS
      <3>2. Apart(Packs_, s, t)
        BY <1>2, <2>2, <3>1, Zenon DEF AllApart
      <3>3. s.form = "ref" /\ t.form = "ref" /\ PackOf(Packs_, s.macro) = PackOf(Packs_, t.macro) =>
              \A v \in PackWide(s) \cap PackWide(t) :
                 /\ v \in DOMAIN s.vals <=> v \in DOMAIN t.vals
                 /\ v \in DOMAIN s.vals => s.vals[v] = t.vals[v]
        <4> SUFFICES ASSUME s.form = "ref", t.form = "ref",
                            PackOf(Packs_, s.macro) = PackOf(Packs_, t.macro)
                     PROVE  \A v \in PackWide(s) \cap PackWide(t) :
                               /\ v \in DOMAIN s.vals <=> v \in DOMAIN t.vals
                               /\ v \in DOMAIN s.vals => s.vals[v] = t.vals[v]
          OBVIOUS
        <4>1. PICK V, W : V = PackWide(s) /\ W = PackWide(t)
          OBVIOUS
        <4>2. V = StepOnly(Packs_, s.macro, s.item) /\ W = StepOnly(Packs_, t.macro, t.item)
          BY <2>1, <4>1, Zenon
        <4>3. Agree(s.vals, t.vals, V \cap W)
          BY <3>2, <4>2, Zenon DEF Apart
        <4>4. \A v \in V \cap W :
                 /\ v \in DOMAIN s.vals <=> v \in DOMAIN t.vals
                 /\ v \in DOMAIN s.vals => s.vals[v] = t.vals[v]
          BY <4>3, Zenon DEF Agree
        <4> TAKE v \in PackWide(s) \cap PackWide(t)
        <4>5. v \in V \cap W
          BY <4>1, Zenon
        <4> QED
          BY <4>4, <4>5, Zenon
      <3>4. s.own \cap t.own = {} /\ Occurrences(s.label) \cap t.own = {}
        BY <3>2, Zenon DEF Apart
      <3> QED
        BY <3>1, <3>3, <3>4, Zenon
    <2> QED
      BY <2>2, Zenon DEF KeptApart
  <1>3. AllApart(Packs_, out)
    BY Zenon DEF IdInv, StepsMade
  <1>4. \A steps \in ToSet(lowered) : AllApart(Packs_, steps)
    BY DEF IdInv, PastApart, ToSet
  <1>5. \A steps \in {out} \cup ToSet(lowered) : KeptApart(steps)
    BY <1>2, <1>3, <1>4
  <1> QED
    BY <1>1, <1>5 DEF IdentitiesKept

(***************************************************************************)
(* What is told apart by name stays apart, for every feature, pack and      *)
(* corpus that can be authored: scenarios have names of their own           *)
(* (dedup_names), no generated value is used by two steps or was shown by   *)
(* the label of an earlier one (finish_step, resolve), and what a pack      *)
(* binds has one value in the whole scenario (expand_macro).                *)
(***************************************************************************)
THEOREM IdentitiesKeptHolds == Spec => []IdentitiesKept
  <1>1. Init => UsesInv /\ IdInv
    BY UsesStart, IdStart
  <1>2. UsesInv /\ IdInv /\ [Next]_fvars => UsesInv' /\ IdInv'
    BY UsesKept, IdentitiesStay
  <1>3. IdInv => IdentitiesKept
    BY IdInvKept
  <1> QED
    BY <1>1, <1>2, <1>3, PTL DEF Spec

=============================================================================
