----------------------------- MODULE ShellProofs -----------------------------
(***************************************************************************)
(* A shell's printf() and its ping command: what holds of ShellOutput for  *)
(* any texts, buffers and windows, and of PingSession for any times with   *)
(* Cycle < Grace.  The two have no variable in common.                     *)
(*                                                                         *)
(* The argument on USB: as long as the host was there, what was taken is   *)
(* what the terminal is to get for the characters before the index, with   *)
(* the return of the one at it when that is written (Progress).  The       *)
(* characters the host missed leave gaps, and the order stays (Order).     *)
(* Over the network what was taken is as long as it should be; the pointer *)
(* is right as long as no part was taken but a half, and once it is wrong  *)
(* the next characters are from elsewhere (Written).                       *)
(*                                                                         *)
(* The heart of ping's invariant is Waited: since the stop, the turn that  *)
(* esp_ping was in has lasted at least as long as the shell has waited.  A *)
(* turn is shorter than the grace period, so when that is over the turn    *)
(* was the last and the session is done.                                   *)
(***************************************************************************)
EXTENDS ShellOutput, PingSession, SequenceTheorems, FiniteSetTheorems,
        WellFoundedInduction, TLAPS

-----------------------------------------------------------------------------
(* ShellOutput                                                             *)

UsbSteps == {"check_cr", "cr", "check", "char"}
Over == pc \in {"idle", "echo"}

\* The buffer holds the text as far as that was formatted, then the NUL, and no
\* return.
Formed ==
    /\ Len(pbuf) = Len(text)
    /\ \A k \in 1..Len(pbuf) : /\ pbuf[k] # "cr"
                               /\ k <= Limit => pbuf[k] = text[k]
                               /\ k = Limit + 1 => pbuf[k] = "nul"

\* Which loop a step belongs to, and what is left of the text in it.
Where ==
    /\ pc \in UsbSteps => ctx = "usb" /\ i <= Len(pbuf)
    /\ pc \in {"check_cr", "cr"} => pbuf[i] = "nl"
    /\ pc = "write" => ctx = "tcp" /\ len > 0 /\ ~cut
    /\ Over /\ ~cut => IF ctx = "usb" THEN i = Len(pbuf) + 1 ELSE len = 0

\* What the terminal is to get for one character, and for the first n.
Pieces == [k \in 1..Len(pbuf) |-> IF pbuf[k] = "nl" THEN <<"cr", "nl">>
                                  ELSE <<pbuf[k]>>]
Flat(g, n) == FlattenSeq([k \in 1..n |-> g[k]])

\* The return before a new line has had its turn.
Returned == pc \in {"check", "char"} /\ pbuf[i] = "nl"

Progress ==
    ctx = "usb" /\ ~cut =>
        /\ Sent = Flat(Pieces, i - 1) \o (IF Returned THEN <<"cr">> ELSE <<>>)
        /\ Count(Sent) = i - 1

Order ==
    ctx = "usb" =>
        /\ InSequence
        /\ ~skewed
        /\ pc \in UsbSteps =>
              \A j \in 1..Len(sent) :
                  \/ sent[j].at < i
                  \/ sent[j].at = i /\ sent[j].char = "cr" /\ Returned

\* Of what write() has taken.
Written ==
    ctx = "tcp" =>
        /\ Len(sent) + len <= Len(text)
        /\ pc = "write" \/ ~cut => Len(sent) + len = Len(text)
        /\ \A k \in 1..Len(sent) : sent[k].char # "cr"
        /\ ~skewed =>
              /\ pc = "write" => i = Len(sent) + 1
              /\ \A k \in 1..Len(sent) : sent[k].at = k /\ sent[k].char = pbuf[k]
        /\ skewed => \/ cut
                     \/ pc = "write" /\ i # Len(sent) + 1
                     \/ ~InPlace

Entries == [at : Nat, char : Characters]

\* The types of what the surroundings change,
AroundType ==
    /\ attached \in BOOLEAN /\ fifo \in 0..FifoSize /\ others \in 0..MaxOthers
    /\ peer \in {"here", "reset"} /\ unread \in 0..Window

\* and of the rest.
CallType ==
    /\ ctx \in {"usb", "tcp"}
    /\ pc \in {"idle", "check_cr", "cr", "check", "char", "write", "echo"}
    /\ pbuf \in Seq(Characters)
    /\ i \in Nat \ {0}
    /\ ctx = "usb" => i <= Len(pbuf) + 1
    /\ text \in Texts
    /\ len \in 0..Len(text) /\ ret \in -1..Len(text)
    /\ sent \in Seq(Entries)
    /\ cut \in BOOLEAN /\ skewed \in BOOLEAN

\* What the loops have done so far, and what is around them.
Done == CallType /\ Formed /\ Where /\ Progress /\ Order /\ Written
IInv == AroundType /\ Done
-----------------------------------------------------------------------------
(* Flattening, by the least counterexample.                                *)

\* Every set of natural numbers with a member has a least one.
LEMMA Least ==
    ASSUME NEW T, T \subseteq Nat, T # {}
    PROVE  \E m \in T : \A n \in T : m <= n
<1> DEFINE Less == {p \in Nat \X Nat : p[1] < p[2]}
<1>1. IsWellFoundedOn(Less, Nat)
  BY NatLessThanWellFounded DEF OpToRel
<1>2. PICK m \in T : \A n \in T : <<n, m>> \notin Less
  <2> HIDE DEF Less
  <2> QED
    BY <1>1, WFMin
<1>3. \A n \in T : m <= n
  <2> SUFFICES ASSUME NEW n \in T PROVE m <= n
    OBVIOUS
  <2>1. n \in Nat /\ m \in Nat /\ <<n, m>> \in Nat \X Nat
    OBVIOUS
  <2>2. <<n, m>>[1] = n /\ <<n, m>>[2] = m
    OBVIOUS
  <2>3. ~(n < m)
    BY <1>2, <2>1, <2>2
  <2> QED
    BY <2>1, <2>3
<1> QED
  BY <1>3

\* f is what flattening the first n sequences of g computes on the way.
Flattens(f, g, n) ==
    f = [k \in 1..n |-> IF k = 1 THEN g[k] ELSE f[k - 1] \o g[k]]

\* There is such a function,
LEMMA FlattensExists ==
    ASSUME NEW g PROVE \A n \in Nat : \E f : Flattens(f, g, n)
<1> DEFINE T == {n \in Nat : ~\E f : Flattens(f, g, n)}
<1> SUFFICES ASSUME T # {} PROVE FALSE
  OBVIOUS
<1>1. PICK m \in T : \A n \in T : m <= n
  <2>1. T \subseteq Nat
    OBVIOUS
  <2> HIDE DEF T
  <2> QED
    BY <2>1, Least
<1>2. m # 0
  <2>1. Flattens([k \in 1..0 |-> g[k]], g, 0)
    BY DEF Flattens
  <2> QED
    BY <2>1
<1>3. PICK p \in Nat : m = p + 1 /\ p \notin T
  <2>1. m - 1 \in Nat /\ m = (m - 1) + 1 /\ ~(m <= m - 1)
    BY <1>2
  <2> QED
    BY <1>1, <2>1
<1>4. PICK h : Flattens(h, g, p)
  BY <1>3
<1> DEFINE f == [k \in 1..m |->
                   IF k = m THEN IF k = 1 THEN g[k] ELSE h[k - 1] \o g[k]
                            ELSE h[k]]
<1>5. ASSUME NEW k \in 1..m
      PROVE  f[k] = IF k = 1 THEN g[k] ELSE f[k - 1] \o g[k]
  <2>1. k # 1 => k - 1 \in 1..m /\ k - 1 # m /\ f[k - 1] = h[k - 1]
    BY <1>3
  <2>2. CASE k = m
    BY <2>1, <2>2
  <2>3. CASE k # m
    <3>1. k \in 1..p
      BY <1>3, <2>3
    <3>2. h[k] = IF k = 1 THEN g[k] ELSE h[k - 1] \o g[k]
      BY <1>4, <3>1 DEF Flattens
    <3> QED
      BY <2>1, <2>3, <3>2
  <2> QED
    BY <2>2, <2>3
<1>6. f = [k \in 1..m |-> f[k]]
  OBVIOUS
<1> HIDE DEF f
<1>7. Flattens(f, g, m)
  BY <1>5, <1>6 DEF Flattens
<1> QED
  BY <1>1, <1>7

\* and only one, as far as it goes.
LEMMA FlattensAgree ==
    ASSUME NEW g, NEW m \in Nat, NEW n \in Nat, m <= n,
           NEW f, Flattens(f, g, m), NEW h, Flattens(h, g, n)
    PROVE  \A k \in 1..m : f[k] = h[k]
<1> DEFINE T == {k \in Nat : k \in 1..m /\ f[k] # h[k]}
<1> SUFFICES ASSUME T # {} PROVE FALSE
  OBVIOUS
<1>1. PICK k \in T : \A j \in T : k <= j
  <2>1. T \subseteq Nat
    OBVIOUS
  <2> HIDE DEF T
  <2> QED
    BY <2>1, Least
<1>2. /\ k \in 1..m /\ k \in 1..n /\ f[k] # h[k]
  OBVIOUS
<1>3. /\ f[k] = IF k = 1 THEN g[k] ELSE f[k - 1] \o g[k]
      /\ h[k] = IF k = 1 THEN g[k] ELSE h[k - 1] \o g[k]
  BY <1>2 DEF Flattens
<1>4. k # 1 => f[k - 1] = h[k - 1]
  <2> SUFFICES ASSUME k # 1 PROVE f[k - 1] = h[k - 1]
    OBVIOUS
  <2>1. k - 1 \in Nat /\ k - 1 \in 1..m /\ ~(k <= k - 1)
    BY <1>2
  <2> QED
    BY <1>1, <2>1
<1> QED
  BY <1>2, <1>3, <1>4

\* Flattening goes one sequence at a time.
LEMMA FlatIs ==
    ASSUME NEW g, NEW n \in Nat \ {0}, NEW f, Flattens(f, g, n)
    PROVE  Flat(g, n) = f[n]
<1> DEFINE s == [k \in 1..n |-> g[k]]
           h == CHOOSE x : Flattens(x, s, n)
<1>1. Len(s) = n /\ n # 0
  OBVIOUS
<1>2. Flat(g, n) = h[n]
  <2> HIDE DEF s
  <2>1. FlattenSeq(s) =
          (CHOOSE x : x = [k \in 1..n |-> IF k = 1 THEN s[k]
                                          ELSE x[k - 1] \o s[k]])[n]
    BY <1>1 DEF FlattenSeq
  <2> QED
    BY <2>1 DEF Flat, Flattens, s
<1>3. Flattens(f, s, n)
  <2>1. \A k \in 1..n : s[k] = g[k]
    OBVIOUS
  <2> HIDE DEF s
  <2> QED
    BY <2>1 DEF Flattens
<1>4. Flattens(h, s, n)
  <2> HIDE DEF s
  <2> QED
    BY <1>3
<1>5. f[n] = h[n]
  <2>1. n \in Nat /\ n <= n /\ n \in 1..n
    OBVIOUS
  <2> HIDE DEF s, h
  <2> QED
    BY <1>3, <1>4, <2>1, FlattensAgree
<1> QED
  BY <1>2, <1>5

LEMMA FlatStep ==
    ASSUME NEW g
    PROVE  /\ Flat(g, 0) = <<>>
           /\ Flat(g, 1) = g[1]
           /\ \A n \in Nat \ {0} : Flat(g, n + 1) = Flat(g, n) \o g[n + 1]
<1>1. Flat(g, 0) = <<>>
  BY DEF Flat, FlattenSeq
<1>2. Flat(g, 1) = g[1]
  <2>1. PICK f : Flattens(f, g, 1)
    BY FlattensExists
  <2>2. Flat(g, 1) = f[1]
    BY <2>1, FlatIs
  <2>3. f[1] = g[1]
    BY <2>1 DEF Flattens
  <2> QED
    BY <2>2, <2>3
<1>3. ASSUME NEW n \in Nat \ {0}
      PROVE  Flat(g, n + 1) = Flat(g, n) \o g[n + 1]
  <2>1. n + 1 \in Nat \ {0} /\ n <= n + 1 /\ n + 1 \in 1..(n + 1)
        /\ (n + 1) - 1 = n /\ n + 1 # 1 /\ n \in 1..n
    OBVIOUS
  <2>2. PICK f : Flattens(f, g, n + 1)
    BY <2>1, FlattensExists
  <2>3. PICK h : Flattens(h, g, n)
    BY FlattensExists
  <2>4. Flat(g, n + 1) = f[n + 1] /\ Flat(g, n) = h[n]
    BY <2>1, <2>2, <2>3, FlatIs
  <2>5. f[n + 1] = f[n] \o g[n + 1]
    BY <2>1, <2>2 DEF Flattens
  <2>6. h[n] = f[n]
    BY <2>1, <2>2, <2>3, FlattensAgree
  <2> QED
    BY <2>4, <2>5, <2>6
<1> QED
  BY <1>1, <1>2, <1>3

LEMMA FlatNext ==
    ASSUME NEW S, NEW N \in Nat, NEW g, \A k \in 1..N : g[k] \in Seq(S),
           NEW n \in 0..(N - 1)
    PROVE  Flat(g, n + 1) = Flat(g, n) \o g[n + 1]
<1>1. g[n + 1] \in Seq(S)
  OBVIOUS
<1>2. <<>> \o g[n + 1] = g[n + 1]
  BY <1>1, ConcatEmptySeq
<1>3. CASE n = 0
  BY <1>2, <1>3, FlatStep
<1>4. CASE n # 0
  BY <1>4, FlatStep
<1> QED
  BY <1>3, <1>4

\* What comes out is a sequence,
LEMMA FlatType ==
    ASSUME NEW S, NEW N \in Nat, NEW g, \A k \in 1..N : g[k] \in Seq(S)
    PROVE  \A n \in 0..N : Flat(g, n) \in Seq(S)
<1> DEFINE T == {n \in Nat : n \in 0..N /\ Flat(g, n) \notin Seq(S)}
<1> SUFFICES ASSUME T # {} PROVE FALSE
  OBVIOUS
<1>1. PICK n \in T : \A j \in T : n <= j
  <2>1. T \subseteq Nat
    OBVIOUS
  <2> HIDE DEF T
  <2> QED
    BY <2>1, Least
<1>2. Flat(g, 0) \in Seq(S)
  <2>1. <<>> \in Seq(S)
    OBVIOUS
  <2> QED
    BY <2>1, FlatStep
<1>3. PICK p \in 0..(N - 1) : n = p + 1 /\ p \notin T
  <2>1. n # 0 /\ n \in 0..N
    BY <1>2
  <2>2. n - 1 \in 0..(N - 1) /\ n = (n - 1) + 1 /\ ~(n <= n - 1)
    BY <2>1
  <2> QED
    BY <1>1, <2>2
<1>4. Flat(g, p) \in Seq(S) /\ g[p + 1] \in Seq(S)
  BY <1>3
<1>5. \A s, t \in Seq(S) : s \o t \in Seq(S)
  BY ConcatProperties
<1>6. Flat(g, p + 1) \in Seq(S)
  <2>1. Flat(g, p + 1) = Flat(g, p) \o g[p + 1]
    BY FlatNext
  <2> QED
    BY <1>4, <1>5, <2>1
<1> QED
  BY <1>3, <1>6

\* One sequence is the beginning of another.
Begins(s, t) == Len(s) <= Len(t) /\ \A k \in 1..Len(s) : s[k] = t[k]

\* so that what comes out of less comes first.
LEMMA FlatPrefix ==
    ASSUME NEW S, NEW N \in Nat, NEW g, \A k \in 1..N : g[k] \in Seq(S),
           NEW m \in 0..N
    PROVE  \A n \in m..N : Begins(Flat(g, m), Flat(g, n))
<1> DEFINE P(n) == /\ Len(Flat(g, m)) <= Len(Flat(g, n))
                   /\ \A k \in 1..Len(Flat(g, m)) : Flat(g, m)[k] = Flat(g, n)[k]
           T == {n \in Nat : n \in m..N /\ ~P(n)}
<1> SUFFICES ASSUME T # {} PROVE FALSE
  BY DEF Begins
<1>1. PICK n \in T : \A j \in T : n <= j
  <2>1. T \subseteq Nat
    OBVIOUS
  <2> HIDE DEF T
  <2> QED
    BY <2>1, Least
<1>2. \A k \in 0..N : Flat(g, k) \in Seq(S) /\ Len(Flat(g, k)) \in Nat
  BY FlatType, LenProperties
<1>3. n # m
  BY <1>2
<1>4. PICK p \in 0..(N - 1) : n = p + 1 /\ p \in m..N /\ P(p)
  <2>1. n \in m..N /\ n - 1 \in 0..(N - 1) /\ n = (n - 1) + 1 /\ ~(n <= n - 1)
        /\ n - 1 \in m..N /\ n - 1 \in Nat
    BY <1>3
  <2>2. n - 1 \notin T
    BY <1>1, <2>1
  <2>3. P(n - 1)
    BY <2>1, <2>2
  <2> QED
    BY <2>1, <2>3
<1>5. Flat(g, p + 1) = Flat(g, p) \o g[p + 1] /\ g[p + 1] \in Seq(S)
      /\ Flat(g, p) \in Seq(S)
  <2>1. Flat(g, p + 1) = Flat(g, p) \o g[p + 1]
    BY FlatNext
  <2>2. g[p + 1] \in Seq(S) /\ p \in 0..N
    OBVIOUS
  <2> QED
    BY <1>2, <2>1, <2>2
<1>6. /\ Len(Flat(g, p + 1)) = Len(Flat(g, p)) + Len(g[p + 1])
      /\ Len(g[p + 1]) \in Nat
      /\ \A k \in 1..(Len(Flat(g, p)) + Len(g[p + 1])) :
            Flat(g, p + 1)[k] = IF k <= Len(Flat(g, p)) THEN Flat(g, p)[k]
                                ELSE g[p + 1][k - Len(Flat(g, p))]
  BY <1>5, ConcatProperties, LenProperties
<1>7. Len(Flat(g, m)) \in Nat /\ Len(Flat(g, p)) \in Nat
  BY <1>2, <1>4
<1>8. Len(Flat(g, m)) <= Len(Flat(g, p + 1))
  BY <1>4, <1>6, <1>7
<1>9. \A k \in 1..Len(Flat(g, m)) : Flat(g, m)[k] = Flat(g, p + 1)[k]
  <2> SUFFICES ASSUME NEW k \in 1..Len(Flat(g, m))
               PROVE  Flat(g, m)[k] = Flat(g, p + 1)[k]
    OBVIOUS
  <2>1. k \in 1..(Len(Flat(g, p)) + Len(g[p + 1])) /\ k <= Len(Flat(g, p))
    BY <1>4, <1>6, <1>7
  <2> QED
    BY <1>4, <1>6, <2>1
<1> QED
  BY <1>4, <1>8, <1>9
-----------------------------------------------------------------------------
(* Counting, formatting and what was taken.                                *)

\* What is not a return counts.
LEMMA CountFinite ==
    ASSUME NEW S, NEW s \in Seq(S)
    PROVE  /\ IsFiniteSet({k \in 1..Len(s) : s[k] # "cr"})
           /\ Count(s) \in Nat
<1>1. Len(s) \in Nat
  BY LenProperties
<1>2. IsFiniteSet(1..Len(s))
  BY <1>1, FS_Interval
<1>3. IsFiniteSet({k \in 1..Len(s) : s[k] # "cr"})
  BY <1>2, FS_Subset
<1> QED
  BY <1>3, FS_CardinalityType DEF Count

LEMMA CountAppend ==
    ASSUME NEW S, NEW s \in Seq(S), NEW ch \in S
    PROVE  Count(Append(s, ch)) = IF ch = "cr" THEN Count(s) ELSE Count(s) + 1
<1> DEFINE K == {k \in 1..Len(s) : s[k] # "cr"}
           t == Append(s, ch)
           L == {k \in 1..Len(t) : t[k] # "cr"}
<1>1. /\ Len(s) \in Nat /\ Len(t) = Len(s) + 1 /\ t[Len(s) + 1] = ch
      /\ \A k \in 1..Len(s) : t[k] = s[k]
  BY LenProperties, AppendProperties
<1>2. IsFiniteSet(K) /\ Cardinality(K) = Count(s)
  BY CountFinite DEF Count
<1>3. Len(s) + 1 \notin K
  BY <1>1
<1>4. L = IF ch = "cr" THEN K ELSE K \cup {Len(s) + 1}
  BY <1>1
<1> HIDE DEF K
<1>5. Cardinality(K \cup {Len(s) + 1}) = Cardinality(K) + 1
  BY <1>2, <1>3, FS_AddElement
<1> QED
  BY <1>2, <1>4, <1>5 DEF Count

LEMMA CountAll ==
    ASSUME NEW S, NEW s \in Seq(S), \A k \in 1..Len(s) : s[k] # "cr"
    PROVE  Count(s) = Len(s)
<1>1. Len(s) \in Nat /\ {k \in 1..Len(s) : s[k] # "cr"} = 1..Len(s)
  BY LenProperties
<1>2. Cardinality(1..Len(s)) = Len(s)
  <2>1. Cardinality(1..Len(s)) = IF 1 > Len(s) THEN 0 ELSE Len(s) - 1 + 1
    BY <1>1, FS_Interval
  <2> QED
    BY <1>1, <2>1
<1> QED
  BY <1>1, <1>2 DEF Count

\* What vsnprintf() puts into the buffer.
LEMMA FormattedIs ==
    ASSUME NEW s \in Texts, NEW rest \in {"junk", "nl"}
    PROVE  /\ Formatted(s, rest) \in Seq(Characters)
           /\ Len(Formatted(s, rest)) = Len(s) /\ Len(s) \in Nat
           /\ \A k \in 1..Len(s) :
                 /\ Formatted(s, rest)[k] # "cr"
                 /\ k <= Limit => Formatted(s, rest)[k] = s[k]
                 /\ k = Limit + 1 => Formatted(s, rest)[k] = "nul"
<1>1. s \in Seq({"x", "nl"}) /\ Len(s) \in Nat
  BY TextsAssumption, LenProperties
<1>2. \A k \in 1..Len(s) : s[k] \in {"x", "nl"}
  BY <1>1, ElementOfSeq
<1> DEFINE f == Formatted(s, rest)
<1>3. f \in [1..Len(s) -> Characters \ {"cr"}]
  BY <1>2 DEF Formatted, Characters
<1>4. \A k \in 1..Len(s) : /\ k <= Limit => f[k] = s[k]
                           /\ k = Limit + 1 => f[k] = "nul"
  BY SizesAssumption DEF Formatted
<1> HIDE DEF f
<1>5. f \in Seq(Characters) /\ Len(f) = Len(s)
  BY <1>1, <1>3
<1> QED
  BY <1>1, <1>3, <1>4, <1>5 DEF f

\* What was taken, as a sequence of characters.
LEMMA SentType ==
    ASSUME sent \in Seq(Entries)
    PROVE  /\ Sent \in Seq(Characters) /\ Len(Sent) = Len(sent)
           /\ \A k \in 1..Len(sent) : Sent[k] = sent[k].char
<1>1. \A k \in 1..Len(sent) : sent[k].char \in Characters
  <2>1. \A k \in 1..Len(sent) : sent[k] \in Entries
    BY ElementOfSeq
  <2> QED
    BY <2>1 DEF Entries
<1>2. Len(sent) \in Nat
  BY LenProperties
<1> QED
  BY <1>1, <1>2 DEF Sent

\* One character more.
LEMMA PutIs ==
    ASSUME sent \in Seq(Entries), NEW ch \in Characters, i \in Nat, Put(ch)
    PROVE  /\ sent' \in Seq(Entries) /\ Len(sent') = Len(sent) + 1
           /\ sent'[Len(sent) + 1] = [at |-> i, char |-> ch]
           /\ \A k \in 1..Len(sent) : sent'[k] = sent[k]
           /\ Sent' = Append(Sent, ch)
           /\ Count(Sent') = IF ch = "cr" THEN Count(Sent) ELSE Count(Sent) + 1
<1> DEFINE e == [at |-> i, char |-> ch]
<1>1. e \in Entries /\ sent' = Append(sent, e) /\ e.char = ch
  BY DEF Entries, Put
<1> HIDE DEF e
<1>2. /\ sent' \in Seq(Entries) /\ Len(sent') = Len(sent) + 1
      /\ sent'[Len(sent) + 1] = e
      /\ \A k \in 1..Len(sent) : sent'[k] = sent[k]
  BY <1>1, AppendProperties
<1>3. Len(sent) \in Nat
  BY LenProperties
<1>4. Sent \in Seq(Characters) /\ Len(Sent) = Len(sent)
      /\ \A k \in 1..Len(sent) : Sent[k] = sent[k].char
  BY SentType
<1>5. /\ Append(Sent, ch) \in Seq(Characters)
      /\ Len(Append(Sent, ch)) = Len(Sent) + 1
      /\ Append(Sent, ch)[Len(Sent) + 1] = ch
      /\ \A k \in 1..Len(Sent) : Append(Sent, ch)[k] = Sent[k]
  BY <1>4, AppendProperties
<1>6. Sent' = [k \in 1..(Len(sent) + 1) |-> sent'[k].char]
  BY <1>2 DEF Sent
<1>7. \A k \in 1..(Len(sent) + 1) : sent'[k].char = Append(Sent, ch)[k]
  BY <1>1, <1>2, <1>3, <1>4, <1>5
<1>8. Append(Sent, ch) = [k \in 1..(Len(sent) + 1) |-> Append(Sent, ch)[k]]
  BY <1>3, <1>4, <1>5, LenProperties
<1>9. Sent' = Append(Sent, ch)
  BY <1>6, <1>7, <1>8
<1>10. Count(Sent') = IF ch = "cr" THEN Count(Sent) ELSE Count(Sent) + 1
  BY <1>4, <1>9, CountAppend
<1> QED
  BY <1>2, <1>9, <1>10 DEF e

\* What the terminal is to get, a character at a time.
LEMMA PiecesAre ==
    ASSUME pbuf \in Seq(Characters)
    PROVE  /\ Len(pbuf) \in Nat
           /\ \A k \in 1..Len(pbuf) :
                 Pieces[k] \in Seq(Characters)
           /\ \A n \in 0..Len(pbuf) : Flat(Pieces, n) \in Seq(Characters)
           /\ \A n \in 0..(Len(pbuf) - 1) :
                 Flat(Pieces, n + 1) = Flat(Pieces, n) \o Pieces[n + 1]
           /\ Flat(Pieces, 0) = <<>>
<1>1. Len(pbuf) \in Nat
  BY LenProperties
<1>2. \A k \in 1..Len(pbuf) : Pieces[k] \in Seq(Characters)
  <2> SUFFICES ASSUME NEW k \in 1..Len(pbuf)
               PROVE  Pieces[k] \in Seq(Characters)
    OBVIOUS
  <2>1. pbuf[k] \in Characters
    BY ElementOfSeq
  <2>2. <<"cr", "nl">> \in Seq(Characters) /\ <<pbuf[k]>> \in Seq(Characters)
    BY <2>1 DEF Characters
  <2> QED
    BY <2>2 DEF Pieces
<1> QED
  BY <1>1, <1>2, FlatType, FlatNext, FlatStep
-----------------------------------------------------------------------------
(* The invariant holds at first, and each step keeps it.                   *)

LEMMA CountNothing == <<>> \in Seq(Characters) /\ Count(<<>>) = 0
<1>1. <<>> \in Seq(Characters) /\ Len(<<>>) = 0
  OBVIOUS
<1>2. \A k \in 1..Len(<<>>) : <<>>[k] # "cr"
  BY <1>1
<1> QED
  BY <1>1, <1>2, CountAll

LEMMA InitHolds == Init => IInv
<1> SUFFICES ASSUME Init PROVE AroundType /\ Done
  BY DEF IInv
<1> USE DEF Init
<1>1. AroundType
  BY SizesAssumption DEF AroundType
<1>2. pbuf = <<>> /\ pbuf \in Seq(Characters) /\ Len(pbuf) = 0
      /\ text = <<>> /\ text \in Texts /\ Len(text) = 0
  BY TextsAssumption
<1>3. sent \in Seq(Entries) /\ Sent = <<>> /\ Count(Sent) = 0 /\ InSequence
      /\ Len(sent) = 0
  <2>1. sent \in Seq(Entries) /\ Len(sent) = 0
    OBVIOUS
  <2>2. Sent = <<>>
    BY <2>1 DEF Sent
  <2> QED
    BY <2>1, <2>2, CountNothing DEF InSequence
<1>4. CallType
  <2>1. i \in Nat \ {0} /\ i <= Len(pbuf) + 1
    BY <1>2
  <2>2. len \in 0..Len(text) /\ ret \in -1..Len(text)
    BY <1>2
  <2> QED
    BY <1>2, <1>3, <2>1, <2>2 DEF CallType
<1>5. Formed /\ Where
  BY <1>2 DEF Formed, Where, UsbSteps, Over
<1>6. Progress
  <2>1. Flat(Pieces, 0) = <<>> /\ i - 1 = 0 /\ ~Returned
    BY <1>2, PiecesAre DEF Returned
  <2>2. <<>> \o <<>> = <<>>
    OBVIOUS
  <2> QED
    BY <1>3, <2>1, <2>2 DEF Progress
<1>7. Order /\ Written
  BY <1>3 DEF Order, Written, UsbSteps
<1> QED
  BY <1>1, <1>4, <1>5, <1>6, <1>7 DEF Done

\* While the loops wait nothing is lost.
LEMMA DoneStays ==
    ASSUME Done,
           UNCHANGED <<ctx, pbuf, text, pc, i, len, ret, sent, cut, skewed>>
    PROVE  Done'
<1>1. Sent' = Sent /\ Pieces' = Pieces /\ (Returned' <=> Returned)
      /\ (InSequence' <=> InSequence) /\ (InPlace' <=> InPlace)
  BY DEF Sent, Pieces, Returned, InSequence, InPlace
<1>2. CallType' /\ Formed' /\ Where'
  BY DEF Done, CallType, Formed, Where, Over
<1>3. Progress'
  BY <1>1 DEF Done, Progress
<1>4. Order' /\ Written'
  BY <1>1 DEF Done, Order, Written
<1> QED
  BY <1>2, <1>3, <1>4 DEF Done

\* The surroundings leave the loops alone.
Around ==
    \/ HostPlugs \/ HostReads \/ OthersPrint \/ ClientReads \/ ClientChanges
    \/ TxWriteTcp

LEMMA AroundKeeps == IInv /\ Around => IInv'
<1> SUFFICES ASSUME AroundType, Done, Around PROVE AroundType' /\ Done'
  BY DEF IInv
<1>1. UNCHANGED <<ctx, pbuf, text, pc, i, len, ret, sent, cut, skewed>>
  BY DEF Around, HostPlugs, HostReads, OthersPrint, ClientReads,
         ClientChanges, TxWriteTcp, host, client, call
<1>2. Done'
  BY <1>1, DoneStays
<1>3. AroundType'
  <2> USE SizesAssumption DEF AroundType, host, client
  <2>1. CASE HostPlugs
    BY <2>1 DEF HostPlugs
  <2>2. CASE HostReads
    BY <2>2 DEF HostReads
  <2>3. CASE OthersPrint
    BY <2>3 DEF OthersPrint, HasRoom
  <2>4. CASE ClientReads
    BY <2>4 DEF ClientReads
  <2>5. CASE ClientChanges
    BY <2>5 DEF ClientChanges
  <2>6. CASE TxWriteTcp
    BY <2>6 DEF TxWriteTcp
  <2> QED
    BY <2>1, <2>2, <2>3, <2>4, <2>5, <2>6 DEF Around
<1> QED
  BY <1>2, <1>3

\* A printf() on USB begins with its first character, or ends at once.
LEMMA PrintUsbKeeps == IInv /\ PrintUsb => IInv'
<1> SUFFICES ASSUME AroundType, Done, PrintUsb PROVE AroundType' /\ Done'
  BY DEF IInv
<1>1. PICK s \in Texts, rest \in {"junk", "nl"} :
          /\ Begin("usb", s, rest)
          /\ Turn(IF attached THEN Formatted(s, rest) ELSE <<>>, 1)
  BY DEF PrintUsb
<1>2. /\ ctx' = "usb" /\ text' = s /\ pbuf' = Formatted(s, rest)
      /\ ret' = 0 /\ sent' = <<>> /\ skewed' = FALSE /\ i' = 1
      /\ len' = 0 /\ others' = 0 /\ cut' = ~attached
      /\ UNCHANGED <<attached, fifo, peer, unread>>
  BY <1>1 DEF PrintUsb, Begin, Turn, client
<1>3. /\ pbuf' \in Seq(Characters) /\ Len(pbuf') = Len(text') /\ Len(text') \in Nat
      /\ \A k \in 1..Len(pbuf') : /\ pbuf'[k] # "cr"
                                  /\ k <= Limit => pbuf'[k] = text'[k]
                                  /\ k = Limit + 1 => pbuf'[k] = "nul"
  BY <1>2, FormattedIs
<1>4. IF attached /\ Len(pbuf') > 0
      THEN pc' = IF pbuf'[1] = "nl" THEN "check_cr" ELSE "check"
      ELSE pc' = "idle"
  <2>1. CASE attached
    BY <1>1, <1>2, <1>3, <2>1 DEF Turn
  <2>2. CASE ~attached
    BY <1>1, <2>2 DEF Turn
  <2> QED
    BY <2>1, <2>2
<1>5. sent' \in Seq(Entries) /\ Len(sent') = 0 /\ InSequence'
  <2>1. <<>> \in Seq(Entries) /\ Len(<<>>) = 0
    OBVIOUS
  <2> QED
    BY <1>2, <2>1 DEF InSequence
<1>6. Sent' = <<>> /\ Count(Sent') = 0
  <2>1. Sent' = <<>>
    BY <1>5 DEF Sent
  <2> QED
    BY <2>1, CountNothing
<1>7. AroundType'
  BY <1>2, SizesAssumption DEF AroundType
<1>8. CallType'
  <2>1. i' \in Nat \ {0} /\ i' <= Len(pbuf') + 1
    BY <1>2, <1>3
  <2>2. len' \in 0..Len(text') /\ ret' \in -1..Len(text')
    BY <1>2, <1>3
  <2>3. pc' \in {"idle", "check_cr", "cr", "check", "char", "write", "echo"}
    BY <1>4
  <2>4. cut' \in BOOLEAN /\ skewed' \in BOOLEAN
    BY <1>2 DEF AroundType
  <2> QED
    BY <1>2, <1>3, <1>5, <2>1, <2>2, <2>3, <2>4 DEF CallType
<1>9. Formed'
  BY <1>3 DEF Formed
<1>10. Where'
  <2>1. Len(pbuf') \in Nat
    BY <1>3
  <2>2. CASE attached /\ Len(pbuf') > 0
    <3>1. pc' = IF pbuf'[1] = "nl" THEN "check_cr" ELSE "check"
      BY <1>4, <2>2
    <3>2. i' <= Len(pbuf') /\ i' = 1
      BY <1>2, <2>1, <2>2
    <3> QED
      BY <1>2, <3>1, <3>2 DEF Where, UsbSteps, Over
  <2>3. CASE ~(attached /\ Len(pbuf') > 0)
    <3>1. pc' = "idle"
      BY <1>4, <2>3
    <3>2. attached => i' = Len(pbuf') + 1
      BY <1>2, <2>1, <2>3
    <3> QED
      BY <1>2, <3>1, <3>2 DEF Where, UsbSteps, Over
  <2> QED
    BY <2>2, <2>3
<1>11. Progress'
  <2>1. ~Returned'
    BY <1>2, <1>4 DEF Returned
  <2>2. Flat(Pieces', 0) = <<>>
    BY FlatStep
  <2>3. <<>> \o <<>> = <<>>
    OBVIOUS
  <2>4. i' - 1 = 0
    BY <1>2
  <2> QED
    BY <1>6, <2>1, <2>2, <2>3, <2>4 DEF Progress
<1>12. Order' /\ Written'
  BY <1>2, <1>5 DEF Order, Written
<1> QED
  BY <1>7, <1>8, <1>9, <1>10, <1>11, <1>12 DEF Done

\* Over the network it begins with all of the text, or without memory.
LEMMA PrintTcpKeeps == IInv /\ PrintTcp => IInv'
<1> SUFFICES ASSUME AroundType, Done, PrintTcp PROVE AroundType' /\ Done'
  BY DEF IInv
<1>1. PICK s \in Texts :
          /\ Begin("tcp", s, "junk")
          /\ \/ len' = Len(s) /\ cut' = FALSE
             \/ len' = 0 /\ cut' = TRUE
  BY DEF PrintTcp
<1>2. /\ ctx' = "tcp" /\ text' = s /\ pbuf' = Formatted(s, "junk")
      /\ ret' = 0 /\ sent' = <<>> /\ skewed' = FALSE /\ i' = 1 /\ others' = 0
      /\ pc' = (IF len' > 0 THEN "write" ELSE "idle")
      /\ UNCHANGED <<attached, fifo, peer, unread>>
  BY <1>1 DEF PrintTcp, Begin, client
<1>3. /\ pbuf' \in Seq(Characters) /\ Len(pbuf') = Len(text') /\ Len(text') \in Nat
      /\ \A k \in 1..Len(pbuf') : /\ pbuf'[k] # "cr"
                                  /\ k <= Limit => pbuf'[k] = text'[k]
                                  /\ k = Limit + 1 => pbuf'[k] = "nul"
  BY <1>2, FormattedIs
<1>4. sent' \in Seq(Entries) /\ Len(sent') = 0
  <2>1. <<>> \in Seq(Entries) /\ Len(<<>>) = 0
    OBVIOUS
  <2> QED
    BY <1>2, <2>1
<1>5. AroundType'
  BY <1>2, SizesAssumption DEF AroundType
<1>6. CallType'
  <2>1. len' \in 0..Len(text') /\ ret' \in -1..Len(text') /\ i' \in Nat \ {0}
    BY <1>1, <1>2, <1>3
  <2>2. pc' \in {"idle", "write"} /\ cut' \in BOOLEAN
    BY <1>1, <1>2
  <2> QED
    BY <1>2, <1>3, <1>4, <2>1, <2>2 DEF CallType
<1>7. Formed'
  BY <1>3 DEF Formed
<1>8. len' \in Nat /\ (cut' \/ len' = Len(text')) /\ len' <= Len(text')
      /\ cut' \in BOOLEAN /\ (cut' => len' = 0)
  <2>1. /\ cut' \in BOOLEAN /\ (cut' => len' = 0)
        /\ (cut' \/ len' = Len(text')) /\ (len' = 0 \/ len' = Len(text'))
    BY <1>1, <1>2, Zenon
  <2>2. len' \in Nat /\ len' <= Len(text')
    BY <1>3, <2>1
  <2> QED
    BY <2>1, <2>2
<1>9. Where'
  BY <1>2, <1>8 DEF Where, UsbSteps, Over
<1>10. Progress' /\ Order'
  BY <1>2 DEF Progress, Order
<1>11. Written'
  <2>1. pc' = "write" \/ ~cut' => len' = Len(text')
    BY <1>2, <1>8
  <2>2. Len(sent') + len' <= Len(text') /\ i' = Len(sent') + 1
    BY <1>2, <1>3, <1>4, <1>8
  <2>4. pc' = "write" \/ ~cut' => Len(sent') + len' = Len(text')
    <3> SUFFICES ASSUME len' = Len(text') PROVE Len(sent') + len' = Len(text')
      BY <2>1
    <3> QED
      BY <1>3, <1>4
  <2>3. 1..Len(sent') = {} /\ ~skewed'
    BY <1>2, <1>4
  <2> QED
    BY <2>2, <2>3, <2>4 DEF Written
<1> QED
  BY <1>5, <1>6, <1>7, <1>9, <1>10, <1>11 DEF Done

\* The tests of the port and the attempts at a return.
LEMMA TestsKeep == IInv /\ (CheckReturn \/ TxTaken \/ TxWriteUsb) => IInv'
<1> SUFFICES ASSUME AroundType, Done, CheckReturn \/ TxTaken \/ TxWriteUsb
             PROVE  AroundType' /\ Done'
  BY DEF IInv
<1>1. /\ UNCHANGED <<attached, others, peer, unread, ctx, pbuf, text, i, len,
                     ret, sent, skewed>>
      /\ cut' \in {cut, TRUE}
      /\ fifo' = fifo \/ (HasRoom /\ fifo' = fifo + 1)
  <2> USE DEF host, client, call
  <2>1. CASE CheckReturn
    BY <2>1 DEF CheckReturn, AroundType, Done, CallType
  <2>2. CASE TxTaken
    BY <2>2 DEF TxTaken
  <2>3. CASE TxWriteUsb
    BY <2>3 DEF TxWriteUsb
  <2> QED
    BY <2>1, <2>2, <2>3
<1>2. \/ pc = "check_cr" /\ pc' = "cr" /\ cut' = cut
      \/ pc = "check_cr" /\ pc' = "check" /\ cut' = TRUE
      \/ pc \in {"idle", "echo"} /\ pc' \in {"idle", "echo"} /\ cut' = cut
  BY DEF CheckReturn, TxTaken, TxWriteUsb, Step, AroundType, Done, CallType
<1>3. AroundType'
  BY <1>1, SizesAssumption DEF AroundType, HasRoom
<1>4. CallType'
  BY <1>1, <1>2 DEF Done, CallType
<1>5. Formed' /\ Where'
  BY <1>1, <1>2 DEF Done, Formed, Where, UsbSteps, Over
<1>6. Sent' = Sent /\ Pieces' = Pieces /\ (InSequence' <=> InSequence) /\ ~Returned
      /\ (Returned' => cut') /\ (InPlace' <=> InPlace)
  BY <1>1, <1>2 DEF Sent, Pieces, InSequence, InPlace, Returned
<1>7. Progress'
  BY <1>1, <1>2, <1>6 DEF Done, Progress
<1>8. Order'
  BY <1>1, <1>2, <1>6 DEF Done, Order, UsbSteps
<1>9. Written'
  BY <1>1, <1>2, <1>6 DEF Done, Written
<1> QED
  BY <1>3, <1>4, <1>5, <1>7, <1>8, <1>9 DEF Done

\* A return is written before its new line, or attempted again.
LEMMA WriteReturnKeeps == IInv /\ WriteReturn => IInv'
<1> SUFFICES ASSUME AroundType, Done, WriteReturn PROVE AroundType' /\ Done'
  BY DEF IInv
<1>1. /\ UNCHANGED <<attached, others, peer, unread, ctx, pbuf, text, i, len,
                     ret, cut, skewed>>
      /\ pc = "cr" /\ ctx = "usb" /\ pbuf[i] = "nl" /\ ~Returned
      /\ i \in Nat \ {0} /\ i <= Len(pbuf) /\ sent \in Seq(Entries)
      /\ pbuf \in Seq(Characters) /\ Len(sent) \in Nat
  BY LenProperties
  DEF WriteReturn, Step, client, call, Done, Where, UsbSteps, CallType, Returned
<1>2. Pieces' = Pieces
  BY <1>1 DEF Pieces
<1>3. CASE ~HasRoom /\ Step("cr", "check_cr") /\ UNCHANGED <<fifo, sent>>
  <2>1. pc' = "check_cr" /\ Sent' = Sent /\ (InSequence' <=> InSequence) /\ ~Returned'
    BY <1>1, <1>3 DEF Step, Sent, InSequence, Returned
  <2>2. AroundType' /\ CallType' /\ Formed' /\ Where'
    BY <1>1, <1>3, <2>1
    DEF AroundType, Done, CallType, Formed, Where, UsbSteps, Over
  <2>3. Progress' /\ Order' /\ Written'
    BY <1>1, <1>2, <1>3, <2>1 DEF Done, Progress, Order, Written, UsbSteps
  <2> QED
    BY <2>2, <2>3 DEF Done
<1>4. CASE Step("cr", "check") /\ Put("cr")
  <2>1. pc' = "check" /\ fifo' = fifo + 1 /\ HasRoom /\ Returned'
    BY <1>1, <1>4 DEF Step, Put, Returned
  <2>2. /\ sent' \in Seq(Entries) /\ Len(sent') = Len(sent) + 1
        /\ sent'[Len(sent) + 1] = [at |-> i, char |-> "cr"]
        /\ \A k \in 1..Len(sent) : sent'[k] = sent[k]
        /\ Sent' = Append(Sent, "cr") /\ Count(Sent') = Count(Sent)
    BY <1>1, <1>4, PutIs DEF Characters
  <2>3. AroundType' /\ CallType' /\ Formed' /\ Where'
    <3>1. AroundType'
      BY <1>1, <2>1, SizesAssumption DEF AroundType, HasRoom
    <3>2. CallType'
      BY <1>1, <2>1, <2>2 DEF Done, CallType
    <3>3. Formed' /\ Where'
      BY <1>1, <2>1 DEF Done, Formed, Where, UsbSteps, Over
    <3> QED
      BY <3>1, <3>2, <3>3
  <2>4. Progress'
    <3> SUFFICES ASSUME ~cut
                 PROVE  /\ Sent' = Flat(Pieces, i - 1) \o <<"cr">>
                        /\ Count(Sent') = i - 1
      BY <1>1, <1>2, <2>1 DEF Progress
    <3>1. Sent = Flat(Pieces, i - 1) \o <<>> /\ Count(Sent) = i - 1
      BY <1>1 DEF Done, Progress
    <3>2. Flat(Pieces, i - 1) \in Seq(Characters)
      <4>1. i - 1 \in 0..Len(pbuf)
        BY <1>1
      <4> QED
        BY <1>1, <4>1, PiecesAre
    <3>3. Sent = Flat(Pieces, i - 1)
      BY <3>1, <3>2, ConcatEmptySeq
    <3>4. Append(Sent, "cr") = Sent \o <<"cr">>
      BY <3>2, <3>3, AppendIsConcat DEF Characters
    <3> QED
      BY <2>2, <3>1, <3>3, <3>4
  <2>5. \A j \in 1..Len(sent) : sent[j].at < i
    BY <1>1 DEF Done, Order, UsbSteps
  <2>6. Order'
    <3>1. \A j \in 1..Len(sent') :
             \/ j \in 1..Len(sent) /\ sent'[j] = sent[j]
             \/ j = Len(sent) + 1 /\ sent'[j].at = i /\ sent'[j].char = "cr"
      BY <1>1, <2>2
    <3>2. InSequence'
      <4> SUFFICES ASSUME NEW j \in 1..Len(sent'), NEW k \in 1..Len(sent'), j < k
                   PROVE  \/ sent'[j].at < sent'[k].at
                          \/ /\ sent'[j].at = sent'[k].at
                             /\ sent'[j].char = "cr" /\ sent'[k].char = "nl"
        BY DEF InSequence
      <4>1. j \in 1..Len(sent) /\ sent'[j] = sent[j]
        BY <1>1, <2>2
      <4>2. CASE k = Len(sent) + 1
        BY <2>2, <2>5, <4>1, <4>2
      <4>3. CASE k # Len(sent) + 1
        <5>1. k \in 1..Len(sent) /\ sent'[k] = sent[k]
          <6>1. Len(sent) \in Nat /\ Len(sent') = Len(sent) + 1
            BY <1>1, <2>2
          <6>2. k \in 1..Len(sent)
            BY <4>3, <6>1
          <6> QED
            BY <2>2, <6>2
        <5>2. \A p, q \in 1..Len(sent) : p < q =>
                 \/ sent[p].at < sent[q].at
                 \/ sent[p].at = sent[q].at /\ sent[p].char = "cr" /\ sent[q].char = "nl"
          BY <1>1 DEF Done, Order, InSequence
        <5> QED
          BY <4>1, <5>1, <5>2
      <4> QED
        BY <4>2, <4>3
    <3> QED
      BY <1>1, <2>1, <2>5, <3>1, <3>2 DEF Done, Order
  <2>7. Written'
    BY <1>1 DEF Written
  <2> QED
    BY <2>3, <2>4, <2>6, <2>7 DEF Done
<1> QED
  BY <1>3, <1>4 DEF WriteReturn

LEMMA PlacesAre ==
    ASSUME sent \in Seq(Entries)
    PROVE  \A k \in 1..Len(sent) : sent[k].at \in Nat
<1>1. \A k \in 1..Len(sent) : sent[k] \in Entries
  BY ElementOfSeq
<1> QED
  BY <1>1 DEF Entries

\* The index moves on to the next character, which may need a return.
LEMMA TurnIs ==
    ASSUME pbuf \in Seq(Characters), i \in 1..Len(pbuf), pbuf' = pbuf,
           ctx = "usb", ctx' = "usb", Turn(pbuf, i + 1)
    PROVE  /\ i' = i + 1 /\ i' \in Nat \ {0} /\ i' <= Len(pbuf') + 1
           /\ pc' \in {"idle", "check_cr", "check"}
           /\ Where' /\ (Returned' => FALSE)
           /\ pc' \in UsbSteps => i' <= Len(pbuf')
<1>1. Len(pbuf) \in Nat
  BY LenProperties
<1>2. i' = i + 1 /\ i' \in Nat \ {0} /\ i' <= Len(pbuf') + 1 /\ i' \in Int
  BY <1>1 DEF Turn
<1>3. CASE i + 1 > Len(pbuf)
  <2>1. pc' = "idle" /\ i' = Len(pbuf') + 1
    BY <1>1, <1>3 DEF Turn
  <2> QED
    BY <1>2, <2>1 DEF Where, UsbSteps, Over, Returned
<1>4. CASE ~(i + 1 > Len(pbuf))
  <2>1. pc' = (IF pbuf'[i'] = "nl" THEN "check_cr" ELSE "check") /\ i' <= Len(pbuf')
    BY <1>1, <1>2, <1>4 DEF Turn
  <2> QED
    BY <1>2, <2>1 DEF Where, UsbSteps, Over, Returned
<1> QED
  BY <1>3, <1>4

\* A test that finds no host leaves its loop, and its character is missing.
LEMMA CheckCharKeeps == IInv /\ CheckChar => IInv'
<1> SUFFICES ASSUME AroundType, Done, CheckChar PROVE AroundType' /\ Done'
  BY DEF IInv
<1>1. /\ UNCHANGED <<attached, fifo, others, peer, unread, ctx, pbuf, text,
                     len, ret, sent, skewed>>
      /\ pc = "check" /\ ctx = "usb" /\ ctx' = "usb"
      /\ pbuf \in Seq(Characters) /\ i \in 1..Len(pbuf)
      /\ sent \in Seq(Entries) /\ Len(sent) \in Nat
  BY LenProperties
  DEF CheckChar, host, client, call, Done, Where, UsbSteps, CallType
<1>2. cut' \in BOOLEAN /\ (attached => cut' = cut) /\ (~attached => cut')
  BY DEF CheckChar, Done, CallType, AroundType
<1>3. Sent' = Sent /\ Pieces' = Pieces /\ (InSequence' <=> InSequence)
  BY <1>1 DEF Sent, Pieces, InSequence
<1>4. AroundType' /\ Formed' /\ Written'
  BY <1>1 DEF AroundType, Done, Formed, Written
<1>5. CASE attached
  <2>1. pc' = "char" /\ i' = i /\ cut' = cut
    BY <1>2, <1>5 DEF CheckChar, Step
  <2>2. CallType' /\ Where'
    BY <1>1, <2>1 DEF Done, CallType, Where, UsbSteps, Over
  <2>3. Returned' <=> Returned
    BY <1>1, <2>1 DEF Returned
  <2>4. Progress'
    BY <1>1, <1>3, <2>1, <2>3 DEF Done, Progress
  <2>5. Order'
    BY <1>1, <1>3, <2>1, <2>3 DEF Done, Order, UsbSteps
  <2> QED
    BY <1>4, <2>2, <2>4, <2>5 DEF Done
<1>6. CASE ~attached
  <2>1. Turn(pbuf, i + 1) /\ cut'
    BY <1>2, <1>6 DEF CheckChar
  <2>2. /\ i' = i + 1 /\ i' \in Nat \ {0} /\ i' <= Len(pbuf') + 1
        /\ pc' \in {"idle", "check_cr", "check"} /\ Where'
    BY <1>1, <2>1, TurnIs
  <2>3. CallType'
    BY <1>1, <1>2, <2>2 DEF Done, CallType
  <2>4. Progress'
    BY <2>1 DEF Progress
  <2>5. \A j \in 1..Len(sent) : sent[j].at < i'
    <3>1. \A j \in 1..Len(sent) : sent[j].at < i \/ sent[j].at = i
      BY <1>1 DEF Done, Order, UsbSteps
    <3>2. \A j \in 1..Len(sent) : sent[j].at \in Nat
      BY <1>1, PlacesAre
    <3> QED
      BY <1>1, <2>2, <3>1, <3>2
  <2>6. Order'
    BY <1>1, <1>3, <2>5 DEF Done, Order
  <2> QED
    BY <1>4, <2>2, <2>3, <2>4, <2>6 DEF Done
<1> QED
  BY <1>5, <1>6

\* A character is written after its return, or its port is tested again.
LEMMA WriteCharKeeps == IInv /\ WriteChar => IInv'
<1> SUFFICES ASSUME AroundType, Done, WriteChar PROVE AroundType' /\ Done'
  BY DEF IInv
<1>1. /\ UNCHANGED <<attached, others, peer, unread, ctx, pbuf, text, len,
                     ret, cut, skewed>>
      /\ pc = "char" /\ ctx = "usb" /\ ctx' = "usb"
      /\ pbuf \in Seq(Characters) /\ i \in 1..Len(pbuf)
      /\ i \in Nat \ {0} /\ sent \in Seq(Entries) /\ Len(sent) \in Nat
      /\ pbuf[i] # "cr" /\ pbuf[i] \in Characters /\ Len(pbuf) \in Nat
  BY LenProperties, ElementOfSeq
  DEF WriteChar, host, client, call, Done, Where, UsbSteps, CallType, Formed
<1>2. Pieces' = Pieces /\ Formed' /\ Written'
  BY <1>1 DEF Pieces, Done, Formed, Written
<1>3. CASE ~HasRoom /\ Step("char", "check") /\ UNCHANGED <<fifo, sent, i>>
  <2>1. pc' = "check" /\ Sent' = Sent /\ (InSequence' <=> InSequence)
        /\ (Returned' <=> Returned)
    BY <1>1, <1>3 DEF Step, Sent, InSequence, Returned
  <2>2. AroundType' /\ CallType' /\ Where'
    BY <1>1, <1>3, <2>1 DEF AroundType, Done, CallType, Where, UsbSteps, Over
  <2>3. Progress'
    BY <1>1, <1>2, <1>3, <2>1 DEF Done, Progress
  <2>4. Order'
    BY <1>1, <1>3, <2>1 DEF Done, Order, UsbSteps
  <2> QED
    BY <1>2, <2>2, <2>3, <2>4 DEF Done
<1>4. CASE Put(pbuf[i]) /\ Turn(pbuf, i + 1)
  <2>1. /\ i' = i + 1 /\ i' \in Nat \ {0} /\ i' <= Len(pbuf') + 1
        /\ pc' \in {"idle", "check_cr", "check"} /\ Where' /\ ~Returned'
    BY <1>1, <1>4, TurnIs
  <2>2. /\ sent' \in Seq(Entries) /\ Len(sent') = Len(sent) + 1
        /\ sent'[Len(sent) + 1] = [at |-> i, char |-> pbuf[i]]
        /\ \A k \in 1..Len(sent) : sent'[k] = sent[k]
        /\ Sent' = Append(Sent, pbuf[i]) /\ Count(Sent') = Count(Sent) + 1
    BY <1>1, <1>4, PutIs
  <2>3. AroundType'
    BY <1>1, <1>4, SizesAssumption DEF AroundType, Put, HasRoom
  <2>4. CallType'
    BY <1>1, <2>1, <2>2 DEF Done, CallType
  <2>5. Progress'
    <3> SUFFICES ASSUME ~cut
                 PROVE  /\ Sent' = Flat(Pieces, i) \o <<>>
                        /\ Count(Sent') = i
      <4>1. i' - 1 = i /\ ~Returned' /\ Pieces' = Pieces /\ cut' = cut
        BY <1>1, <1>2, <2>1
      <4> QED
        BY <4>1 DEF Progress
    <3> DEFINE back == Flat(Pieces, i - 1)
    <3>1. Sent = back \o (IF pbuf[i] = "nl" THEN <<"cr">> ELSE <<>>)
          /\ Count(Sent) = i - 1
      BY <1>1 DEF Done, Progress, Returned
    <3>2. /\ back \in Seq(Characters) /\ Flat(Pieces, i) \in Seq(Characters)
          /\ Flat(Pieces, i) = back \o Pieces[i]
      <4>1. i - 1 \in 0..(Len(pbuf) - 1) /\ i - 1 \in 0..Len(pbuf)
            /\ i \in 0..Len(pbuf) /\ (i - 1) + 1 = i
        BY <1>1
      <4> QED
        BY <1>1, <4>1, PiecesAre
    <3>3. Flat(Pieces, i) \o <<>> = Flat(Pieces, i)
      BY <3>2, ConcatEmptySeq
    <3>4. Sent' = back \o Pieces[i]
      <4> HIDE DEF back
      <4>1. CASE pbuf[i] = "nl"
        <5>1. Pieces[i] = <<"cr", "nl">> /\ Sent = back \o <<"cr">>
          BY <1>1, <3>1, <4>1 DEF Pieces
        <5>2. Append(back \o <<"cr">>, "nl") = back \o <<"cr", "nl">>
          BY <3>2 DEF Characters
        <5> QED
          BY <2>2, <4>1, <5>1, <5>2
      <4>2. CASE pbuf[i] # "nl"
        <5>1. Pieces[i] = <<pbuf[i]>> /\ Sent = back
          <6>1. back \o <<>> = back
            BY <3>2, ConcatEmptySeq
          <6> QED
            BY <1>1, <3>1, <4>2, <6>1 DEF Pieces
        <5>2. Append(back, pbuf[i]) = back \o <<pbuf[i]>>
          BY <1>1, <3>2, AppendIsConcat
        <5> QED
          BY <2>2, <5>1, <5>2
      <4> QED
        BY <4>1, <4>2
    <3>5. Count(Sent') = i
      BY <1>1, <2>2, <3>1
    <3> QED
      BY <3>2, <3>3, <3>4, <3>5
  <2>6. \A j \in 1..Len(sent) :
           \/ sent[j].at < i
           \/ sent[j].at = i /\ sent[j].char = "cr" /\ pbuf[i] = "nl"
    BY <1>1 DEF Done, Order, UsbSteps, Returned
  <2>7. \A j \in 1..Len(sent) : sent[j].at \in Nat
    BY <1>1, PlacesAre
  <2>8. Order'
    <3>1. \A j \in 1..Len(sent') :
             \/ j \in 1..Len(sent) /\ sent'[j] = sent[j]
             \/ j = Len(sent) + 1 /\ sent'[j].at = i /\ sent'[j].char = pbuf[i]
      BY <1>1, <2>2
    <3>2. \A j \in 1..Len(sent') : sent'[j].at < i'
      BY <1>1, <2>1, <2>6, <2>7, <3>1
    <3>3. InSequence'
      <4> SUFFICES ASSUME NEW j \in 1..Len(sent'), NEW k \in 1..Len(sent'), j < k
                   PROVE  \/ sent'[j].at < sent'[k].at
                          \/ /\ sent'[j].at = sent'[k].at
                             /\ sent'[j].char = "cr" /\ sent'[k].char = "nl"
        BY DEF InSequence
      <4>1. j \in 1..Len(sent) /\ sent'[j] = sent[j]
        BY <1>1, <2>2
      <4>2. CASE k = Len(sent) + 1
        BY <2>2, <2>6, <4>1, <4>2
      <4>3. CASE k # Len(sent) + 1
        <5>1. k \in 1..Len(sent) /\ sent'[k] = sent[k]
          BY <3>1, <4>3
        <5>2. \A p, q \in 1..Len(sent) : p < q =>
                 \/ sent[p].at < sent[q].at
                 \/ sent[p].at = sent[q].at /\ sent[p].char = "cr" /\ sent[q].char = "nl"
          BY <1>1 DEF Done, Order, InSequence
        <5> QED
          BY <4>1, <5>1, <5>2
      <4> QED
        BY <4>2, <4>3
    <3> QED
      BY <1>1, <3>2, <3>3 DEF Done, Order
  <2> QED
    BY <1>2, <2>1, <2>3, <2>4, <2>5, <2>8 DEF Done
<1> QED
  BY <1>3, <1>4 DEF WriteChar

\* What a write() takes is as long as it says, and is read from where s points.
LEMMA TakesIs ==
    ASSUME sent \in Seq(Entries), pbuf \in Seq(Characters), i \in Nat \ {0},
           NEW n \in Nat \ {0}, Takes(n)
    PROVE  /\ sent' \in Seq(Entries) /\ Len(sent') = Len(sent) + n
           /\ \A k \in 1..Len(sent) : sent'[k] = sent[k]
           /\ \A k \in 1..n :
                 /\ sent'[Len(sent) + k].at = i + k - 1
                 /\ sent'[Len(sent) + k].char = Byte(i + k - 1)
<1> DEFINE e == [k \in 1..n |-> [at |-> i + k - 1, char |-> Byte(i + k - 1)]]
<1>1. \A k \in 1..n : i + k - 1 \in Nat \ {0}
  OBVIOUS
<1>2. \A j \in Nat \ {0} : Byte(j) \in Characters
  <2>1. \A j \in 1..Len(pbuf) : pbuf[j] \in Characters
    BY ElementOfSeq
  <2>2. Len(pbuf) \in Nat
    BY LenProperties
  <2> QED
    BY <2>1, <2>2 DEF Byte, Characters
<1>3. e \in [1..n -> Entries]
  BY <1>1, <1>2 DEF Entries
<1>4. /\ \A k \in 1..n : e[k].at = i + k - 1 /\ e[k].char = Byte(i + k - 1)
      /\ sent' = sent \o e
  BY DEF Takes
<1> HIDE DEF e
<1>5. e \in Seq(Entries) /\ Len(e) = n
  BY <1>3
<1>6. /\ sent \o e \in Seq(Entries)
      /\ Len(sent \o e) = Len(sent) + n
      /\ \A k \in 1..Len(sent) + n :
            (sent \o e)[k] = IF k <= Len(sent) THEN sent[k] ELSE e[k - Len(sent)]
  BY <1>5, ConcatProperties
<1>7. Len(sent) \in Nat
  BY LenProperties
<1>8. \A k \in 1..Len(sent) : (sent \o e)[k] = sent[k]
  BY <1>6, <1>7
<1>9. \A k \in 1..n : (sent \o e)[Len(sent) + k] = e[k]
  <2> SUFFICES ASSUME NEW k \in 1..n PROVE (sent \o e)[Len(sent) + k] = e[k]
    OBVIOUS
  <2>1. /\ Len(sent) + k \in 1..Len(sent) + n /\ ~(Len(sent) + k <= Len(sent))
        /\ (Len(sent) + k) - Len(sent) = k
    BY <1>7
  <2> QED
    BY <1>6, <2>1
<1> QED
  BY <1>4, <1>6, <1>8, <1>9

\* A write() takes a part of what is left; the pointer stays right when this
\* is all of it or a half.
LEMMA WriteKeeps == IInv /\ Write => IInv'
<1> SUFFICES ASSUME AroundType, Done, NEW n \in 1..len,
                    Takes(n), len' = len - n, i' = i + len',
                    pc' = IF len' > 0 THEN "write" ELSE "idle"
             PROVE  AroundType' /\ Done'
  BY DEF IInv, Write
<1>1. /\ UNCHANGED <<attached, fifo, others, peer, ctx, pbuf, text, cut>>
      /\ pc = "write" /\ ~cut /\ ctx = "tcp" /\ ctx' = "tcp" /\ ret' = n
      /\ unread' = unread + n /\ unread + n <= Window
      /\ skewed' = (skewed \/ (n < len /\ 2 * n # len))
  BY DEF Takes, host, call, Done, Where
<1>2. /\ pbuf \in Seq(Characters) /\ i \in Nat \ {0} /\ sent \in Seq(Entries)
      /\ Len(sent) \in Nat /\ Len(pbuf) \in Nat /\ Len(text) \in Nat
      /\ Len(text) = Len(pbuf) /\ len \in Nat /\ n \in Nat \ {0} /\ n <= len
      /\ len <= Len(text) /\ text \in Texts /\ skewed \in BOOLEAN /\ cut \in BOOLEAN
  BY LenProperties DEF Done, CallType, Formed
<1>3. /\ sent' \in Seq(Entries) /\ Len(sent') = Len(sent) + n
      /\ \A k \in 1..Len(sent) : sent'[k] = sent[k]
      /\ \A k \in 1..n : /\ sent'[Len(sent) + k].at = i + k - 1
                         /\ sent'[Len(sent) + k].char = Byte(i + k - 1)
  BY <1>2, TakesIs
<1>4. len' \in Nat /\ i' \in Nat \ {0} /\ len' <= Len(text)
  BY <1>2
<1>5. AroundType'
  BY <1>1, <1>2, SizesAssumption DEF AroundType
<1>6. CallType'
  <2>1. len' \in 0..Len(text') /\ ret' \in -1..Len(text')
    BY <1>1, <1>2, <1>4
  <2>2. pc' \in {"idle", "write"} /\ skewed' \in BOOLEAN
    BY <1>1, <1>2
  <2> QED
    BY <1>1, <1>2, <1>3, <1>4, <2>1, <2>2 DEF CallType
<1>7. Formed'
  BY <1>1 DEF Done, Formed
<1>8. Where'
  <2>1. pc' = "idle" => len' = 0
    BY <1>4
  <2> QED
    BY <1>1, <2>1 DEF Where, UsbSteps, Over
<1>9. Progress' /\ Order'
  BY <1>1 DEF Progress, Order
<1>10. Written'
  <2>1. Len(sent) + len = Len(text) /\ (\A k \in 1..Len(sent) : sent[k].char # "cr")
    BY <1>1 DEF Done, Written
  <2>2. Len(sent') + len' = Len(text') /\ Len(sent') + len' <= Len(text')
    <3>1. Len(sent) + n + (len - n) = Len(text)
      BY <1>2, <2>1
    <3> QED
      BY <1>1, <1>2, <1>3, <3>1
  <2>3. \A k \in 1..Len(sent') :
           \/ k \in 1..Len(sent)
           \/ k - Len(sent) \in 1..n /\ Len(sent) + (k - Len(sent)) = k
    BY <1>2, <1>3
  <2>4. \A j \in Nat \ {0} : Byte(j) # "cr"
    BY <1>2 DEF Byte, Done, Formed
  <2>5. \A k \in 1..Len(sent') : sent'[k].char # "cr"
    <3> SUFFICES ASSUME NEW k \in 1..Len(sent') PROVE sent'[k].char # "cr"
      OBVIOUS
    <3>1. CASE k \in 1..Len(sent)
      BY <1>3, <2>1, <3>1
    <3>2. CASE k - Len(sent) \in 1..n /\ Len(sent) + (k - Len(sent)) = k
      <4>1. i + (k - Len(sent)) - 1 \in Nat \ {0}
        BY <1>2, <3>2
      <4>2. sent'[k].char = Byte(i + (k - Len(sent)) - 1)
        BY <1>3, <3>2
      <4> QED
        BY <2>4, <4>1, <4>2
    <3> QED
      BY <2>3, <3>1, <3>2
  <2>6. ASSUME ~skewed'
        PROVE  /\ pc' = "write" => i' = Len(sent') + 1
               /\ \A k \in 1..Len(sent') : sent'[k].at = k /\ sent'[k].char = pbuf[k]
    <3>1. ~skewed /\ (n = len \/ 2 * n = len)
      <4>1. ~skewed /\ ~(n < len /\ 2 * n # len)
        BY <1>1, <2>6, Zenon
      <4> QED
        BY <1>2, <4>1
    <3>2. i = Len(sent) + 1
          /\ \A k \in 1..Len(sent) : sent[k].at = k /\ sent[k].char = pbuf[k]
      BY <1>1, <3>1 DEF Done, Written
    <3>3. pc' = "write" => i' = Len(sent') + 1
      <4> SUFFICES ASSUME len' > 0 PROVE i' = Len(sent') + 1
        OBVIOUS
      <4>1. 2 * n = len /\ len' = n
        BY <1>2, <3>1
      <4>2. i' = i + n
        BY <4>1
      <4>3. i + n = (Len(sent) + n) + 1
        BY <1>2, <3>2
      <4> QED
        BY <1>3, <4>2, <4>3
    <3>4. ASSUME NEW k \in 1..Len(sent')
          PROVE  sent'[k].at = k /\ sent'[k].char = pbuf[k]
      <4>1. CASE k \in 1..Len(sent)
        BY <1>3, <3>2, <4>1
      <4>2. CASE k - Len(sent) \in 1..n /\ Len(sent) + (k - Len(sent)) = k
        <5>1. i + (k - Len(sent)) - 1 = k /\ k \in Nat /\ k <= Len(pbuf)
          BY <1>2, <1>3, <2>1, <3>2, <4>2
        <5>2. /\ sent'[k].at = i + (k - Len(sent)) - 1
              /\ sent'[k].char = Byte(i + (k - Len(sent)) - 1)
          BY <1>3, <4>2
        <5> QED
          BY <5>1, <5>2 DEF Byte
      <4> QED
        BY <2>3, <4>1, <4>2
    <3> QED
      BY <3>3, <3>4
  <2>7. ASSUME skewed'
        PROVE  \/ pc' = "write" /\ i' # Len(sent') + 1
               \/ ~InPlace'
    <3>1. CASE ~skewed
      <4>1. n < len /\ 2 * n # len
        BY <1>1, <2>7, <3>1, Zenon
      <4>2. i = Len(sent) + 1
        BY <1>1, <3>1 DEF Done, Written
      <4>3. pc' = "write" /\ i' # (Len(sent) + n) + 1
        BY <1>2, <4>1, <4>2
      <4> QED
        BY <1>3, <4>3
    <3>2. CASE skewed /\ i # Len(sent) + 1
      <4>1. Len(sent) + 1 \in 1..Len(sent') /\ 1 \in 1..n
        BY <1>2, <1>3
      <4>2. sent'[Len(sent) + 1].at = i
        BY <1>2, <1>3, <4>1
      <4> QED
        BY <3>2, <4>1, <4>2 DEF InPlace
    <3>3. CASE skewed /\ i = Len(sent) + 1
      <4>1. ~InPlace
        BY <1>1, <3>3 DEF Done, Written
      <4>2. PICK k \in 1..Len(sent) : sent[k].at # k
        BY <4>1 DEF InPlace
      <4>3. k \in 1..Len(sent') /\ sent'[k].at # k
        BY <1>2, <1>3, <4>2
      <4> QED
        BY <4>3 DEF InPlace
    <3> QED
      BY <3>1, <3>2, <3>3
  <2> QED
    BY <1>1, <2>2, <2>5, <2>6, <2>7 DEF Written
<1> QED
  BY <1>5, <1>6, <1>7, <1>8, <1>9, <1>10 DEF Done

\* A client that has gone ends the loop.
LEMMA WriteFailsKeeps == IInv /\ WriteFails => IInv'
<1> SUFFICES ASSUME AroundType, Done, WriteFails PROVE AroundType' /\ Done'
  BY DEF IInv
<1>1. /\ UNCHANGED <<attached, fifo, others, peer, unread, ctx, pbuf, text, i,
                     len, sent, skewed>>
      /\ pc = "write" /\ pc' = "idle" /\ ctx = "tcp" /\ ctx' = "tcp"
      /\ ret' = -1 /\ cut' = TRUE
  BY DEF WriteFails, Step, host, client, call, Done, Where
<1>2. AroundType'
  BY <1>1 DEF AroundType
<1>3. CallType'
  <2>1. Len(text) \in Nat
    BY LenProperties, TextsAssumption DEF Done, CallType
  <2>2. ret' \in -1..Len(text')
    BY <1>1, <2>1
  <2> QED
    BY <1>1, <2>2 DEF Done, CallType
<1>4. Formed' /\ Where' /\ Progress' /\ Order'
  BY <1>1 DEF Done, Formed, Where, Progress, Order, UsbSteps, Over
<1>5. Written'
  <2>1. /\ Len(sent) + len <= Len(text)
        /\ \A k \in 1..Len(sent) : sent[k].char # "cr"
        /\ ~skewed => \A k \in 1..Len(sent) : sent[k].at = k /\ sent[k].char = pbuf[k]
    BY <1>1 DEF Done, Written
  <2> QED
    BY <1>1, <2>1 DEF Written
<1> QED
  BY <1>2, <1>3, <1>4, <1>5 DEF Done

-----------------------------------------------------------------------------
(* The theorems.                                                           *)

LEMMA Invariance == Spec => []IInv
<1>1. Init => IInv
  BY InitHolds
<1>2. IInv /\ [Next]_vars => IInv'
  <2> SUFFICES ASSUME IInv, [Next]_vars PROVE IInv'
    OBVIOUS
  <2>1. CASE UNCHANGED vars
    <3>1. AroundType'
      BY <2>1 DEF vars, host, client, IInv, AroundType
    <3>2. Done'
      BY <2>1, DoneStays DEF vars, call, IInv
    <3> QED
      BY <3>1, <3>2 DEF IInv
  <2>2. CASE Around
    BY <2>2, AroundKeeps
  <2>3. CASE PrintUsb \/ PrintTcp
    BY <2>3, PrintUsbKeeps, PrintTcpKeeps
  <2>4. CASE CheckReturn \/ TxTaken \/ TxWriteUsb
    BY <2>4, TestsKeep
  <2>5. CASE WriteReturn \/ CheckChar \/ WriteChar
    BY <2>5, WriteReturnKeeps, CheckCharKeeps, WriteCharKeeps
  <2>6. CASE Write \/ WriteFails
    BY <2>6, WriteKeeps, WriteFailsKeeps
  <2> QED
    BY <2>1, <2>2, <2>3, <2>4, <2>5, <2>6 DEF Next, Around, UsbLoop, TcpLoop
<1> QED
  BY <1>1, <1>2, PTL DEF Spec

\* No index, length or buffer of the printing shell leaves its range: on USB
\* the index never passes the end of the text by more than one.
THEOREM TypeCorrect == Spec => []TypeOK
<1>1. IInv => TypeOK
  BY DEF IInv, Done, AroundType, CallType, TypeOK, Entries
<1> QED
  BY <1>1, Invariance, PTL

\* The order of the characters, wherever they came from.
LEMMA OrderHolds == IInv => InOrder
<1> SUFFICES ASSUME IInv PROVE InOrder
  OBVIOUS
<1>1. CASE ctx = "usb"
  BY <1>1 DEF IInv, Done, Order, InOrder
<1>2. CASE ctx = "tcp"
  <2>1. ~skewed => InPlace
    BY <1>2 DEF IInv, Done, Written, InPlace
  <2> QED
    BY <1>2, <2>1 DEF InOrder
<1> QED
  BY <1>1, <1>2 DEF IInv, Done, CallType

\* What is due to the terminal for the first characters of the text.
LEMMA ExpandedIs ==
    ASSUME ctx = "usb", pbuf \in Seq(Characters), NEW s \in Seq({"x", "nl"}),
           Len(s) <= Len(pbuf), \A k \in 1..Len(s) : pbuf[k] = s[k]
    PROVE  Expanded(s) = Flat(Pieces, Len(s))
<1>1. Len(s) \in Nat /\ Len(pbuf) \in Nat
  BY LenProperties
<1>2. [k \in 1..Len(s) |-> IF s[k] = "nl" THEN <<"cr", "nl">> ELSE <<s[k]>>]
      = [k \in 1..Len(s) |-> Pieces[k]]
  BY <1>1 DEF Pieces
<1> QED
  BY <1>2 DEF Expanded, Flat

\* The definition of a prefix, by the members.
LEMMA PrefixBy ==
    ASSUME NEW s \in Seq(Characters), NEW t \in Seq(Characters),
           Len(s) <= Len(t), \A k \in 1..Len(s) : s[k] = t[k]
    PROVE  IsPrefix(s, t)
<1>1. Len(s) \in Nat /\ Len(t) \in Nat
  BY LenProperties
<1>2. SubSeq(s, 1, Len(s)) = s
  BY SubSeqFull
<1>3. /\ SubSeq(t, 1, Len(s)) \in Seq(Characters)
      /\ Len(SubSeq(t, 1, Len(s))) = Len(s)
      /\ \A k \in 1..Len(s) : SubSeq(t, 1, Len(s))[k] = t[k]
  <2>1. \A k \in 1..Len(s) : t[k] \in Characters
    BY <1>1, ElementOfSeq
  <2>2. /\ SubSeq(t, 1, Len(s)) \in Seq(Characters)
        /\ Len(SubSeq(t, 1, Len(s))) = IF 1 <= Len(s) THEN Len(s) - 1 + 1 ELSE 0
        /\ \A k \in 1..(Len(s) - 1 + 1) : SubSeq(t, 1, Len(s))[k] = t[1 + k - 1]
    BY <1>1, <2>1, SubSeqProperties
  <2> QED
    BY <1>1, <2>2
<1>4. SubSeq(t, 1, Len(s)) = s
  BY <1>3, SeqEqual
<1> QED
  BY <1>2, <1>4 DEF IsPrefix

\* What the buffer holds of the text, and what was taken of it.
LEMMA TextIs ==
    ASSUME IInv
    PROVE  /\ pbuf \in Seq(Characters) /\ Len(pbuf) = Len(text)
           /\ text \in Seq({"x", "nl"}) /\ Len(text) \in Nat /\ Limit \in Nat
           /\ \A k \in 1..Len(text) : /\ k <= Limit => pbuf[k] = text[k]
                                      /\ k = Limit + 1 => pbuf[k] = "nul"
           /\ Sent \in Seq(Characters) /\ Len(Sent) = Len(sent)
           /\ Len(sent) \in Nat
           /\ \A k \in 1..Len(sent) : Sent[k] = sent[k].char
<1>1. /\ pbuf \in Seq(Characters) /\ sent \in Seq(Entries)
      /\ text \in Seq({"x", "nl"}) /\ Len(pbuf) = Len(text) /\ Len(text) \in Nat
      /\ \A k \in 1..Len(text) : /\ k <= Limit => pbuf[k] = text[k]
                                 /\ k = Limit + 1 => pbuf[k] = "nul"
      /\ Limit \in Nat /\ Len(sent) \in Nat
  BY LenProperties, TextsAssumption, SizesAssumption
  DEF IInv, Done, CallType, Formed
<1> QED
  BY <1>1, SentType

\* Of a text that is too long.
LEMMA FormattedPart ==
    ASSUME IInv, Len(text) > Limit
    PROVE  /\ SubSeq(text, 1, Limit) \in Seq({"x", "nl"})
           /\ Len(SubSeq(text, 1, Limit)) = Limit
           /\ \A k \in 1..Limit : SubSeq(text, 1, Limit)[k] = pbuf[k]
           /\ pbuf[Limit + 1] = "nul"
<1>1. \A k \in 1..Limit : text[k] \in {"x", "nl"}
  BY TextIs, ElementOfSeq
<1>2. /\ SubSeq(text, 1, Limit) \in Seq({"x", "nl"})
      /\ Len(SubSeq(text, 1, Limit)) = IF 1 <= Limit THEN Limit - 1 + 1 ELSE 0
      /\ \A k \in 1..(Limit - 1 + 1) : SubSeq(text, 1, Limit)[k] = text[1 + k - 1]
  BY <1>1, TextIs, SubSeqProperties
<1>3. /\ SubSeq(text, 1, Limit) \in Seq({"x", "nl"})
      /\ Len(SubSeq(text, 1, Limit)) = Limit
      /\ \A k \in 1..Limit : SubSeq(text, 1, Limit)[k] = text[k]
  BY <1>2, TextIs
<1> QED
  BY <1>3, TextIs

\* A text that ends with the host still there.
LEMMA UsbHolds == IInv => WholeOnUsb
<1> SUFFICES ASSUME IInv, ctx = "usb", pc = "idle", ~cut
             PROVE  Count(Sent) = Len(text) /\ Delivered
  BY DEF WholeOnUsb
<1>1. i = Len(text) + 1 /\ i - 1 = Len(text) /\ ~Returned
  BY TextIs DEF IInv, Done, Where, Over, Returned
<1>2. Sent = Flat(Pieces, Len(text)) \o <<>> /\ Count(Sent) = Len(text)
  BY <1>1 DEF IInv, Done, Progress
<1>3. /\ \A k \in 1..Len(pbuf) : Pieces[k] \in Seq(Characters)
      /\ Flat(Pieces, Len(text)) \in Seq(Characters)
  BY TextIs, PiecesAre
<1>4. Sent = Flat(Pieces, Len(text))
  BY <1>2, <1>3, ConcatEmptySeq
<1>5. ASSUME Len(text) <= Limit PROVE Sent = Expanded(text)
  <2>1. \A k \in 1..Len(text) : pbuf[k] = text[k]
    BY <1>5, TextIs
  <2> QED
    BY <1>4, <2>1, TextIs, ExpandedIs
<1>6. ASSUME Len(text) > Limit
      PROVE  IsPrefix(Append(Expanded(SubSeq(text, 1, Limit)), "nul"), Sent)
  <2> DEFINE part == Flat(Pieces, Limit)
             start == Flat(Pieces, Limit + 1)
  <2>1. Expanded(SubSeq(text, 1, Limit)) = part
    <3> DEFINE s == SubSeq(text, 1, Limit)
    <3>1. s \in Seq({"x", "nl"}) /\ Len(s) = Limit /\ Len(s) <= Len(pbuf)
          /\ \A k \in 1..Len(s) : pbuf[k] = s[k]
      BY <1>6, TextIs, FormattedPart
    <3> HIDE DEF s
    <3>2. Expanded(s) = Flat(Pieces, Len(s))
      BY <3>1, TextIs, ExpandedIs
    <3> QED
      BY <3>1, <3>2 DEF s
  <2>2. /\ Limit \in 0..(Len(pbuf) - 1) /\ Limit \in 0..Len(pbuf)
        /\ Limit + 1 \in 0..Len(pbuf) /\ Len(pbuf) \in (Limit + 1)..Len(pbuf)
    BY <1>6, TextIs
  <2>3. part \in Seq(Characters) /\ start \in Seq(Characters)
        /\ start = part \o Pieces[Limit + 1]
    BY <2>2, TextIs, PiecesAre
  <2>4. Pieces[Limit + 1] = <<"nul">>
    BY <1>6, <2>2, TextIs, FormattedPart DEF Pieces
  <2>5. Append(part, "nul") = start
    <3> HIDE DEF part, start
    <3>1. Append(part, "nul") = part \o <<"nul">>
      BY <2>3, AppendIsConcat DEF Characters
    <3> QED
      BY <2>3, <2>4, <3>1
  <2>6. /\ Len(start) <= Len(Sent)
        /\ \A k \in 1..Len(start) : start[k] = Sent[k]
    <3>1. Begins(start, Flat(Pieces, Len(pbuf)))
      BY <1>3, <2>2, TextIs, FlatPrefix
    <3> HIDE DEF start
    <3> QED
      BY <1>4, <3>1, TextIs DEF Begins
  <2> HIDE DEF part, start
  <2>7. IsPrefix(start, Sent)
    BY <2>3, <2>6, TextIs, PrefixBy
  <2> QED
    BY <2>1, <2>5, <2>7
<1>7. CASE Len(text) <= Limit
  BY <1>2, <1>5, <1>7 DEF Delivered
<1>8. CASE ~(Len(text) <= Limit)
  <2>1. Len(text) > Limit
    BY <1>8, TextIs
  <2> QED
    BY <1>2, <1>6, <1>8, <2>1 DEF Delivered
<1> QED
  BY <1>7, <1>8

\* A text that ends with the client still there.
LEMMA TcpHolds == IInv => WholeOnTcp
<1> SUFFICES ASSUME IInv, ctx = "tcp", pc = "idle", ~cut
             PROVE  /\ Count(Sent) = Len(text)
                    /\ InPlace <=> ~skewed
                    /\ InPlace => Delivered
  BY DEF WholeOnTcp
<1>1. Len(Sent) = Len(text) /\ \A k \in 1..Len(Sent) : Sent[k] # "cr"
  <2>1. len = 0 /\ Len(sent) + len = Len(text)
        /\ \A k \in 1..Len(sent) : sent[k].char # "cr"
    BY DEF IInv, Done, Where, Over, Written
  <2> QED
    BY <2>1, TextIs
<1>2. Count(Sent) = Len(text)
  BY <1>1, TextIs, CountAll
<1>3. /\ skewed => ~InPlace
      /\ ~skewed => \A k \in 1..Len(sent) : sent[k].at = k /\ sent[k].char = pbuf[k]
  BY DEF IInv, Done, Written
<1>4. InPlace <=> ~skewed
  BY <1>3 DEF InPlace
<1>5. ASSUME InPlace PROVE Delivered
  <2>1. \A k \in 1..Len(text) : Sent[k] = pbuf[k]
    BY <1>1, <1>3, <1>5, TextIs
  <2>2. CASE Len(text) <= Limit
    <3>1. \A k \in 1..Len(text) : Sent[k] = text[k]
      BY <2>1, <2>2, TextIs
    <3>2. text \in Seq(Characters)
      BY TextIs, SeqMonotonic DEF Characters
    <3>3. Sent = text
      BY <1>1, <3>1, <3>2, TextIs, SeqEqual
    <3> QED
      BY <2>2, <3>3 DEF Delivered, Expanded
  <2>3. CASE ~(Len(text) <= Limit)
    <3> DEFINE s == SubSeq(text, 1, Limit)
               t == Append(s, "nul")
    <3>1. Len(text) > Limit
      BY <2>3, TextIs
    <3>2. s \in Seq({"x", "nl"}) /\ Len(s) = Limit /\ pbuf[Limit + 1] = "nul"
          /\ \A k \in 1..Limit : s[k] = pbuf[k]
      BY <3>1, FormattedPart
    <3>3. s \in Seq(Characters)
      BY <3>2 DEF Characters
    <3> HIDE DEF s
    <3>4. /\ t \in Seq(Characters) /\ Len(t) = Limit + 1 /\ t[Limit + 1] = "nul"
          /\ \A k \in 1..Limit : t[k] = s[k]
      BY <3>2, <3>3, AppendProperties DEF Characters
    <3> HIDE DEF t
    <3>5. Len(t) <= Len(Sent) /\ \A k \in 1..Len(t) : t[k] = Sent[k]
      <4>1. \A k \in 1..(Limit + 1) : k \in 1..Len(text) /\ (k \in 1..Limit \/ k = Limit + 1)
        BY <3>1, TextIs
      <4> QED
        BY <1>1, <2>1, <3>1, <3>2, <3>4, <4>1, TextIs
    <3>6. IsPrefix(t, Sent)
      BY <3>4, <3>5, TextIs, PrefixBy
    <3>7. Expanded(s) = s
      BY DEF Expanded
    <3> QED
      BY <2>3, <3>6, <3>7 DEF Delivered, s, t
  <2> QED
    BY <2>2, <2>3
<1> QED
  BY <1>2, <1>4, <1>5

\* A host that stays gets all of a text that fits the buffer, with a return
\* before each new line, and of a longer one what was formatted and then the NUL,
\* for any texts and any sizes of the two buffers, whoever else prints.
THEOREM UsbTextsArrive == Spec => []WholeOnUsb
<1>1. IInv => WholeOnUsb
  BY UsbHolds
<1> QED
  BY <1>1, Invariance, PTL

\* Besides, whoever reads misses characters only with the host gone, and gets
\* none twice or out of its place; over the network, for any window, a client
\* that stays gets as many characters as the text has, and those of the text
\* exactly when every write() took all or just half of what was left.
THEOREM TextsArrive == Spec => []TextArrives
<1>1. IInv => TextArrives
  BY UsbHolds, TcpHolds, OrderHolds DEF TextArrives
<1> QED
  BY <1>1, Invariance, PTL
-----------------------------------------------------------------------------
(* PingSession                                                             *)

InLoop == {"read", "iac", "answer", "stop"}
Busy == {"wait", "line", "sleep", "summary"}

\* There is a session exactly while the shell is in ping, and it runs while
\* the shell reads.
Lifetime ==
    /\ doing = "prompt" <=> session = "none"
    /\ doing = "start" => session = "idle"
    /\ doing \in InLoop => running
    /\ running => doing \in InLoop
    /\ doing \in InLoop => session \in {"wait", "line", "sleep"}

Waited ==
    doing = "grace" /\ session \in Busy /\ ~hampered => grace <= age

\* The shell's character is the last one read, if any was.
Character ==
    /\ heard # "nothing" => c = heard
    /\ doing = "start" => heard = "nothing"
    /\ doing = "read" => heard \notin {"intr", "iac"}
    /\ doing \in {"iac", "answer"} => heard \in {"nothing", "iac"}

PingInv ==
    /\ PingTypeOK
    /\ Lifetime
    /\ Waited
    /\ Character
    /\ QuietAtPrompt
    /\ EndsForAReason

\* The shell starts at its prompt, with no session.
LEMMA PingInitHolds == PingInit => PingInv
<1> USE TimesAssumption, InputAssumption DEF PingInit
<1>1. PingInit => PingTypeOK
  <2>1. <<>> \in Seq(Chars) /\ Len(<<>>) = 0
    OBVIOUS
  <2>2. PingInit => running \in BOOLEAN /\ deaf \in BOOLEAN /\ late \in BOOLEAN
                /\ hampered \in BOOLEAN
    BY Zenon
  <2>3. PingInit => age \in 0..Cycle /\ grace \in 0..Grace
    OBVIOUS
  <2> QED
    BY <2>1, <2>2, <2>3 DEF PingTypeOK, Chars, ShellSteps, SessionSteps
<1>2. PingInit => Lifetime /\ Waited /\ Character
  BY DEF Lifetime, Waited, Character, InLoop
<1>3. PingInit => QuietAtPrompt /\ EndsForAReason
  BY DEF QuietAtPrompt, EndsForAReason
<1> QED
  BY <1>1, <1>2, <1>3 DEF PingInv

\* Every step of the two tasks, the client and the clock preserves PingInv.
LEMMA PingStepPreserves == PingInv /\ [PingNext]_pingVars => PingInv'
<1> SUFFICES ASSUME PingInv, [PingNext]_pingVars PROVE PingInv'
  OBVIOUS
<1> USE TimesAssumption, InputAssumption
    DEF PingInv, PingTypeOK, Lifetime, Waited, Character, QuietAtPrompt,
        EndsForAReason, InLoop, Busy, ShellSteps, SessionSteps,
        typist, shell, pinger
<1>1. ASSUME NEW ch \in Chars, Type(ch) PROVE PingInv'
  BY <1>1 DEF Type
<1>2. CASE Reset
  BY <1>2 DEF Reset
<1>3. CASE Listen
  BY <1>3 DEF Listen
<1>4. CASE Tick
  BY <1>4 DEF Tick, Printing, CanPrint
<1>5. CASE PingAnswers
  BY <1>5 DEF PingAnswers
<1>6. CASE OnPingLine
  BY <1>6 DEF OnPingLine
<1>7. CASE NextPing
  BY <1>7 DEF NextPing
<1>8. CASE OnPingEnd
  BY <1>8 DEF OnPingEnd
<1>9. CASE OnPingLate
  BY <1>9 DEF OnPingLate
<1>10. CASE Process
  <2>1. <<>> \in Seq(Chars) /\ Len(<<>>) = 0
    OBVIOUS
  <2> QED
    BY <1>10, <2>1 DEF Process
<1>11. CASE Ping
  BY <1>11 DEF Ping
<1>12. CASE StartPing
  BY <1>12 DEF StartPing
<1>13. CASE StartFails
  BY <1>13 DEF StartFails
<1>14. CASE ReadChar
  BY <1>14 DEF ReadChar, Tested, Chars
<1>15. CASE ReadNothing
  BY <1>15 DEF ReadNothing, Tested
<1>16. CASE ReadFails
  BY <1>16 DEF ReadFails
<1>17. CASE ReadIac
  <2>1. input # <<>> => Tail(input) \in Seq(Chars) /\ Len(Tail(input)) <= MaxInput
    BY DEF PingInv, PingTypeOK
  <2> QED
    BY <1>17, <2>1 DEF ReadIac
<1>18. CASE AnswerIac
  BY <1>18 DEF AnswerIac
<1>19. CASE StopPing
  <2>1. PingTypeOK'
    <3>1. running' \in BOOLEAN
      BY <1>19, Zenon DEF StopPing
    <3> QED
      BY <1>19, <3>1 DEF StopPing
  <2>2. Lifetime'
    BY <1>19 DEF StopPing
  <2>3. Waited' /\ Character'
    BY <1>19 DEF StopPing
  <2>4. QuietAtPrompt' /\ EndsForAReason'
    BY <1>19 DEF StopPing
  <2> QED
    BY <2>1, <2>2, <2>3, <2>4
<1>20. CASE DeletePing
  BY <1>20 DEF DeletePing
<1>21. CASE UNCHANGED pingVars
  BY <1>21 DEF pingVars
<1> QED
  BY <1>1, <1>2, <1>3, <1>4, <1>5, <1>6, <1>7, <1>8, <1>9, <1>10, <1>11,
     <1>12, <1>13, <1>14, <1>15, <1>16, <1>17, <1>18, <1>19, <1>20, <1>21
  DEF PingNext, Pinger, Foreground

\* The inductive invariant holds of every behaviour of ping and its session.
THEOREM PingInvariance == PingSpec => []PingInv
BY PingInitHolds, PingStepPreserves, PTL DEF PingSpec

\* The shell's steps, the session's and the clocks stay in their ranges.
THEOREM PingTypeCorrect == PingSpec => []PingTypeOK
<1>1. PingInv => PingTypeOK
  BY DEF PingInv
<1> QED
  BY <1>1, PingInvariance, PTL

\* The delay before the deletion outlasts the session, whatever the times, as
\* long as a turn of esp_ping is shorter.
THEOREM GraceSuffices == PingSpec => []QuietAtPrompt
<1>1. PingInv => QuietAtPrompt
  BY DEF PingInv
<1> QED
  BY <1>1, PingInvariance, PTL

\* Only the client ends a ping, once a character was read.
THEOREM OnlyTheClientEnds == PingSpec => []EndsForAReason
<1>1. PingInv => EndsForAReason
  BY DEF PingInv
<1> QED
  BY <1>1, PingInvariance, PTL
=============================================================================
