------------------------- MODULE RsaSession_agreement -------------------------
(***************************************************************************)
(* Two open sessions use one key: SessionKeyAgreement, for any number of   *)
(* exchanges, commands, losses and keys, if the messenger repeats no       *)
(* message (RsaSession_repeated.cfg is what happens if it does).           *)
(*                                                                         *)
(* A contact is reduced to its view (View) and what it does to eight moves *)
(* (Quiet ... LearnKey).  First: each move keeps the invariant (Agreed).   *)
(* Then: each action of RsaSession but Duplicate is one of the moves.      *)
(***************************************************************************)
EXTENDS RsaSession_proofs, SequenceTheorems

-----------------------------------------------------------------------------
(* What a sequence of messages contains, and in which order.               *)

Has(s, F) == \E i \in DOMAIN s : s[i] \in F

\* No message of F comes before one of G.
Apart(s, F, G) == \A i, j \in DOMAIN s : i < j /\ s[i] \in F => s[j] \notin G

\* t is s with some messages left out.
Within(t, s) == \E f \in [DOMAIN t -> DOMAIN s] :
    /\ \A i \in DOMAIN t : t[i] = s[f[i]]
    /\ \A i, j \in DOMAIN t : i < j => f[i] < f[j]

LEMMA WithinKeeps ==
    ASSUME NEW t, NEW s, Within(t, s)
    PROVE  /\ \A F : Has(t, F) => Has(s, F)
           /\ \A F, G : Apart(s, F, G) => Apart(t, F, G)
  <1>1. PICK f \in [DOMAIN t -> DOMAIN s] :
            /\ \A i \in DOMAIN t : t[i] = s[f[i]]
            /\ \A i, j \in DOMAIN t : i < j => f[i] < f[j]
    BY DEF Within
  <1>2. \A i \in DOMAIN t : f[i] \in DOMAIN s
    OBVIOUS
  <1>3. \A F : Has(t, F) => Has(s, F)
    BY <1>1, <1>2 DEF Has
  <1>4. ASSUME NEW F, NEW G, Apart(s, F, G) PROVE Apart(t, F, G)
    BY <1>1, <1>2, <1>4 DEF Apart
  <1>. QED  BY <1>3, <1>4

LEMMA WithinBasic ==
    ASSUME NEW S, NEW s \in Seq(S)
    PROVE  Within(s, s) /\ Within(<<>>, s)
  <1>1. DOMAIN s = 1 .. Len(s) /\ Len(s) \in Nat /\ DOMAIN <<>> = {}
    BY LenProperties
  <1>2. Within(s, s)
    <2>. DEFINE f == [i \in DOMAIN s |-> i]
    <2>1. f \in [DOMAIN s -> DOMAIN s] /\ \A i \in DOMAIN s : f[i] = i
      OBVIOUS
    <2>. HIDE DEF f
    <2>. QED  BY <2>1 DEF Within
  <1>3. Within(<<>>, s)
    <2>. DEFINE f == [i \in DOMAIN <<>> |-> 1]
    <2>1. f \in [DOMAIN <<>> -> DOMAIN s]
      BY <1>1
    <2>. HIDE DEF f
    <2>. QED  BY <1>1, <2>1 DEF Within
  <1>. QED  BY <1>2, <1>3

LEMMA EmptyHas ==
    /\ \A F : ~Has(<<>>, F)
    /\ \A F, G : Apart(<<>>, F, G)
    /\ \A S : \A s \in Seq(S) : ~Has(s, S) => s = <<>>
  <1>1. ASSUME NEW S, NEW s \in Seq(S), ~Has(s, S) PROVE s = <<>>
    <2>1. DOMAIN s = 1 .. Len(s) /\ Len(s) \in Nat /\ \A i \in 1 .. Len(s) : s[i] \in S
      BY LenProperties, ElementOfSeq
    <2>2. Len(s) = 0
      BY <1>1, <2>1 DEF Has
    <2>. QED  BY <2>2, EmptySeq
  <1>. QED  BY <1>1 DEF Has, Apart

LEMMA Absent ==
    ASSUME NEW s, NEW F, ~Has(s, F)
    PROVE  \A G : Apart(s, F, G) /\ Apart(s, G, F)
  BY DEF Has, Apart

LEMMA Appended ==
    ASSUME NEW S, NEW s \in Seq(S), NEW m \in S
    PROVE  /\ Append(s, m) \in Seq(S)
           /\ \A F : Has(Append(s, m), F) <=> Has(s, F) \/ m \in F
           /\ \A F, G : Apart(Append(s, m), F, G) <=>
                 Apart(s, F, G) /\ ~(Has(s, F) /\ m \in G)
  <1>. DEFINE t == Append(s, m)
              n == Len(s) + 1
  <1>1. DOMAIN s = 1 .. Len(s) /\ Len(s) \in Nat
    BY LenProperties
  <1>2. /\ t \in Seq(S) /\ Len(t) = n /\ t[n] = m
        /\ \A i \in 1 .. Len(s) : t[i] = s[i]
    BY AppendProperties
  <1>3. DOMAIN t = 1 .. n
    BY <1>2, LenProperties
  <1>. HIDE DEF t
  <1>4. /\ n \in DOMAIN t /\ \A i \in DOMAIN s : i \in DOMAIN t /\ i < n
        /\ \A i \in DOMAIN t : i \in DOMAIN s \/ i = n
        /\ ~(n < n)
    BY <1>1, <1>3
  <1>5. \A i \in DOMAIN s : t[i] = s[i]
    BY <1>1, <1>2
  <1>6. \A i \in DOMAIN s : ~(n < i)
    BY <1>1
  <1>. HIDE DEF n
  <1>7. \A F : Has(t, F) <=> Has(s, F) \/ m \in F
    BY <1>2, <1>4, <1>5 DEF Has
  <1>8. ASSUME NEW F, NEW G PROVE Apart(t, F, G) <=> Apart(s, F, G) /\ ~(Has(s, F) /\ m \in G)
    <2>1. Apart(t, F, G) => Apart(s, F, G) /\ ~(Has(s, F) /\ m \in G)
      BY <1>2, <1>4, <1>5 DEF Apart, Has
    <2>2. ASSUME Apart(s, F, G), ~(Has(s, F) /\ m \in G) PROVE Apart(t, F, G)
      <3>1. SUFFICES ASSUME NEW i \in DOMAIN t, NEW j \in DOMAIN t, i < j, t[i] \in F
                     PROVE  t[j] \notin G
        BY DEF Apart
      <3>2. i \in DOMAIN s
        BY <1>4, <1>6, <3>1
      <3>3. CASE j \in DOMAIN s
        BY <1>5, <2>2, <3>1, <3>2, <3>3 DEF Apart
      <3>4. CASE j = n
        BY <1>2, <1>5, <2>2, <3>1, <3>2, <3>4 DEF Has
      <3>. QED  BY <1>4, <3>3, <3>4
    <2>. QED  BY <2>1, <2>2
  <1>. QED  BY <1>2, <1>7, <1>8 DEF t

LEMMA FirstOf ==
    ASSUME NEW S, NEW s \in Seq(S), s # <<>>
    PROVE  /\ Head(s) \in S /\ Tail(s) \in Seq(S)
           /\ Within(Tail(s), s)
           /\ \A F : Has(s, F) <=> Head(s) \in F \/ Has(Tail(s), F)
           /\ \A F, G : Apart(s, F, G) /\ Head(s) \in F => ~Has(Tail(s), G)
  <1>. DEFINE t == Tail(s)
  <1>1. DOMAIN s = 1 .. Len(s) /\ Len(s) \in Nat /\ Len(s) # 0
    BY LenProperties, EmptySeq
  <1>2. /\ Head(s) \in S /\ t \in Seq(S) /\ Len(t) = Len(s) - 1
        /\ \A i \in 1 .. Len(t) : t[i] = s[i + 1]
        /\ Head(s) = s[1]
    BY HeadTailProperties
  <1>3. DOMAIN t = 1 .. Len(s) - 1
    BY <1>2, LenProperties
  <1>. HIDE DEF t
  <1>4. /\ 1 \in DOMAIN s
        /\ \A i \in DOMAIN t : i + 1 \in DOMAIN s /\ t[i] = s[i + 1] /\ 1 < i + 1
        /\ \A i \in DOMAIN s : i = 1 \/ (i - 1 \in DOMAIN t /\ t[i - 1] = s[i])
    BY <1>1, <1>2, <1>3
  <1>5. Within(t, s)
    <2>. DEFINE f == [i \in DOMAIN t |-> i + 1]
    <2>1. /\ f \in [DOMAIN t -> DOMAIN s]
          /\ \A i \in DOMAIN t : t[i] = s[f[i]]
      BY <1>4
    <2>2. \A i, j \in DOMAIN t : i < j => f[i] < f[j]
      BY <1>3
    <2>. HIDE DEF f
    <2>. QED  BY <2>1, <2>2 DEF Within
  <1>6. \A F : Has(s, F) <=> Head(s) \in F \/ Has(t, F)
    <2>. TAKE F
    <2>1. Has(s, F) => Head(s) \in F \/ Has(t, F)
      BY <1>2, <1>4 DEF Has
    <2>2. Head(s) \in F \/ Has(t, F) => Has(s, F)
      BY <1>2, <1>4 DEF Has
    <2>. QED  BY <2>1, <2>2
  <1>7. \A F, G : Apart(s, F, G) /\ Head(s) \in F => ~Has(t, G)
    BY <1>2, <1>4 DEF Apart, Has
  <1>. QED  BY <1>2, <1>5, <1>6, <1>7 DEF t

LEMMA Joined ==
    ASSUME NEW S, NEW q \in Seq(S), NEW n \in Seq(S)
    PROVE  /\ q \o n \in Seq(S) /\ Within(n, q \o n)
           /\ \A F : Has(q \o n, F) <=> Has(q, F) \/ Has(n, F)
           /\ \A F, G : Apart(q \o n, F, G) => ~(Has(q, F) /\ Has(n, G))
  <1>. DEFINE t == q \o n
              l == Len(q)
  <1>1. DOMAIN q = 1 .. l /\ DOMAIN n = 1 .. Len(n) /\ l \in Nat /\ Len(n) \in Nat
    BY LenProperties
  <1>2. /\ t \in Seq(S) /\ Len(t) = l + Len(n)
        /\ \A i \in 1 .. l + Len(n) : t[i] = IF i <= l THEN q[i] ELSE n[i - l]
    BY ConcatProperties
  <1>3. DOMAIN t = 1 .. l + Len(n)
    BY <1>2, LenProperties
  <1>. HIDE DEF t, l
  <1>4. /\ \A i \in DOMAIN q : i \in DOMAIN t /\ t[i] = q[i]
        /\ \A i \in DOMAIN n : l + i \in DOMAIN t /\ t[l + i] = n[i]
        /\ \A i \in DOMAIN t : i \in DOMAIN q \/ (i - l \in DOMAIN n /\ t[i] = n[i - l])
        /\ \A i \in DOMAIN q : \A j \in DOMAIN n : i < l + j
    BY <1>1, <1>2, <1>3
  <1>5. Within(n, t)
    <2>. DEFINE f == [i \in DOMAIN n |-> l + i]
    <2>1. /\ f \in [DOMAIN n -> DOMAIN t]
          /\ \A i \in DOMAIN n : n[i] = t[f[i]]
      BY <1>4
    <2>2. \A i, j \in DOMAIN n : i < j => f[i] < f[j]
      BY <1>1
    <2>. HIDE DEF f
    <2>. QED  BY <2>1, <2>2 DEF Within
  <1>6. \A F : Has(t, F) <=> Has(q, F) \/ Has(n, F)
    <2>. TAKE F
    <2>1. Has(t, F) => Has(q, F) \/ Has(n, F)
      BY <1>4 DEF Has
    <2>2. Has(q, F) \/ Has(n, F) => Has(t, F)
      BY <1>4 DEF Has
    <2>. QED  BY <2>1, <2>2
  <1>7. ASSUME NEW F, NEW G, Apart(t, F, G) PROVE ~(Has(q, F) /\ Has(n, G))
    <2>1. SUFFICES ASSUME NEW i \in DOMAIN q, q[i] \in F, NEW j \in DOMAIN n, n[j] \in G PROVE FALSE
      BY DEF Has
    <2>2. /\ i \in DOMAIN t /\ t[i] \in F
          /\ l + j \in DOMAIN t /\ t[l + j] \in G /\ i < l + j
      BY <1>4, <2>1
    <2>. QED  BY <1>7, <2>2 DEF Apart
  <1>. QED  BY <1>2, <1>5, <1>6, <1>7 DEF t

LEMMA PipeChanges ==
    ASSUME NEW q \in Seq(Message), NEW n \in Seq(Message), NEW m \in Message
    PROVE  /\ Within(<<>> \o n, q \o n)
           /\ q \o Append(n, m) = Append(q \o n, m)
           /\ q # <<>> => /\ Head(q \o n) = Head(q) /\ q \o n # <<>>
                          /\ Tail(q \o n) = Tail(q) \o n
           /\ n # <<>> => /\ Within(q \o Tail(n), q \o n)
                          /\ Within(<<>> \o Tail(n), q \o n)
                          /\ Append(q, Head(n)) \o Tail(n) = q \o n
  <1>1. /\ <<>> \o n = n /\ q \o n \in Seq(Message) /\ Within(n, q \o n)
    BY ConcatEmptySeq, Joined
  <1>2. q \o Append(n, m) = Append(q \o n, m)
    <2>1. /\ Append(n, m) = n \o <<m>> /\ Append(q \o n, m) = (q \o n) \o <<m>>
          /\ <<m>> \in Seq(Message)
      BY <1>1, AppendIsConcat
    <2>. QED  BY <2>1, ConcatAssociative
  <1>3. ASSUME q # <<>>
        PROVE  /\ Head(q \o n) = Head(q) /\ q \o n # <<>>
               /\ Tail(q \o n) = Tail(q) \o n
    <2>. DEFINE l == Len(q)
                t == Tail(q)
    <2>1. l \in Nat \ {0} /\ Len(n) \in Nat
      BY <1>3, LenProperties, EmptySeq
    <2>2. /\ t \in Seq(Message) /\ Len(t) = l - 1 /\ \A i \in 1 .. l - 1 : t[i] = q[i + 1]
      BY <1>3, HeadTailProperties
    <2>3. /\ q \o n # <<>> /\ Len(q \o n) = l + Len(n)
          /\ \A i \in 1 .. l + Len(n) : (q \o n)[i] = IF i <= l THEN q[i] ELSE n[i - l]
      BY <1>3, ConcatEqualIffEmpty, ConcatProperties
    <2>4. /\ Tail(q \o n) \in Seq(Message) /\ Len(Tail(q \o n)) = l + Len(n) - 1
          /\ \A i \in 1 .. l + Len(n) - 1 : Tail(q \o n)[i] = (q \o n)[i + 1]
      BY <1>1, <2>3, HeadTailProperties
    <2>5. /\ t \o n \in Seq(Message) /\ Len(t \o n) = l - 1 + Len(n)
          /\ \A i \in 1 .. l - 1 + Len(n) :
                (t \o n)[i] = IF i <= l - 1 THEN t[i] ELSE n[i - (l - 1)]
      <3>1. /\ t \o n \in Seq(Message) /\ Len(t \o n) = Len(t) + Len(n)
            /\ \A i \in 1 .. Len(t) + Len(n) :
                  (t \o n)[i] = IF i <= Len(t) THEN t[i] ELSE n[i - Len(t)]
        BY <2>2, ConcatProperties
      <3>. QED  BY <2>2, <3>1
    <2>6. Head(q \o n) = (q \o n)[1] /\ Head(q) = q[1]
      BY <1>1, <1>3
    <2>. HIDE DEF l, t
    <2>7. Head(q \o n) = Head(q)
      BY <2>1, <2>3, <2>6
    <2>8. Len(Tail(q \o n)) = Len(t \o n)
      BY <2>1, <2>4, <2>5
    <2>9. ASSUME NEW i \in 1 .. l + Len(n) - 1 PROVE Tail(q \o n)[i] = (t \o n)[i]
      <3>1. i + 1 \in 1 .. l + Len(n) /\ i \in 1 .. l - 1 + Len(n)
        BY <2>1
      <3>2. CASE i <= l - 1
        BY <2>1, <2>2, <2>3, <2>4, <2>5, <3>1, <3>2
      <3>3. CASE ~(i <= l - 1)
        <4>1. ~(i + 1 <= l) /\ i + 1 - l = i - (l - 1)
          BY <2>1, <3>3
        <4>. DEFINE j == i + 1
        <4>2. (q \o n)[j] = n[j - l]
          <5>1. j \in 1 .. l + Len(n) /\ ~(j <= l)
            BY <3>1, <4>1
          <5>. HIDE DEF j
          <5>. QED  BY <2>3, <5>1
        <4>3. (t \o n)[i] = n[i - (l - 1)]
          BY <2>5, <3>1, <3>3
        <4>4. j - l = i - (l - 1)
          BY <2>1
        <4>5. Tail(q \o n)[i] = (q \o n)[j]
          BY <2>1, <2>4
        <4>. HIDE DEF j
        <4>. QED  BY <4>2, <4>3, <4>4, <4>5
      <3>. QED  BY <3>2, <3>3
    <2>10. Tail(q \o n) = t \o n
      BY <2>4, <2>5, <2>8, <2>9, SeqEqual
    <2>. QED  BY <2>3, <2>7, <2>10 DEF t
  <1>4. ASSUME n # <<>>
        PROVE  /\ Within(q \o Tail(n), q \o n)
               /\ Within(<<>> \o Tail(n), q \o n)
               /\ Append(q, Head(n)) \o Tail(n) = q \o n
    <2>. DEFINE t == Tail(n)
                l == Len(q)
    <2>1. /\ Head(n) \in Message /\ t \in Seq(Message) /\ Within(t, n)
          /\ Len(t) = Len(n) - 1 /\ \A i \in 1 .. Len(t) : t[i] = n[i + 1]
          /\ Head(n) = n[1]
      BY <1>4, FirstOf, HeadTailProperties
    <2>2. l \in Nat /\ Len(n) \in Nat \ {0}
      BY <1>4, LenProperties, EmptySeq
    <2>3. /\ DOMAIN (q \o n) = 1 .. l + Len(n)
          /\ Len(q \o n) = l + Len(n)
          /\ \A i \in 1 .. l + Len(n) : (q \o n)[i] = IF i <= l THEN q[i] ELSE n[i - l]
      BY <1>1, ConcatProperties, LenProperties
    <2>4. /\ q \o t \in Seq(Message) /\ DOMAIN (q \o t) = 1 .. l + Len(t)
          /\ \A i \in 1 .. l + Len(t) : (q \o t)[i] = IF i <= l THEN q[i] ELSE t[i - l]
      BY <2>1, ConcatProperties, LenProperties
    <2>5. <<>> \o t = t
      BY <2>1, ConcatEmptySeq
    <2>6. Append(q, Head(n)) \o t = q \o n
      <3>. DEFINE a == Append(q, Head(n))
      <3>1. /\ a \in Seq(Message) /\ Len(a) = l + 1
            /\ \A i \in 1 .. l : a[i] = q[i]
            /\ a[l + 1] = n[1]
        BY <2>1, AppendProperties
      <3>2. /\ a \o t \in Seq(Message) /\ Len(a \o t) = l + 1 + Len(t)
            /\ \A i \in 1 .. l + 1 + Len(t) :
                  (a \o t)[i] = IF i <= l + 1 THEN a[i] ELSE t[i - (l + 1)]
        <4>. HIDE DEF a, t
        <4>1. /\ a \o t \in Seq(Message) /\ Len(a \o t) = Len(a) + Len(t)
              /\ \A i \in 1 .. Len(a) + Len(t) :
                    (a \o t)[i] = IF i <= Len(a) THEN a[i] ELSE t[i - Len(a)]
          BY <2>1, <3>1, ConcatProperties
        <4>. QED  BY <3>1, <4>1
      <3>. HIDE DEF a, t, l
      <3>3. Len(a \o t) = Len(q \o n)
        BY <2>1, <2>2, <2>3, <3>2
      <3>4. ASSUME NEW i \in 1 .. l + Len(n) PROVE (a \o t)[i] = (q \o n)[i]
        <4>0. i \in 1 .. l + 1 + Len(t)
          BY <2>1, <2>2
        <4>1. CASE i <= l
          BY <2>2, <2>3, <3>1, <3>2, <4>0, <4>1
        <4>2. CASE i = l + 1
          BY <2>2, <2>3, <3>1, <3>2, <4>0, <4>2
        <4>3. CASE ~(i <= l + 1)
          <5>1. /\ i - (l + 1) \in 1 .. Len(t) /\ i - (l + 1) + 1 = i - l
                /\ ~(i <= l + 1) /\ ~(i <= l)
            BY <2>1, <2>2, <4>3
          <5>2. (a \o t)[i] = t[i - (l + 1)] /\ t[i - (l + 1)] = n[i - (l + 1) + 1]
            BY <2>1, <3>2, <4>0, <5>1
          <5>3. (q \o n)[i] = n[i - l]
            BY <2>3, <5>1
          <5>. QED  BY <5>1, <5>2, <5>3
        <4>4. i <= l \/ i = l + 1 \/ ~(i <= l + 1)
          BY <2>2
        <4>. QED  BY <4>1, <4>2, <4>3, <4>4
      <3>. QED  BY <1>1, <2>3, <3>2, <3>3, <3>4, SeqEqual DEF a
    <2>7. Within(q \o t, q \o n)
      <3>. DEFINE f == [i \in DOMAIN (q \o t) |-> IF i <= l THEN i ELSE i + 1]
      <3>. HIDE DEF t, l
      <3>1. ASSUME NEW i \in DOMAIN (q \o t)
            PROVE  f[i] \in DOMAIN (q \o n) /\ (q \o t)[i] = (q \o n)[f[i]]
        <4>1. CASE i <= l
          BY <2>1, <2>2, <2>3, <2>4, <4>1
        <4>2. CASE ~(i <= l)
          <5>1. /\ f[i] = i + 1 /\ i + 1 \in 1 .. l + Len(n) /\ ~(i + 1 <= l)
                /\ i - l \in 1 .. Len(t) /\ i - l + 1 = i + 1 - l
            BY <2>1, <2>2, <2>4, <4>2
          <5>2. (q \o t)[i] = t[i - l] /\ t[i - l] = n[i - l + 1]
            BY <2>1, <2>4, <4>2, <5>1
          <5>. DEFINE j == i + 1
          <5>3. (q \o n)[j] = n[j - l]
            <6>1. j \in 1 .. l + Len(n) /\ ~(j <= l)
              BY <5>1
            <6>. HIDE DEF j
            <6>. QED  BY <2>3, <6>1
          <5>4. f[i] = j /\ j \in DOMAIN (q \o n) /\ j - l = i - l + 1
            <6>1. f[i] = j /\ j \in 1 .. l + Len(n)
              BY <5>1
            <6>2. i \in Int /\ l \in Int
              BY <2>2, <2>4
            <6>3. j - l = i - l + 1
              BY <6>2
            <6>. QED  BY <2>3, <6>1, <6>3
          <5>. HIDE DEF j, f
          <5>. QED  BY <5>2, <5>3, <5>4
        <4>. QED  BY <4>1, <4>2
      <3>2. \A i, j \in DOMAIN (q \o t) : i < j => f[i] < f[j]
        BY <2>1, <2>2, <2>4
      <3>3. f \in [DOMAIN (q \o t) -> DOMAIN (q \o n)]
        BY <3>1
      <3>. HIDE DEF f
      <3>. QED  BY <3>1, <3>2, <3>3 DEF Within
    <2>8. Within(t, q \o n)
      <3>1. PICK f \in [DOMAIN t -> DOMAIN n] :
                /\ \A i \in DOMAIN t : t[i] = n[f[i]]
                /\ \A i, j \in DOMAIN t : i < j => f[i] < f[j]
        BY <2>1 DEF Within
      <3>2. PICK g \in [DOMAIN n -> DOMAIN (q \o n)] :
                /\ \A i \in DOMAIN n : n[i] = (q \o n)[g[i]]
                /\ \A i, j \in DOMAIN n : i < j => g[i] < g[j]
        BY <1>1 DEF Within
      <3>. DEFINE h == [i \in DOMAIN t |-> g[f[i]]]
      <3>3. /\ h \in [DOMAIN t -> DOMAIN (q \o n)]
            /\ \A i \in DOMAIN t : t[i] = (q \o n)[h[i]]
            /\ \A i, j \in DOMAIN t : i < j => h[i] < h[j]
        <4>. HIDE DEF t
        <4>. QED  BY <3>1, <3>2
      <3>. HIDE DEF h, t
      <3>. QED  BY <3>3 DEF Within
    <2>. QED  BY <2>5, <2>6, <2>7, <2>8
  <1>. QED  BY <1>1, <1>2, <1>3, <1>4

-----------------------------------------------------------------------------
(* A contact as the proof sees it: where its window thread is, the state   *)
(* and the AES key of its context, the messages its worker and its window  *)
(* thread have still to handle, and the public key it would use for the    *)
(* other contact.                                                          *)

Pub(e) == IF uin[e].cntx THEN pdata[e].pub_k ELSE uin[e].rsa_pub

View(e) == [name |-> e, state |-> pdata[e].state, key |-> pdata[e].aes_k,
            main |-> main[e], queue |-> pdata[e].queue, net |-> net[e], pub |-> Pub(e)]

IsView(v) ==
    /\ v.queue \in Seq(Message) /\ v.net \in Seq(Message)
    /\ v.key \in Nat /\ v.state \in {0, 2, 3, 4, 5, 6, 7}
    /\ v.main \in {"idle", "reply", "accept", "join"}

Pipe(v) == v.queue \o v.net
Still(v) == v.main \in {"idle", "join"}

(* Sets of messages. *)
Typed(T) == {m \in Message : m.type \in T}
Offers   == Typed({"21"})
Refresh  == Typed({"22"})
Closing  == Typed({"60"})
Restart  == Typed({"10", "23", "24"})
Late     == Typed({"10", "23", "24", "60"})
Beyond   == {m \in Message : m.type \notin {"21", "22"}}
KnownTo(e)  == {m \in Message : m.type = "10" /\ m.peer = e}
Stranger(e) == {m \in Message : m.type = "10" /\ m.peer # e}
Forged(e)   == {m \in Message : m.type \in {"10", "22", "24", "33", "34"} /\ m.own # e}
KeyMsg(k)   == {m \in Message : m.type \in {"21", "32", "40"} /\ m.aes = k}
OfferOf(k)  == {m \in Message : m.type = "21" /\ m.aes = k}
UpTo(k)     == {m \in Message : m.type = "21" /\ m.aes <= k}
Above(k)    == {m \in Message : m.type = "21" /\ m.aes > k}
Test(k)     == {m \in Message : m.type = "50" /\ m.aes = k}
CloseWith(k) == {m \in Message : m.type = "60" /\ m.aes = k}
Newer(k)    == {m \in Message : m.aes > k}

LEMMA MessageSets ==
    ASSUME NEW s \in Seq(Message)
    PROVE  /\ Has(s, Closing) => Has(s, Late)
           /\ Has(s, Restart) => Has(s, Late)
           /\ Has(s, Late) => Has(s, Closing) \/ Has(s, Restart)
           /\ \A k \in Nat :
                /\ Has(s, OfferOf(k)) => Has(s, Offers) /\ Has(s, KeyMsg(k))
                /\ Has(s, CloseWith(k)) => Has(s, Closing)
                /\ Has(s, Refresh) \/ Has(s, Beyond) \/ Has(s, UpTo(k)) \/ Has(s, Above(k))
                   \/ s = <<>>
                /\ \A last \in Nat :
                      /\ Has(s, OfferOf(k)) \/ Has(s, KeyMsg(k)) \/ Has(s, Test(k))
                         \/ Has(s, CloseWith(k))
                            => k <= last \/ Has(s, Newer(last))
                      /\ Has(s, Above(k)) => k < last \/ Has(s, Newer(last))
                      /\ Has(s, Newer(k)) /\ last <= k => Has(s, Newer(last))
  <1>1. \A i \in DOMAIN s : s[i] \in Message
    <2>1. DOMAIN s = 1 .. Len(s) /\ \A i \in 1 .. Len(s) : s[i] \in Message
      BY LenProperties, ElementOfSeq
    <2>. QED  BY <2>1
  <1>2. /\ Has(s, Closing) => Has(s, Late)
        /\ Has(s, Restart) => Has(s, Late)
        /\ Has(s, Late) => Has(s, Closing) \/ Has(s, Restart)
    BY DEF Has, Closing, Restart, Late, Typed
  <1>3. ASSUME NEW k \in Nat
        PROVE  /\ Has(s, OfferOf(k)) => Has(s, Offers) /\ Has(s, KeyMsg(k))
               /\ Has(s, CloseWith(k)) => Has(s, Closing)
    BY DEF Has, OfferOf, Offers, KeyMsg, CloseWith, Closing, Typed
  <1>4. ASSUME NEW k \in Nat, s # <<>>
        PROVE  Has(s, Refresh) \/ Has(s, Beyond) \/ Has(s, UpTo(k)) \/ Has(s, Above(k))
    <2>1. Has(s, Message)
      BY <1>4, EmptyHas
    <2>2. PICK i \in DOMAIN s : s[i] \in Message
      BY <2>1 DEF Has
    <2>3. s[i].aes \in Nat
      BY <2>2 DEF Message
    <2>4. s[i] \in Refresh \/ s[i] \in Beyond \/ s[i] \in UpTo(k) \/ s[i] \in Above(k)
      BY <2>2, <2>3 DEF Refresh, Beyond, UpTo, Above, Typed
    <2>. QED  BY <2>4 DEF Has
  <1>5. ASSUME NEW k \in Nat, NEW last \in Nat
        PROVE  /\ Has(s, OfferOf(k)) \/ Has(s, KeyMsg(k)) \/ Has(s, Test(k)) \/ Has(s, CloseWith(k))
                     => k <= last \/ Has(s, Newer(last))
               /\ Has(s, Above(k)) => k < last \/ Has(s, Newer(last))
               /\ Has(s, Newer(k)) /\ last <= k => Has(s, Newer(last))
    <2>1. \A i \in DOMAIN s : s[i].aes \in Nat
      BY <1>1 DEF Message
    <2>. QED  BY <1>1, <2>1 DEF Has, OfferOf, KeyMsg, Test, CloseWith, Above, Newer
  <1>. QED  BY <1>2, <1>3, <1>4, <1>5

-----------------------------------------------------------------------------
(* The invariant.  v and w are the views of a contact and of the other,    *)
(* last the number of keys drawn; each part is kept for both contacts.     *)

\* What is signed carries its sender's key.
Signed(v, w) == ~Has(Pipe(v), Forged(w.name))

\* Keys are drawn in order, and a key is on its way from its owner only.
Numbered(v, w, last) ==
    /\ v.key <= last /\ ~Has(Pipe(v), Newer(last))
    /\ \A k \in Nat : ~(Has(Pipe(v), KeyMsg(k)) /\ Has(Pipe(w), KeyMsg(k)))
    /\ v.state = 6 => ~Has(Pipe(w), KeyMsg(v.key))

\* Once a contact has the other's public key its 0x10 says so for ever; a
\* 0x21 answers such a message.
Aware(v, w) ==
    /\ Apart(Pipe(v), KnownTo(v.name), Stranger(v.name))
    /\ Has(Pipe(v), KnownTo(v.name)) => w.pub = v.name
    /\ Has(Pipe(w), Offers) => w.pub = v.name /\ ~Has(Pipe(v), Stranger(v.name))

\* The keys of the messages 0x21 to one contact increase, and no 0x22 follows.
Ordered(v) ==
    /\ Apart(Pipe(v), Offers, Refresh)
    /\ \A k \in Nat : Apart(Pipe(v), OfferOf(k), UpTo(k))

\* Nothing follows the key whose test the sender waits for.
Waiting(v, w) ==
    v.state = 5 /\ Still(v) => Apart(Pipe(w), KeyMsg(v.key), Message)

\* When that test arrives, its sender has nothing left to handle.
Tested(v, w) ==
    v.state = 5 /\ Still(v) /\ Has(v.net, Test(v.key)) =>
        /\ Pipe(w) = <<>> /\ Still(w) /\ w.state \in {0, 2, 6}
        /\ w.state = 6 => w.key = v.key
        /\ Apart(v.net, Test(v.key), Closing)

\* Between the two halves of 0x50 the other contact can only wait for 0x60 or
\* begin an exchange with a newer key.
Replying(v, w) ==
    v.main = "reply" =>
        /\ v.state # 0 /\ Still(w) /\ w.state \in {0, 2, 5, 6}
        /\ ~Has(v.net, Closing) /\ ~Has(w.net, Closing)
        /\ ~Has(Pipe(w), Restart) /\ ~Has(w.queue, Beyond)
        /\ w.state = 5 => ~Has(v.queue, KeyMsg(w.key))
        /\ w.state = 6 /\ w.key = v.key => w.queue = <<>>
        /\ Has(Pipe(w), OfferOf(v.key)) => ~Has(Pipe(w), Above(v.key))

\* The same of a 0x60 on its way to v: its sender's session is open with the
\* key it was sealed with, or gone.
Closed(v, w) == \A k \in Nat : Has(v.net, CloseWith(k)) =>
    /\ Still(v) /\ v.state \in {0, 2, 5, 6} /\ Still(w)
    /\ ~Has(w.net, Closing) /\ Apart(v.net, Late, Closing)
    /\ ~Has(v.queue, Beyond)
    /\ v.state = 6 /\ v.key = k => v.queue = <<>>
    /\ Has(Pipe(v), OfferOf(k)) => Apart(Pipe(v), Above(k), Closing)
    /\ w.state = 7 => w.key = k

\* Between the two halves of 0x60.
Accepting(v, w) ==
    v.main = "accept" =>
        /\ v.queue = <<>> /\ v.state = 6 /\ Still(w)
        /\ ~Has(v.net, Closing) /\ ~Has(w.net, Closing)
        /\ w.state = 7 => w.key = v.key

SameKey(v, w) == v.state = 7 /\ w.state = 7 => v.key = w.key

Sound(v, w, last) ==
    /\ Signed(v, w) /\ Numbered(v, w, last) /\ Aware(v, w) /\ Ordered(v)
    /\ Waiting(v, w) /\ Tested(v, w) /\ Replying(v, w) /\ Closed(v, w)
    /\ Accepting(v, w) /\ SameKey(v, w)

Agreed(v, w, last) == Sound(v, w, last) /\ Sound(w, v, last)

-----------------------------------------------------------------------------
(* The moves of a contact: v and v2 are its view before and after, w and   *)
(* w2 the other's, which changes only by a message sent to it.             *)

Frame(v, w, v2, w2, last, last2) ==
    /\ v2.name = v.name /\ w2.name = w.name /\ w2.state = w.state /\ w2.key = w.key
    /\ w2.main = w.main /\ w2.queue = w.queue /\ w2.pub = w.pub
    /\ v.pub = w.name => v2.pub = w.name
    /\ last \in Nat /\ last2 \in Nat /\ last <= last2

Sends(w, w2, m) == m \in Message /\ w2.net = Append(w.net, m)

\* The context and the window thread keep what the invariant is about.
Stays(v, v2) == v2.state = v.state /\ v2.key = v.key /\ v2.main = v.main

\* Nothing, a context closed or a message dropped, perhaps with a message that
\* carries no key.
Quiet(v, w, v2, w2, last, last2) ==
    /\ \/ v2.state = v.state /\ v2.key = v.key
          /\ (v2.main = v.main \/ (v.main = "join" /\ v2.main = "idle"))
       \/ v2.state = 0 /\ v2.key = 0 /\ v2.main = "idle"
    /\ v2.queue \in {v.queue, <<>>}
    /\ v2.net = v.net \/ (v.net # <<>> /\ v2.net = Tail(v.net))
    /\ \/ w2.net = w.net
       \/ v2.state # 5 /\ \E m : Sends(w, w2, m) /\ m.type \in {"00", "FF", "F0", "70", "E0"}
                                  /\ m.aes <= last
    /\ last2 = last

\* Connect
Begin(v, w, v2, w2, last, last2) ==
    /\ v.state = 0 /\ v2.state = 2 /\ v2.key = v.key /\ v2.main = v.main
    /\ v2.queue = v.queue /\ v2.net = v.net
    /\ Sends(w, w2, WithPub("10", v.name, v2.pub))
    /\ last2 = last

\* RecvForWorker
Enqueue(v, w, v2, w2, last, last2) ==
    /\ Stays(v, v2) /\ v.main = "idle" /\ v.net # <<>>
    /\ v2.queue = Append(v.queue, Head(v.net)) /\ v2.net = Tail(v.net)
    /\ \/ Head(v.net).type = "10"
       \/ v.state = 2 /\ Head(v.net).type \in {"21", "22", "23", "24"}
       \/ v.state \in {3, 4}
    /\ w2.net = w.net /\ last2 = last

\* RecvTest
TestKey(v, w, v2, w2, last, last2) ==
    /\ v2.state = v.state /\ v2.key = v.key /\ v.main = "idle" /\ v.net # <<>>
    /\ v2.queue = v.queue /\ v2.net = Tail(v.net)
    /\ \/ v.state = 5 /\ Head(v.net).type = "50" /\ v2.main = "reply"
       \/ v.state = 6 /\ Head(v.net).type = "60" /\ v2.main = "accept"
    /\ Head(v.net).aes = v.key
    /\ w2.net = w.net /\ last2 = last

\* Establish
OpenSession(v, w, v2, w2, last, last2) ==
    /\ v.main \in {"reply", "accept"} /\ v2.main = "join"
    /\ v2.state = 7 /\ v2.key = v.key /\ v2.queue = v.queue /\ v2.net = v.net
    /\ IF v.main = "reply" THEN Sends(w, w2, WithAes("60", v.key)) ELSE w2.net = w.net
    /\ last2 = last

Pops(v, v2) ==
    /\ v.queue # <<>> /\ v2.queue = Tail(v.queue) /\ v2.net = v.net /\ v2.main = v.main

\* SendFreshKey
DrawKey(v, w, v2, w2, last, last2) ==
    /\ Pops(v, v2) /\ last2 = last + 1 /\ v2.state = 5 /\ v2.key = last + 1
    /\ \E m : /\ Sends(w, w2, m) /\ m.aes = last + 1
              /\ \/ m.type = "21" /\ Head(v.queue) \in KnownTo(v.name)
                 \/ m.type \in {"32", "40"} /\ Head(v.queue).type \in {"22", "33", "34"}

\* HandleConnect, HandleKeyWanted and AcceptKey without a key
AnswerKey(v, w, v2, w2, last, last2) ==
    /\ Pops(v, v2) /\ last2 = last /\ v2.state \in {3, 4} /\ v2.key = v.key
    /\ Head(v.queue).type \in {"10", "23", "24"}
    /\ \E m : /\ Sends(w, w2, m) /\ m.aes = 0 /\ m.type \in {"22", "23", "24", "33", "34"}
              /\ m.type # "23" => m.own = v.name
              /\ m.type = "22" => Head(v.queue) \in Stranger(v.name)
              /\ m.type \in {"23", "24"} => v.main # "reply"

\* HandleAesKey
LearnKey(v, w, v2, w2, last, last2) ==
    /\ Pops(v, v2) /\ last2 = last /\ v2.state = 6
    /\ Head(v.queue).type \in {"21", "32", "40"} /\ v2.key = Head(v.queue).aes
    /\ Sends(w, w2, WithAes("50", v2.key))

-----------------------------------------------------------------------------
(* How a move changes the pipes.                                           *)

LEMMA SentPipe ==
    ASSUME NEW w, NEW w2, NEW m, IsView(w), w2.queue = w.queue, Sends(w, w2, m)
    PROVE  /\ w2.net \in Seq(Message)
           /\ \A F : Has(Pipe(w2), F) <=> Has(Pipe(w), F) \/ m \in F
           /\ \A F : Has(w2.net, F) <=> Has(w.net, F) \/ m \in F
           /\ \A F, G : Apart(Pipe(w2), F, G) <=> Apart(Pipe(w), F, G) /\ ~(Has(Pipe(w), F) /\ m \in G)
           /\ \A F, G : Apart(w2.net, F, G) <=> Apart(w.net, F, G) /\ ~(Has(w.net, F) /\ m \in G)
  <1>1. w.queue \in Seq(Message) /\ w.net \in Seq(Message) /\ m \in Message
    BY DEF IsView, Sends
  <1>2. Pipe(w) \in Seq(Message)
    BY <1>1, Joined DEF Pipe
  <1>3. w2.net = Append(w.net, m) /\ Pipe(w2) = Append(Pipe(w), m)
    <2>1. w.queue \o Append(w.net, m) = Append(w.queue \o w.net, m)
      BY <1>1, PipeChanges
    <2>. QED  BY <2>1 DEF Pipe, Sends
  <1>. QED  BY <1>1, <1>2, <1>3, Appended

LEMMA PoppedPipe ==
    ASSUME NEW v, NEW v2, IsView(v), Pops(v, v2)
    PROVE  /\ v2.queue \in Seq(Message) /\ v2.net = v.net /\ v2.main = v.main
           /\ Head(v.queue) \in Message
           /\ \A F : Has(Pipe(v), F) <=> Head(v.queue) \in F \/ Has(Pipe(v2), F)
           /\ \A F : Has(v.queue, F) <=> Head(v.queue) \in F \/ Has(v2.queue, F)
           /\ \A F, G : Apart(Pipe(v), F, G) =>
                 Apart(Pipe(v2), F, G) /\ ~(Head(v.queue) \in F /\ Has(Pipe(v2), G))
           /\ v.queue # <<>> /\ Pipe(v) # <<>>
  <1>1. v.queue \in Seq(Message) /\ v.net \in Seq(Message) /\ v.queue # <<>>
    BY DEF IsView, Pops
  <1>2. Pipe(v) \in Seq(Message) /\ Pipe(v) # <<>> /\ Head(Pipe(v)) = Head(v.queue)
    <2>1. Head(v.queue) \in Message /\ v.queue \o v.net \in Seq(Message)
      BY <1>1, FirstOf, Joined
    <2>2. Head(v.queue \o v.net) = Head(v.queue) /\ v.queue \o v.net # <<>>
      BY <1>1, <2>1, PipeChanges
    <2>. QED  BY <2>1, <2>2 DEF Pipe
  <1>3. Pipe(v2) = Tail(Pipe(v)) /\ v2.queue = Tail(v.queue) /\ v2.net = v.net /\ v2.main = v.main
    <2>1. Head(v.queue) \in Message
      BY <1>1, FirstOf
    <2>2. Tail(v.queue \o v.net) = Tail(v.queue) \o v.net
      BY <1>1, <2>1, PipeChanges
    <2>. QED  BY <2>2 DEF Pipe, Pops
  <1>4. /\ Head(v.queue) \in Message /\ v2.queue \in Seq(Message)
        /\ \A F : Has(v.queue, F) <=> Head(v.queue) \in F \/ Has(v2.queue, F)
    BY <1>1, <1>3, FirstOf
  <1>5. /\ Within(Pipe(v2), Pipe(v))
        /\ \A F : Has(Pipe(v), F) <=> Head(v.queue) \in F \/ Has(Pipe(v2), F)
        /\ \A F, G : Apart(Pipe(v), F, G) /\ Head(v.queue) \in F => ~Has(Pipe(v2), G)
    <2>. HIDE DEF Pipe
    <2>. QED  BY <1>2, <1>3, FirstOf
  <1>6. \A F, G : Apart(Pipe(v), F, G) => Apart(Pipe(v2), F, G)
    BY <1>5, WithinKeeps
  <1>. QED  BY <1>1, <1>2, <1>3, <1>4, <1>5, <1>6

LEMMA ViewPipe ==
    ASSUME NEW v, v.queue \in Seq(Message), v.net \in Seq(Message)
    PROVE  /\ Pipe(v) \in Seq(Message)
           /\ \A F : Has(Pipe(v), F) <=> Has(v.queue, F) \/ Has(v.net, F)
           /\ \A F, G : Apart(Pipe(v), F, G) => ~(Has(v.queue, F) /\ Has(v.net, G))
           /\ Pipe(v) = <<>> <=> v.queue = <<>> /\ v.net = <<>>
  <1>1. Pipe(v) = <<>> <=> v.queue = <<>> /\ v.net = <<>>
    BY ConcatEqualIffEmpty DEF Pipe
  <1>. QED  BY <1>1, Joined DEF Pipe

LEMMA Members ==
    ASSUME NEW m \in Message
    PROVE  /\ m.aes \in Nat
           /\ m \in Offers <=> m.type = "21"
           /\ m \in Refresh <=> m.type = "22"
           /\ m \in Closing <=> m.type = "60"
           /\ m \in Restart <=> m.type \in {"10", "23", "24"}
           /\ m \in Late <=> m.type \in {"10", "23", "24", "60"}
           /\ m \in Beyond <=> m.type \notin {"21", "22"}
           /\ \A e : /\ m \in KnownTo(e) <=> m.type = "10" /\ m.peer = e
                     /\ m \in Stranger(e) <=> m.type = "10" /\ m.peer # e
                     /\ m \in Forged(e) <=> m.type \in {"10", "22", "24", "33", "34"} /\ m.own # e
           /\ \A k : /\ m \in KeyMsg(k) <=> m.type \in {"21", "32", "40"} /\ m.aes = k
                     /\ m \in OfferOf(k) <=> m.type = "21" /\ m.aes = k
                     /\ m \in UpTo(k) <=> m.type = "21" /\ m.aes <= k
                     /\ m \in Above(k) <=> m.type = "21" /\ m.aes > k
                     /\ m \in Test(k) <=> m.type = "50" /\ m.aes = k
                     /\ m \in CloseWith(k) <=> m.type = "60" /\ m.aes = k
                     /\ m \in Newer(k) <=> m.aes > k
  <1>1. m.aes \in Nat
    BY DEF Message
  <1>. QED
    BY <1>1 DEF Offers, Refresh, Closing, Restart, Late, Beyond, KnownTo, Stranger, Forged,
                KeyMsg, OfferOf, UpTo, Above, Test, CloseWith, Newer, Typed

-----------------------------------------------------------------------------
(* Each move keeps the invariant, for both contacts.                       *)

LEMMA LearnKeeps ==
    ASSUME NEW v, NEW w, NEW v2, NEW w2, NEW last, NEW last2,
           IsView(v), IsView(w), IsView(v2), Frame(v, w, v2, w2, last, last2),
           Agreed(v, w, last), LearnKey(v, w, v2, w2, last, last2)
    PROVE  Agreed(v2, w2, last2)
  <1>. DEFINE h == Head(v.queue)
              y == v2.key
              m == WithAes("50", y)
  <1>1. /\ Pops(v, v2) /\ last2 = last /\ v2.state = 6 /\ y = h.aes /\ y \in Nat
        /\ h.type \in {"21", "32", "40"}
        /\ Sends(w, w2, m) /\ m \in Message /\ m.type = "50" /\ m.aes = y
    BY DEF LearnKey, WithAes, Sends, IsView
  <1>2. /\ v2.name = v.name /\ w2.name = w.name /\ w2.state = w.state /\ w2.key = w.key
        /\ w2.main = w.main /\ w2.queue = w.queue /\ w2.pub = w.pub
        /\ v.pub = w.name => v2.pub = w.name
        /\ last \in Nat /\ w.key \in Nat
    BY DEF Frame, IsView
  <1>. HIDE DEF m, y
  <1>3. /\ v2.queue \in Seq(Message) /\ v2.net = v.net /\ v2.main = v.main
        /\ h \in Message
        /\ \A F : Has(Pipe(v), F) <=> h \in F \/ Has(Pipe(v2), F)
        /\ \A F : Has(v.queue, F) <=> h \in F \/ Has(v2.queue, F)
        /\ \A F, G : Apart(Pipe(v), F, G) =>
              Apart(Pipe(v2), F, G) /\ ~(h \in F /\ Has(Pipe(v2), G))
        /\ v.queue # <<>> /\ Pipe(v) # <<>>
    BY <1>1, PoppedPipe
  <1>4. /\ w2.net \in Seq(Message)
        /\ \A F : Has(Pipe(w2), F) <=> Has(Pipe(w), F) \/ m \in F
        /\ \A F : Has(w2.net, F) <=> Has(w.net, F) \/ m \in F
        /\ \A F, G : Apart(Pipe(w2), F, G) <=> Apart(Pipe(w), F, G) /\ ~(Has(Pipe(w), F) /\ m \in G)
        /\ \A F, G : Apart(w2.net, F, G) <=> Apart(w.net, F, G) /\ ~(Has(w.net, F) /\ m \in G)
    BY <1>1, <1>2, SentPipe
  <1>. HIDE DEF h
  <1>5. h \in KeyMsg(y) /\ (h.type = "21" => h \in OfferOf(y) /\ h \in Offers)
        /\ (h.type # "21" => h \in Beyond)
    BY <1>1, <1>3, Members
  <1>6. /\ m \notin Offers /\ m \notin Refresh /\ m \notin Closing /\ m \notin Restart
        /\ m \notin Late
        /\ \A e : m \notin KnownTo(e) /\ m \notin Stranger(e) /\ m \notin Forged(e)
        /\ \A k : m \notin KeyMsg(k) /\ m \notin OfferOf(k) /\ m \notin UpTo(k)
                  /\ m \notin Above(k) /\ m \notin CloseWith(k)
                  /\ (m \in Test(k) => k = y) /\ m.aes = y
    BY <1>1, Members
  <1>7. Sound(v, w, last) /\ Sound(w, v, last)
    BY DEF Agreed
  <1>8. Signed(v2, w2) /\ Signed(w2, v2)
    BY <1>2, <1>3, <1>4, <1>6, <1>7 DEF Sound, Signed
  <1>9. Numbered(v2, w2, last) /\ Numbered(w2, v2, last)
    <2>1. h \notin Newer(last)
      BY <1>3, <1>7 DEF Sound, Numbered
    <2>2. y <= last /\ m \notin Newer(last)
      BY <1>1, <1>2, <1>3, <2>1, Members
    <2>3. ~Has(Pipe(w), KeyMsg(y))
      BY <1>1, <1>3, <1>5, <1>7 DEF Sound, Numbered
    <2>. QED
      BY <1>1, <1>2, <1>3, <1>4, <1>6, <1>7, <2>2, <2>3 DEF Sound, Numbered, y
  <1>10. Aware(v2, w2) /\ Aware(w2, v2)
    BY <1>2, <1>3, <1>4, <1>6, <1>7 DEF Sound, Aware
  <1>11. Ordered(v2) /\ Ordered(w2)
    BY <1>2, <1>3, <1>4, <1>6, <1>7 DEF Sound, Ordered
  <1>12. Waiting(v2, w2) /\ Waiting(w2, v2)
    BY <1>1, <1>2, <1>3, <1>7 DEF Sound, Waiting, Still
  <1>13. Tested(v2, w2) /\ Tested(w2, v2)
    <2>1. Tested(v2, w2)
      BY <1>1 DEF Tested
    <2>2. ASSUME w.state = 5, Still(w), Has(w2.net, Test(w.key))
          PROVE  /\ Pipe(v2) = <<>> /\ Still(v2) /\ v2.key = w.key
                 /\ Apart(w2.net, Test(w.key), Closing)
      <3>1. ~Has(w.net, Test(w.key))
        BY <1>3, <1>7, <2>2 DEF Sound, Tested
      <3>2. w.key = y
        BY <1>4, <1>6, <2>2, <3>1
      <3>3. Pipe(v2) = <<>>
        <4>1. ~Has(Pipe(v2), Message)
          BY <1>3, <1>5, <1>7, <2>2, <3>2 DEF Sound, Waiting
        <4>2. Pipe(v2) \in Seq(Message)
          BY ViewPipe DEF IsView
        <4>. QED  BY <4>1, <4>2, EmptyHas
      <3>4. v.main # "reply" /\ v.main # "accept"
        BY <1>3, <1>5, <1>7, <2>2, <3>2 DEF Sound, Replying, Accepting
      <3>5. Still(v2)
        BY <1>3, <3>4 DEF Still, IsView
      <3>6. Apart(w2.net, Test(w.key), Closing)
        BY <1>4, <1>6, <3>1, Absent
      <3>. QED  BY <3>2, <3>3, <3>5, <3>6 DEF y
    <2>. QED  BY <1>1, <1>2, <2>1, <2>2 DEF Tested, Still
  <1>14. Replying(v2, w2)
    <2>1. ASSUME v.main = "reply", w.state = 6, w.key = y PROVE FALSE
      BY <1>3, <1>5, <1>7, <2>1 DEF Sound, Numbered
    <2>2. ~Has(Pipe(w), OfferOf(y))
      <3>1. ~Has(Pipe(w), KeyMsg(y)) /\ Pipe(w) \in Seq(Message)
        BY <1>1, <1>3, <1>5, <1>7, ViewPipe DEF Sound, Numbered, IsView
      <3>. QED  BY <1>1, <3>1, MessageSets
    <2>. QED
      BY <1>1, <1>2, <1>3, <1>4, <1>6, <1>7, <2>1, <2>2 DEF Sound, Replying, Still, y
  <1>15. ASSUME h.type = "21", ~Has(v.queue, Beyond), ~Has(v2.queue, Above(y))
         PROVE  v2.queue = <<>>
    <2>1. ~Has(Pipe(v2), Refresh) /\ ~Has(Pipe(v2), UpTo(y))
      BY <1>1, <1>3, <1>5, <1>7, <1>15 DEF Sound, Ordered
    <2>2. ~Has(v2.queue, Refresh) /\ ~Has(v2.queue, UpTo(y)) /\ ~Has(v2.queue, Beyond)
      <3>1. v2.net \in Seq(Message)
        BY <1>3 DEF IsView
      <3>. QED  BY <1>3, <1>15, <2>1, <3>1, ViewPipe
    <2>. QED  BY <1>1, <1>3, <1>15, <2>2, MessageSets
  <1>16. Replying(w2, v2)
    <2>1. ASSUME w.main = "reply", y = w.key PROVE v2.queue = <<>>
      <3>1. ~Has(v.queue, Beyond) /\ (Has(Pipe(v), OfferOf(y)) => ~Has(Pipe(v), Above(y)))
        BY <1>7, <2>1 DEF Sound, Replying
      <3>2. h.type = "21"
        BY <1>3, <1>5, <3>1
      <3>3. ~Has(Pipe(v2), Above(y))
        BY <1>3, <1>5, <3>1, <3>2
      <3>4. ~Has(v2.queue, Above(y))
        BY <1>3, <3>3, ViewPipe DEF IsView
      <3>. QED  BY <1>15, <3>1, <3>2, <3>4
    <2>. QED
      BY <1>1, <1>2, <1>3, <1>4, <1>6, <1>7, <2>1 DEF Sound, Replying, Still, y
  <1>17. Closed(v2, w2)
    <2>1. ASSUME NEW k \in Nat, Has(v.net, CloseWith(k)), y = k PROVE v2.queue = <<>>
      <3>1. /\ ~Has(v.queue, Beyond)
            /\ Has(Pipe(v), OfferOf(y)) => Apart(Pipe(v), Above(y), Closing)
        BY <1>7, <2>1 DEF Sound, Closed
      <3>2. h.type = "21"
        BY <1>3, <1>5, <3>1
      <3>3. Apart(Pipe(v2), Above(y), Closing)
        BY <1>3, <1>5, <3>1, <3>2
      <3>4. Has(v2.net, Closing)
        BY <1>3, <2>1, MessageSets DEF IsView
      <3>5. ~Has(v2.queue, Above(y))
        BY <1>3, <3>3, <3>4, ViewPipe DEF IsView
      <3>. QED  BY <1>15, <3>1, <3>2, <3>5
    <2>. QED
      BY <1>1, <1>2, <1>3, <1>4, <1>6, <1>7, <2>1 DEF Sound, Closed, Still, y
  <1>18. Closed(w2, v2)
    BY <1>1, <1>2, <1>3, <1>4, <1>6, <1>7 DEF Sound, Closed, Still
  <1>19. Accepting(v2, w2) /\ Accepting(w2, v2) /\ SameKey(v2, w2) /\ SameKey(w2, v2)
    BY <1>1, <1>2, <1>3, <1>4, <1>6, <1>7 DEF Sound, Accepting, SameKey, Still
  <1>. QED
    BY <1>1, <1>8, <1>9, <1>10, <1>11, <1>12, <1>13, <1>14, <1>16, <1>17, <1>18, <1>19
    DEF Agreed, Sound

LEMMA DrawKeeps ==
    ASSUME NEW v, NEW w, NEW v2, NEW w2, NEW last, NEW last2,
           IsView(v), IsView(w), IsView(v2), Frame(v, w, v2, w2, last, last2),
           Agreed(v, w, last), DrawKey(v, w, v2, w2, last, last2)
    PROVE  Agreed(v2, w2, last2)
  <1>. DEFINE h == Head(v.queue)
  <1>1. PICK m : /\ Sends(w, w2, m) /\ m.aes = last + 1
                 /\ \/ m.type = "21" /\ h \in KnownTo(v.name)
                    \/ m.type \in {"32", "40"} /\ h.type \in {"22", "33", "34"}
    BY DEF DrawKey
  <1>2. /\ v2.name = v.name /\ w2.name = w.name /\ w2.state = w.state /\ w2.key = w.key
        /\ w2.main = w.main /\ w2.queue = w.queue /\ w2.pub = w.pub
        /\ v.pub = w.name => v2.pub = w.name
        /\ last \in Nat /\ w.key \in Nat /\ v.key \in Nat
        /\ last2 = last + 1 /\ v2.state = 5 /\ v2.key = last + 1
    BY DEF Frame, IsView, DrawKey
  <1>3. /\ v2.queue \in Seq(Message) /\ v2.net = v.net /\ v2.main = v.main
        /\ h \in Message
        /\ \A F : Has(Pipe(v), F) <=> h \in F \/ Has(Pipe(v2), F)
        /\ \A F : Has(v.queue, F) <=> h \in F \/ Has(v2.queue, F)
        /\ \A F, G : Apart(Pipe(v), F, G) =>
              Apart(Pipe(v2), F, G) /\ ~(h \in F /\ Has(Pipe(v2), G))
        /\ v.queue # <<>> /\ Pipe(v) # <<>>
    BY PoppedPipe DEF DrawKey
  <1>4. /\ w2.net \in Seq(Message)
        /\ \A F : Has(Pipe(w2), F) <=> Has(Pipe(w), F) \/ m \in F
        /\ \A F : Has(w2.net, F) <=> Has(w.net, F) \/ m \in F
        /\ \A F, G : Apart(Pipe(w2), F, G) <=> Apart(Pipe(w), F, G) /\ ~(Has(Pipe(w), F) /\ m \in G)
        /\ \A F, G : Apart(w2.net, F, G) <=> Apart(w.net, F, G) /\ ~(Has(w.net, F) /\ m \in G)
    BY <1>1, <1>2, SentPipe
  <1>. HIDE DEF h
  <1>5. /\ m \in Message /\ m \in KeyMsg(last + 1) /\ m \notin Newer(last + 1)
        /\ m \notin Refresh /\ m \notin Closing /\ m \notin Restart /\ m \notin Late
        /\ \A e : m \notin KnownTo(e) /\ m \notin Stranger(e) /\ m \notin Forged(e)
        /\ \A k : (m \in KeyMsg(k) => k = last + 1) /\ (m \in OfferOf(k) => k = last + 1)
                  /\ (m \in UpTo(k) => last + 1 <= k) /\ (m \in Above(k) => last + 1 > k)
                  /\ m \notin Test(k) /\ m \notin CloseWith(k)
        /\ m \in Offers => h \in KnownTo(v.name)
        /\ m \notin Offers => h \notin Offers /\ \A k : m \notin OfferOf(k) /\ m \notin Above(k)
    BY <1>1, <1>2, <1>3, Members DEF Sends
  <1>6. Sound(v, w, last) /\ Sound(w, v, last)
    BY DEF Agreed
  \* No key on its way, and none that is in use, is newer than the last one drawn.
  <1>7. ASSUME NEW k \in Nat, k > last
        PROVE  /\ ~Has(Pipe(v), KeyMsg(k)) /\ ~Has(Pipe(w), KeyMsg(k))
               /\ ~Has(Pipe(w), OfferOf(k)) /\ ~Has(Pipe(v), OfferOf(k))
               /\ ~Has(v.net, Test(k)) /\ ~Has(v.net, CloseWith(k)) /\ ~Has(w.net, CloseWith(k))
    <2>1. ~Has(Pipe(v), Newer(last)) /\ ~Has(Pipe(w), Newer(last))
      BY <1>6 DEF Sound, Numbered
    <2>2. /\ Pipe(v) \in Seq(Message) /\ Pipe(w) \in Seq(Message)
          /\ v.net \in Seq(Message) /\ w.net \in Seq(Message)
          /\ ~Has(v.net, Newer(last)) /\ ~Has(w.net, Newer(last))
      BY <2>1, ViewPipe DEF IsView
    <2>3. ~(k <= last)
      BY <1>2, <1>7
    <2>. QED  BY <1>2, <2>1, <2>2, <2>3, MessageSets
  <1>8. /\ ~Has(Pipe(v2), Newer(last + 1)) /\ ~Has(Pipe(w2), Newer(last + 1))
        /\ ~Has(Pipe(w), Above(last + 1))
    <2>1. ~Has(Pipe(v), Newer(last)) /\ ~Has(Pipe(w), Newer(last))
      BY <1>6 DEF Sound, Numbered
    <2>2. Pipe(v) \in Seq(Message) /\ Pipe(w) \in Seq(Message)
      BY ViewPipe DEF IsView
    <2>3. ~Has(Pipe(v), Newer(last + 1)) /\ ~Has(Pipe(w), Newer(last + 1))
      BY <1>2, <2>1, <2>2, MessageSets
    <2>4. ~Has(Pipe(w), Above(last + 1))
      BY <1>2, <2>1, <2>2, MessageSets
    <2>. QED  BY <1>3, <1>4, <1>5, <2>3, <2>4
  <1>9. w.key <= last
    BY <1>6 DEF Sound, Numbered
  <1>10. Signed(v2, w2) /\ Signed(w2, v2)
    BY <1>2, <1>3, <1>4, <1>5, <1>6 DEF Sound, Signed
  <1>11. Numbered(v2, w2, last + 1) /\ Numbered(w2, v2, last + 1)
    <2>1. \A k \in Nat : ~(Has(Pipe(v2), KeyMsg(k)) /\ Has(Pipe(w2), KeyMsg(k)))
      BY <1>2, <1>3, <1>4, <1>5, <1>6, <1>7 DEF Sound, Numbered
    <2>2. w.state = 6 => ~Has(Pipe(v2), KeyMsg(w.key))
      BY <1>3, <1>6 DEF Sound, Numbered
    <2>. QED  BY <1>2, <1>8, <1>9, <2>1, <2>2 DEF Numbered
  <1>12. Aware(v2, w2) /\ Aware(w2, v2)
    BY <1>2, <1>3, <1>4, <1>5, <1>6 DEF Sound, Aware
  <1>13. Ordered(v2) /\ Ordered(w2)
    <2>1. ASSUME NEW k \in Nat, Has(Pipe(w), OfferOf(k)) PROVE m \notin UpTo(k)
      BY <1>2, <1>5, <1>7, <2>1
    <2>. QED  BY <1>3, <1>4, <1>5, <1>6, <2>1 DEF Sound, Ordered
  <1>14. Waiting(v2, w2) /\ Waiting(w2, v2)
    <2>1. ~Has(Pipe(w), KeyMsg(last + 1))
      BY <1>2, <1>7
    <2>2. Apart(Pipe(w2), KeyMsg(last + 1), Message)
      BY <1>4, <2>1, Absent
    <2>. QED  BY <1>2, <1>3, <1>6, <2>2 DEF Sound, Waiting, Still
  <1>15. Tested(v2, w2) /\ Tested(w2, v2)
    <2>1. ~Has(v.net, Test(last + 1))
      BY <1>2, <1>7
    <2>. QED  BY <1>2, <1>3, <1>4, <1>5, <1>6, <2>1 DEF Sound, Tested, Still
  <1>16. Replying(v2, w2)
    BY <1>2, <1>3, <1>4, <1>5, <1>6, <1>8, <1>9 DEF Sound, Replying, Still
  <1>17. Replying(w2, v2)
    <2>1. ~Has(w.queue, KeyMsg(last + 1))
      <3>1. ~Has(Pipe(w), KeyMsg(last + 1))
        BY <1>2, <1>7
      <3>. QED  BY <3>1, ViewPipe DEF IsView
    <2>. QED  BY <1>2, <1>3, <1>4, <1>5, <1>6, <2>1 DEF Sound, Replying, Still
  <1>18. Closed(v2, w2)
    BY <1>2, <1>3, <1>4, <1>5, <1>6 DEF Sound, Closed, Still
  <1>19. Closed(w2, v2)
    <2>1. ASSUME NEW k \in Nat, Has(w.net, CloseWith(k)) PROVE k # last + 1
      BY <1>2, <1>7, <2>1
    <2>. QED  BY <1>2, <1>3, <1>4, <1>5, <1>6, <2>1 DEF Sound, Closed, Still
  <1>20. Accepting(v2, w2) /\ Accepting(w2, v2) /\ SameKey(v2, w2) /\ SameKey(w2, v2)
    BY <1>2, <1>3, <1>4, <1>5, <1>6 DEF Sound, Accepting, SameKey, Still
  <1>. QED
    BY <1>2, <1>10, <1>11, <1>12, <1>13, <1>14, <1>15, <1>16, <1>17, <1>18, <1>19, <1>20
    DEF Agreed, Sound

LEMMA AnswerKeeps ==
    ASSUME NEW v, NEW w, NEW v2, NEW w2, NEW last, NEW last2,
           IsView(v), IsView(w), IsView(v2), Frame(v, w, v2, w2, last, last2),
           Agreed(v, w, last), AnswerKey(v, w, v2, w2, last, last2)
    PROVE  Agreed(v2, w2, last2)
  <1>. DEFINE h == Head(v.queue)
  <1>1. PICK m : /\ Sends(w, w2, m) /\ m.aes = 0 /\ m.type \in {"22", "23", "24", "33", "34"}
                 /\ m.type # "23" => m.own = v.name
                 /\ m.type = "22" => h \in Stranger(v.name)
                 /\ m.type \in {"23", "24"} => v.main # "reply"
    BY DEF AnswerKey
  <1>2. /\ v2.name = v.name /\ w2.name = w.name /\ w2.state = w.state /\ w2.key = w.key
        /\ w2.main = w.main /\ w2.queue = w.queue /\ w2.pub = w.pub
        /\ v.pub = w.name => v2.pub = w.name
        /\ last \in Nat /\ w.key \in Nat /\ v.key \in Nat
        /\ last2 = last /\ v2.state \in {3, 4} /\ v2.key = v.key
        /\ h.type \in {"10", "23", "24"}
    BY DEF Frame, IsView, AnswerKey
  <1>3. /\ v2.queue \in Seq(Message) /\ v2.net = v.net /\ v2.main = v.main
        /\ h \in Message
        /\ \A F : Has(Pipe(v), F) <=> h \in F \/ Has(Pipe(v2), F)
        /\ \A F : Has(v.queue, F) <=> h \in F \/ Has(v2.queue, F)
        /\ \A F, G : Apart(Pipe(v), F, G) =>
              Apart(Pipe(v2), F, G) /\ ~(h \in F /\ Has(Pipe(v2), G))
        /\ v.queue # <<>> /\ Pipe(v) # <<>>
    BY PoppedPipe DEF AnswerKey
  <1>4. /\ w2.net \in Seq(Message)
        /\ \A F : Has(Pipe(w2), F) <=> Has(Pipe(w), F) \/ m \in F
        /\ \A F : Has(w2.net, F) <=> Has(w.net, F) \/ m \in F
        /\ \A F, G : Apart(Pipe(w2), F, G) <=> Apart(Pipe(w), F, G) /\ ~(Has(Pipe(w), F) /\ m \in G)
        /\ \A F, G : Apart(w2.net, F, G) <=> Apart(w.net, F, G) /\ ~(Has(w.net, F) /\ m \in G)
    BY <1>1, <1>2, SentPipe
  <1>. HIDE DEF h
  <1>5. /\ m \in Message /\ m \notin Newer(last) /\ m \notin Closing /\ m \notin Offers
        /\ m \in Restart => m.type \in {"23", "24"}
        /\ m \in Refresh => h \in Stranger(v.name)
        /\ \A e : m \notin KnownTo(e) /\ m \notin Stranger(e)
        /\ m \notin Forged(v.name)
        /\ \A k : m \notin KeyMsg(k) /\ m \notin OfferOf(k) /\ m \notin UpTo(k)
                  /\ m \notin Above(k) /\ m \notin Test(k) /\ m \notin CloseWith(k)
        /\ h \in Beyond
    BY <1>1, <1>2, <1>3, Members DEF Sends
  <1>6. Sound(v, w, last) /\ Sound(w, v, last)
    BY DEF Agreed
  <1>7. Signed(v2, w2) /\ Signed(w2, v2)
    BY <1>2, <1>3, <1>4, <1>5, <1>6 DEF Sound, Signed
  <1>8. Numbered(v2, w2, last) /\ Numbered(w2, v2, last)
    BY <1>2, <1>3, <1>4, <1>5, <1>6 DEF Sound, Numbered
  <1>9. Aware(v2, w2) /\ Aware(w2, v2)
    BY <1>2, <1>3, <1>4, <1>5, <1>6 DEF Sound, Aware
  \* 0x22 is sent only to a contact that was sent no 0x21.
  <1>10. Ordered(v2) /\ Ordered(w2)
    <2>1. m \in Refresh => ~Has(Pipe(w), Offers)
      BY <1>3, <1>5, <1>6 DEF Sound, Aware
    <2>. QED  BY <1>3, <1>4, <1>5, <1>6, <2>1 DEF Sound, Ordered
  <1>11. Waiting(v2, w2) /\ Waiting(w2, v2)
    BY <1>2, <1>3, <1>6 DEF Sound, Waiting, Still
  <1>12. Tested(v2, w2) /\ Tested(w2, v2)
    BY <1>2, <1>3, <1>4, <1>5, <1>6 DEF Sound, Tested, Still
  <1>13. Replying(v2, w2) /\ Replying(w2, v2)
    BY <1>1, <1>2, <1>3, <1>4, <1>5, <1>6 DEF Sound, Replying, Still
  <1>14. Closed(v2, w2) /\ Closed(w2, v2)
    BY <1>2, <1>3, <1>4, <1>5, <1>6 DEF Sound, Closed, Still
  <1>15. Accepting(v2, w2) /\ Accepting(w2, v2) /\ SameKey(v2, w2) /\ SameKey(w2, v2)
    BY <1>2, <1>3, <1>4, <1>5, <1>6 DEF Sound, Accepting, SameKey, Still
  <1>. QED
    BY <1>2, <1>7, <1>8, <1>9, <1>10, <1>11, <1>12, <1>13, <1>14, <1>15
    DEF Agreed, Sound

\* What the window thread drops, or takes away, leaves the rest in order.
LEMMA DroppedPipe ==
    ASSUME NEW v, NEW v2, IsView(v), v2.queue \in {v.queue, <<>>},
           v2.net = v.net \/ (v.net # <<>> /\ v2.net = Tail(v.net))
    PROVE  /\ \A F : Has(Pipe(v2), F) => Has(Pipe(v), F)
           /\ \A F : Has(v2.queue, F) => Has(v.queue, F)
           /\ \A F : Has(v2.net, F) => Has(v.net, F)
           /\ \A F, G : Apart(Pipe(v), F, G) => Apart(Pipe(v2), F, G)
           /\ \A F, G : Apart(v.net, F, G) => Apart(v2.net, F, G)
           /\ Pipe(v) = <<>> => Pipe(v2) = <<>>
  <1>1. v.queue \in Seq(Message) /\ v.net \in Seq(Message) /\ <<>> \in Seq(Message)
    BY DEF IsView
  <1>2. v.queue \o v.net \in Seq(Message)
    BY <1>1, Joined
  <1>3. Within(v2.queue, v.queue) /\ Within(v2.net, v.net)
    BY <1>1, WithinBasic, FirstOf
  <1>4. Within(v2.queue \o v2.net, v.queue \o v.net)
    <2>1. CASE v2.net = v.net
      <3>1. Within(v.queue \o v.net, v.queue \o v.net)
        BY <1>2, WithinBasic
      <3>2. Within(<<>> \o v.net, v.queue \o v.net)
        <4>1. Within(v.net, v.queue \o v.net) /\ <<>> \o v.net = v.net
          BY <1>1, Joined, ConcatEmptySeq
        <4>. QED  BY <4>1
      <3>. QED  BY <2>1, <3>1, <3>2
    <2>2. CASE v.net # <<>> /\ v2.net = Tail(v.net)
      <3>1. Head(v.net) \in Message
        BY <1>1, <2>2, FirstOf
      <3>2. /\ Within(v.queue \o Tail(v.net), v.queue \o v.net)
            /\ Within(<<>> \o Tail(v.net), v.queue \o v.net)
        BY <1>1, <2>2, <3>1, PipeChanges
      <3>. QED  BY <2>2, <3>2
    <2>. QED  BY <2>1, <2>2
  <1>5. v.queue \o v.net = <<>> => v2.queue \o v2.net = <<>>
    <2>1. v.queue \o v.net = <<>> <=> v.queue = <<>> /\ v.net = <<>>
      BY <1>1, ConcatEqualIffEmpty
    <2>. QED  BY <2>1
  <1>. QED  BY <1>3, <1>4, <1>5, WithinKeeps DEF Pipe

\* The first message on its way, and the rest.
LEMMA NetHead ==
    ASSUME NEW v, IsView(v), v.net # <<>>
    PROVE  /\ Head(v.net) \in Message
           /\ \A F : Has(v.net, F) <=> Head(v.net) \in F \/ Has(Tail(v.net), F)
           /\ \A F, G : Apart(v.net, F, G) /\ Head(v.net) \in F => ~Has(Tail(v.net), G)
           /\ \A F, G : Apart(v.net, F, G) => Apart(Tail(v.net), F, G)
           /\ \A F : Head(v.net) \in F => Has(Pipe(v), F)
           /\ Pipe(v) # <<>>
  <1>1. /\ Head(v.net) \in Message
        /\ Within(Tail(v.net), v.net)
        /\ \A F : Has(v.net, F) <=> Head(v.net) \in F \/ Has(Tail(v.net), F)
        /\ \A F, G : Apart(v.net, F, G) /\ Head(v.net) \in F => ~Has(Tail(v.net), G)
    BY FirstOf DEF IsView
  <1>2. /\ \A F : Has(Pipe(v), F) <=> Has(v.queue, F) \/ Has(v.net, F)
        /\ Pipe(v) # <<>>
    BY ViewPipe DEF IsView
  <1>. QED  BY <1>1, <1>2, WithinKeeps

LEMMA EnqueuedPipe ==
    ASSUME NEW v, NEW v2, IsView(v), v.net # <<>>,
           v2.queue = Append(v.queue, Head(v.net)), v2.net = Tail(v.net)
    PROVE  /\ Pipe(v2) = Pipe(v)
           /\ \A F : Has(v2.queue, F) <=> Has(v.queue, F) \/ Head(v.net) \in F
  <1>1. v.queue \in Seq(Message) /\ v.net \in Seq(Message) /\ Head(v.net) \in Message
    BY NetHead DEF IsView
  <1>2. Append(v.queue, Head(v.net)) \o Tail(v.net) = v.queue \o v.net
    BY <1>1, PipeChanges
  <1>3. \A F : Has(Append(v.queue, Head(v.net)), F) <=> Has(v.queue, F) \/ Head(v.net) \in F
    BY <1>1, Appended
  <1>. QED  BY <1>2, <1>3 DEF Pipe

LEMMA SameNet ==
    ASSUME NEW w, NEW w2, w2.queue = w.queue, w2.net = w.net
    PROVE  Pipe(w2) = Pipe(w)
  BY DEF Pipe

LEMMA EnqueueKeeps ==
    ASSUME NEW v, NEW w, NEW v2, NEW w2, NEW last, NEW last2,
           IsView(v), IsView(w), IsView(v2), Frame(v, w, v2, w2, last, last2),
           Agreed(v, w, last), Enqueue(v, w, v2, w2, last, last2)
    PROVE  Agreed(v2, w2, last2)
  <1>. DEFINE h == Head(v.net)
  <1>1. /\ v2.name = v.name /\ w2.name = w.name /\ w2.state = w.state /\ w2.key = w.key
        /\ w2.main = w.main /\ w2.queue = w.queue /\ w2.pub = w.pub
        /\ v.pub = w.name => v2.pub = w.name
        /\ v2.state = v.state /\ v2.key = v.key /\ v2.main = v.main /\ v.main = "idle"
        /\ w2.net = w.net /\ last2 = last /\ v2.net = Tail(v.net)
        /\ \/ h.type = "10"
           \/ v.state = 2 /\ h.type \in {"21", "22", "23", "24"}
           \/ v.state \in {3, 4}
    BY DEF Frame, Enqueue, Stays
  <1>2. /\ h \in Message
        /\ \A F : Has(v.net, F) <=> h \in F \/ Has(v2.net, F)
        /\ \A F, G : Apart(v.net, F, G) /\ h \in F => ~Has(v2.net, G)
        /\ \A F, G : Apart(v.net, F, G) => Apart(v2.net, F, G)
        /\ \A F : h \in F => Has(Pipe(v), F)
        /\ Pipe(v) # <<>>
    <2>1. v.net # <<>> /\ v2.net = Tail(v.net)
      BY DEF Enqueue
    <2>. HIDE DEF h
    <2>2. v.net # <<>> => h = Head(v.net)
      BY DEF h
    <2>3. /\ Head(v.net) \in Message
          /\ \A F : Has(v.net, F) <=> Head(v.net) \in F \/ Has(Tail(v.net), F)
          /\ \A F, G : Apart(v.net, F, G) /\ Head(v.net) \in F => ~Has(Tail(v.net), G)
          /\ \A F, G : Apart(v.net, F, G) => Apart(Tail(v.net), F, G)
          /\ \A F : Head(v.net) \in F => Has(Pipe(v), F)
          /\ Pipe(v) # <<>>
      BY <2>1, NetHead
    <2>4. h = Head(v.net)
      BY <2>1, <2>2
    <2>. QED  BY <2>1, <2>3, <2>4
  <1>3. /\ Pipe(v2) = Pipe(v) /\ Pipe(w2) = Pipe(w)
        /\ \A F : Has(v2.queue, F) <=> Has(v.queue, F) \/ h \in F
    BY <1>1, EnqueuedPipe, SameNet DEF Enqueue
  <1>. HIDE DEF h
  <1>4. /\ h \in Restart <=> h.type \in {"10", "23", "24"}
        /\ h \in Restart => h \in Late
        /\ h \in Beyond <=> h.type \notin {"21", "22"}
    BY <1>2, Members
  <1>5. Sound(v, w, last) /\ Sound(w, v, last)
    BY DEF Agreed
  <1>6. /\ Signed(v2, w2) /\ Signed(w2, v2) /\ Aware(v2, w2) /\ Aware(w2, v2)
        /\ Numbered(v2, w2, last) /\ Numbered(w2, v2, last) /\ Ordered(v2) /\ Ordered(w2)
    BY <1>1, <1>3, <1>5 DEF Sound, Signed, Aware, Numbered, Ordered
  <1>7. Waiting(v2, w2) /\ Waiting(w2, v2) /\ Tested(v2, w2) /\ Tested(w2, v2)
    BY <1>1, <1>2, <1>3, <1>5 DEF Sound, Waiting, Tested, Still
  <1>8. Replying(v2, w2)
    BY <1>1 DEF Replying
  <1>9. Replying(w2, v2)
    <2>1. w.main = "reply" => h \notin Beyond /\ v.state # 6
      BY <1>1, <1>2, <1>4, <1>5 DEF Sound, Replying
    <2>. QED  BY <1>1, <1>2, <1>3, <1>5, <2>1 DEF Sound, Replying, Still
  <1>10. Closed(v2, w2)
    <2>1. ASSUME NEW k \in Nat, Has(v2.net, CloseWith(k)) PROVE h \notin Beyond /\ v.state # 6
      <3>1. Has(v.net, CloseWith(k)) /\ Has(v2.net, Closing)
        BY <1>2, <2>1, MessageSets DEF IsView
      <3>. QED  BY <1>1, <1>2, <1>4, <1>5, <3>1 DEF Sound, Closed
    <2>. QED  BY <1>1, <1>2, <1>3, <1>5, <2>1 DEF Sound, Closed, Still
  <1>11. Closed(w2, v2)
    BY <1>1, <1>2, <1>3, <1>5 DEF Sound, Closed, Still
  <1>12. Accepting(v2, w2) /\ Accepting(w2, v2) /\ SameKey(v2, w2) /\ SameKey(w2, v2)
    BY <1>1, <1>2, <1>3, <1>5 DEF Sound, Accepting, SameKey, Still
  <1>. QED
    BY <1>1, <1>6, <1>7, <1>8, <1>9, <1>10, <1>11, <1>12 DEF Agreed, Sound

LEMMA TestKeeps ==
    ASSUME NEW v, NEW w, NEW v2, NEW w2, NEW last, NEW last2,
           IsView(v), IsView(w), IsView(v2), Frame(v, w, v2, w2, last, last2),
           Agreed(v, w, last), TestKey(v, w, v2, w2, last, last2)
    PROVE  Agreed(v2, w2, last2)
  <1>. DEFINE h == Head(v.net)
  <1>1. /\ v2.name = v.name /\ w2.name = w.name /\ w2.state = w.state /\ w2.key = w.key
        /\ w2.main = w.main /\ w2.queue = w.queue /\ w2.pub = w.pub
        /\ v.pub = w.name => v2.pub = w.name
        /\ v2.state = v.state /\ v2.key = v.key /\ v.main = "idle"
        /\ w2.net = w.net /\ last2 = last /\ v2.net = Tail(v.net) /\ v2.queue = v.queue
        /\ \/ v.state = 5 /\ h.type = "50" /\ v2.main = "reply"
           \/ v.state = 6 /\ h.type = "60" /\ v2.main = "accept"
        /\ h.aes = v.key /\ v.key \in Nat
    BY DEF Frame, TestKey, IsView
  <1>2. /\ h \in Message
        /\ \A F : Has(v.net, F) <=> h \in F \/ Has(v2.net, F)
        /\ \A F, G : Apart(v.net, F, G) /\ h \in F => ~Has(v2.net, G)
        /\ \A F : h \in F => Has(Pipe(v), F)
        /\ Pipe(v) # <<>>
    BY <1>1, NetHead DEF TestKey
  <1>3. /\ Pipe(w2) = Pipe(w)
        /\ \A F : Has(Pipe(v2), F) => Has(Pipe(v), F)
        /\ \A F, G : Apart(Pipe(v), F, G) => Apart(Pipe(v2), F, G)
        /\ \A F, G : Apart(v.net, F, G) => Apart(v2.net, F, G)
        /\ Pipe(v) = <<>> => Pipe(v2) = <<>>
    BY <1>1, SameNet, DroppedPipe DEF TestKey
  <1>. HIDE DEF h
  <1>4. /\ h.type = "50" => h \in Test(v.key)
        /\ h.type = "60" => h \in CloseWith(v.key) /\ h \in Closing /\ h \in Late
    BY <1>1, <1>2, Members
  <1>5. Sound(v, w, last) /\ Sound(w, v, last)
    BY DEF Agreed
  <1>6. /\ Signed(v2, w2) /\ Signed(w2, v2) /\ Aware(v2, w2) /\ Aware(w2, v2)
        /\ Numbered(v2, w2, last) /\ Numbered(w2, v2, last) /\ Ordered(v2) /\ Ordered(w2)
    BY <1>1, <1>3, <1>5 DEF Sound, Signed, Aware, Numbered, Ordered
  <1>7. Waiting(v2, w2) /\ Waiting(w2, v2)
    BY <1>1, <1>3, <1>5 DEF Sound, Waiting, Still
  \* The test answered: w has handled everything, so nothing of w can interfere.
  <1>8. ASSUME v2.main = "reply"
        PROVE  /\ w.queue = <<>> /\ w.net = <<>> /\ Pipe(w) = <<>> /\ Still(w)
               /\ w.state \in {0, 2, 6} /\ ~Has(v2.net, Closing)
    <2>1. v.state = 5 /\ h.type = "50" /\ Still(v) /\ Has(v.net, Test(v.key))
      BY <1>1, <1>2, <1>4, <1>8 DEF Still
    <2>2. Pipe(w) = <<>> /\ Still(w) /\ w.state \in {0, 2, 6} /\ ~Has(v2.net, Closing)
      BY <1>2, <1>4, <1>5, <2>1 DEF Sound, Tested
    <2>. QED  BY <2>2, ViewPipe DEF IsView
  <1>9. ASSUME v2.main = "accept"
        PROVE  /\ v.queue = <<>> /\ v.state = 6 /\ Still(w) /\ ~Has(v2.net, Closing)
               /\ ~Has(w.net, Closing) /\ (w.state = 7 => w.key = v.key)
    <2>1. v.state = 6 /\ h.type = "60" /\ Has(v.net, CloseWith(v.key))
      BY <1>1, <1>2, <1>4, <1>9
    <2>. QED  BY <1>1, <1>2, <1>4, <1>5, <2>1 DEF Sound, Closed
  <1>10. v2.main \in {"reply", "accept"}
    BY <1>1
  <1>11. Tested(v2, w2)
    BY <1>10 DEF Tested, Still
  <1>12. Tested(w2, v2)
    BY <1>1, <1>2, <1>5 DEF Sound, Tested, Still
  <1>13. Replying(v2, w2) /\ Accepting(v2, w2)
    <2>1. \A F : ~Has(<<>>, F)
      BY EmptyHas
    <2>. QED  BY <1>1, <1>3, <1>8, <1>9, <2>1 DEF Replying, Accepting, Still
  <1>14. Replying(w2, v2) /\ Accepting(w2, v2)
    BY <1>1, <1>8, <1>9 DEF Replying, Accepting, Still
  <1>15. Closed(v2, w2) /\ Closed(w2, v2)
    <2>1. ~Has(v2.net, Closing) /\ ~Has(w.net, Closing)
      BY <1>8, <1>9, <1>10, EmptyHas
    <2>2. \A k \in Nat : ~Has(v2.net, CloseWith(k)) /\ ~Has(w.net, CloseWith(k))
      BY <2>1, MessageSets DEF IsView
    <2>. QED  BY <1>1, <2>2 DEF Closed
  <1>16. SameKey(v2, w2) /\ SameKey(w2, v2)
    BY <1>1 DEF SameKey
  <1>. QED
    BY <1>1, <1>6, <1>7, <1>11, <1>12, <1>13, <1>14, <1>15, <1>16 DEF Agreed, Sound

LEMMA BeginKeeps ==
    ASSUME NEW v, NEW w, NEW v2, NEW w2, NEW last, NEW last2,
           IsView(v), IsView(w), IsView(v2), Frame(v, w, v2, w2, last, last2),
           Agreed(v, w, last), Begin(v, w, v2, w2, last, last2)
    PROVE  Agreed(v2, w2, last2)
  <1>. DEFINE m == WithPub("10", v.name, v2.pub)
  <1>1. /\ v2.name = v.name /\ w2.name = w.name /\ w2.state = w.state /\ w2.key = w.key
        /\ w2.main = w.main /\ w2.queue = w.queue /\ w2.pub = w.pub
        /\ v.pub = w.name => v2.pub = w.name
        /\ v.state = 0 /\ v2.state = 2 /\ v2.key = v.key /\ v2.main = v.main
        /\ v2.net = v.net /\ v2.queue = v.queue /\ last2 = last /\ last \in Nat
    BY DEF Frame, Begin
  <1>2. /\ Sends(w, w2, m) /\ m \in Message
        /\ m.type = "10" /\ m.own = v.name /\ m.peer = v2.pub /\ m.aes = 0
    BY DEF Begin, Sends, WithPub, NoKey
  <1>. HIDE DEF m
  <1>3. /\ Pipe(v2) = Pipe(v)
        /\ \A F : Has(Pipe(w2), F) <=> Has(Pipe(w), F) \/ m \in F
        /\ \A F : Has(w2.net, F) <=> Has(w.net, F) \/ m \in F
        /\ \A F, G : Apart(Pipe(w2), F, G) <=> Apart(Pipe(w), F, G) /\ ~(Has(Pipe(w), F) /\ m \in G)
        /\ \A F, G : Apart(w2.net, F, G) <=> Apart(w.net, F, G) /\ ~(Has(w.net, F) /\ m \in G)
    BY <1>1, <1>2, SentPipe, SameNet
  <1>4. /\ m \notin Newer(last) /\ m \notin Closing /\ m \notin Offers /\ m \notin Refresh
        /\ m \notin Forged(v.name)
        /\ m \in KnownTo(w.name) => v2.pub = w.name
        /\ m \in Stranger(w.name) => v2.pub # w.name
        /\ \A k : m \notin KeyMsg(k) /\ m \notin OfferOf(k) /\ m \notin UpTo(k)
                  /\ m \notin Above(k) /\ m \notin Test(k) /\ m \notin CloseWith(k)
    BY <1>1, <1>2, Members
  <1>5. Sound(v, w, last) /\ Sound(w, v, last)
    BY DEF Agreed
  <1>6. v.main # "reply" /\ v.main # "accept"
    BY <1>1, <1>5 DEF Sound, Replying, Accepting
  <1>7. Signed(v2, w2) /\ Signed(w2, v2)
    BY <1>1, <1>3, <1>4, <1>5 DEF Sound, Signed
  <1>8. Numbered(v2, w2, last) /\ Numbered(w2, v2, last)
    BY <1>1, <1>3, <1>4, <1>5 DEF Sound, Numbered
  <1>9. Aware(v2, w2) /\ Aware(w2, v2)
    BY <1>1, <1>3, <1>4, <1>5 DEF Sound, Aware
  <1>10. Ordered(v2) /\ Ordered(w2)
    BY <1>1, <1>3, <1>4, <1>5 DEF Sound, Ordered
  <1>11. Waiting(v2, w2) /\ Waiting(w2, v2) /\ Tested(v2, w2) /\ Tested(w2, v2)
    BY <1>1, <1>3, <1>4, <1>5 DEF Sound, Waiting, Tested, Still
  <1>12. Replying(v2, w2) /\ Replying(w2, v2)
    BY <1>1, <1>3, <1>4, <1>5, <1>6 DEF Sound, Replying, Still
  <1>13. Closed(v2, w2) /\ Closed(w2, v2)
    BY <1>1, <1>3, <1>4, <1>5 DEF Sound, Closed, Still
  <1>14. Accepting(v2, w2) /\ Accepting(w2, v2) /\ SameKey(v2, w2) /\ SameKey(w2, v2)
    BY <1>1, <1>3, <1>4, <1>5, <1>6 DEF Sound, Accepting, SameKey, Still
  <1>. QED
    BY <1>1, <1>7, <1>8, <1>9, <1>10, <1>11, <1>12, <1>13, <1>14 DEF Agreed, Sound

LEMMA OpenKeeps ==
    ASSUME NEW v, NEW w, NEW v2, NEW w2, NEW last, NEW last2,
           IsView(v), IsView(w), IsView(v2), Frame(v, w, v2, w2, last, last2),
           Agreed(v, w, last), OpenSession(v, w, v2, w2, last, last2)
    PROVE  Agreed(v2, w2, last2)
  <1>. DEFINE m == WithAes("60", v.key)
              replies == v.main = "reply"
  <1>1. /\ v2.name = v.name /\ w2.name = w.name /\ w2.state = w.state /\ w2.key = w.key
        /\ w2.main = w.main /\ w2.queue = w.queue /\ w2.pub = w.pub
        /\ v.pub = w.name => v2.pub = w.name
        /\ v2.state = 7 /\ v2.key = v.key /\ v2.main = "join"
        /\ v.main \in {"reply", "accept"}
        /\ v2.net = v.net /\ v2.queue = v.queue /\ last2 = last /\ last \in Nat /\ v.key \in Nat
        /\ Pipe(v2) = Pipe(v)
    BY SameNet DEF Frame, OpenSession, IsView
  <1>2. /\ \A F : Has(Pipe(w2), F) <=> Has(Pipe(w), F) \/ (replies /\ m \in F)
        /\ \A F : Has(w2.net, F) <=> Has(w.net, F) \/ (replies /\ m \in F)
        /\ \A F, G : Apart(Pipe(w2), F, G) <=>
              Apart(Pipe(w), F, G) /\ ~(replies /\ Has(Pipe(w), F) /\ m \in G)
        /\ \A F, G : Apart(w2.net, F, G) <=>
              Apart(w.net, F, G) /\ ~(replies /\ Has(w.net, F) /\ m \in G)
    <2>1. CASE replies
      <3>1. Sends(w, w2, m)
        BY <2>1 DEF OpenSession
      <3>. HIDE DEF m
      <3>2. /\ \A F : Has(Pipe(w2), F) <=> Has(Pipe(w), F) \/ m \in F
            /\ \A F : Has(w2.net, F) <=> Has(w.net, F) \/ m \in F
            /\ \A F, G : Apart(Pipe(w2), F, G) <=> Apart(Pipe(w), F, G) /\ ~(Has(Pipe(w), F) /\ m \in G)
            /\ \A F, G : Apart(w2.net, F, G) <=> Apart(w.net, F, G) /\ ~(Has(w.net, F) /\ m \in G)
        BY <1>1, <3>1, SentPipe
      <3>. HIDE DEF replies
      <3>. QED  BY <2>1, <3>2
    <2>2. CASE ~replies
      <3>1. w2.net = w.net /\ Pipe(w2) = Pipe(w)
        BY <1>1, <2>2, SameNet DEF OpenSession
      <3>. HIDE DEF replies, m
      <3>. QED  BY <2>2, <3>1
    <2>. QED  BY <2>1, <2>2
  <1>3. m \in Message /\ m.type = "60" /\ m.aes = v.key
    BY <1>1, MessageTypes DEF WithAes, Types
  <1>. HIDE DEF m
  <1>4. Sound(v, w, last) /\ Sound(w, v, last)
    BY DEF Agreed
  <1>5. v.key <= last
    BY <1>4 DEF Sound, Numbered
  <1>6. /\ m \notin Newer(last) /\ m \notin Offers /\ m \notin Refresh /\ m \notin Restart
        /\ \A e : m \notin KnownTo(e) /\ m \notin Stranger(e) /\ m \notin Forged(e)
        /\ \A k : m \notin KeyMsg(k) /\ m \notin OfferOf(k) /\ m \notin UpTo(k)
                  /\ m \notin Above(k) /\ m \notin Test(k) /\ (m \in CloseWith(k) => k = v.key)
    BY <1>1, <1>3, <1>5, Members
  <1>7. /\ Still(w) /\ ~Has(v.net, Closing) /\ ~Has(w.net, Closing)
        /\ w.state = 7 => w.key = v.key
    BY <1>1, <1>4 DEF Sound, Replying, Accepting
  <1>8. \A k \in Nat : ~Has(v.net, CloseWith(k)) /\ ~Has(w.net, CloseWith(k))
    BY <1>7, MessageSets DEF IsView
  <1>9. Signed(v2, w2) /\ Signed(w2, v2)
    BY <1>1, <1>2, <1>4, <1>6 DEF Sound, Signed
  <1>10. Numbered(v2, w2, last) /\ Numbered(w2, v2, last)
    BY <1>1, <1>2, <1>4, <1>6 DEF Sound, Numbered
  <1>11. Aware(v2, w2) /\ Aware(w2, v2) /\ Ordered(v2) /\ Ordered(w2)
    BY <1>1, <1>2, <1>4, <1>6 DEF Sound, Aware, Ordered
  <1>12. Waiting(v2, w2) /\ Waiting(w2, v2)
    BY <1>1, <1>4 DEF Sound, Waiting, Still
  <1>13. Tested(v2, w2) /\ Tested(w2, v2)
    BY <1>1, <1>2, <1>4, <1>6 DEF Sound, Tested, Still
  <1>14. Replying(v2, w2) /\ Replying(w2, v2) /\ Accepting(v2, w2) /\ Accepting(w2, v2)
    BY <1>1, <1>7 DEF Replying, Accepting, Still
  <1>15. Closed(v2, w2)
    BY <1>1, <1>8 DEF Closed
  <1>16. Closed(w2, v2)
    <2>1. SUFFICES ASSUME NEW k \in Nat, Has(w2.net, CloseWith(k))
                   PROVE  /\ Still(w2) /\ w2.state \in {0, 2, 5, 6} /\ Still(v2)
                          /\ ~Has(v2.net, Closing) /\ Apart(w2.net, Late, Closing)
                          /\ ~Has(w2.queue, Beyond)
                          /\ w2.state = 6 /\ w2.key = k => w2.queue = <<>>
                          /\ Has(Pipe(w2), OfferOf(k)) => Apart(Pipe(w2), Above(k), Closing)
                          /\ v2.state = 7 => v2.key = k
      BY DEF Closed
    <2>2. replies /\ k = v.key
      BY <1>2, <1>6, <1>8, <2>1
    <2>3. /\ w.state \in {0, 2, 5, 6} /\ ~Has(Pipe(w), Restart) /\ ~Has(w.queue, Beyond)
          /\ w.state = 6 /\ w.key = v.key => w.queue = <<>>
          /\ Has(Pipe(w), OfferOf(v.key)) => ~Has(Pipe(w), Above(v.key))
      BY <1>4, <2>2 DEF Sound, Replying
    <2>4. ~Has(w.net, Late)
      <3>1. ~Has(w.net, Restart)
        BY <2>3, ViewPipe DEF IsView
      <3>. QED  BY <1>7, <3>1, MessageSets DEF IsView
    <2>5. Apart(w2.net, Late, Closing)
      BY <1>2, <2>4, Absent
    <2>6. Has(Pipe(w2), OfferOf(k)) => Apart(Pipe(w2), Above(k), Closing)
      BY <1>2, <1>6, <2>2, <2>3, Absent
    <2>. QED  BY <1>1, <1>7, <2>2, <2>3, <2>5, <2>6 DEF Still
  <1>17. SameKey(v2, w2) /\ SameKey(w2, v2)
    BY <1>1, <1>7 DEF SameKey
  <1>. QED
    BY <1>1, <1>9, <1>10, <1>11, <1>12, <1>13, <1>14, <1>15, <1>16, <1>17 DEF Agreed, Sound

LEMMA QuietKeeps ==
    ASSUME NEW v, NEW w, NEW v2, NEW w2, NEW last, NEW last2,
           IsView(v), IsView(w), IsView(v2), Frame(v, w, v2, w2, last, last2),
           Agreed(v, w, last), Quiet(v, w, v2, w2, last, last2)
    PROVE  Agreed(v2, w2, last2)
  <1>1. /\ v2.name = v.name /\ w2.name = w.name /\ w2.state = w.state /\ w2.key = w.key
        /\ w2.main = w.main /\ w2.queue = w.queue /\ w2.pub = w.pub
        /\ v.pub = w.name => v2.pub = w.name
        /\ last2 = last /\ last \in Nat
        /\ v2.queue = v.queue \/ v2.queue = <<>>
    BY DEF Frame, Quiet
  <1>2. \/ /\ v2.state = v.state /\ v2.key = v.key
           /\ v2.main = v.main \/ (v.main = "join" /\ v2.main = "idle")
        \/ v2.state = 0 /\ v2.key = 0 /\ v2.main = "idle"
    BY DEF Quiet
  <1>3. /\ \A F : Has(Pipe(v2), F) => Has(Pipe(v), F)
        /\ \A F : Has(v2.queue, F) => Has(v.queue, F)
        /\ \A F : Has(v2.net, F) => Has(v.net, F)
        /\ \A F, G : Apart(Pipe(v), F, G) => Apart(Pipe(v2), F, G)
        /\ \A F, G : Apart(v.net, F, G) => Apart(v2.net, F, G)
        /\ Pipe(v) = <<>> => Pipe(v2) = <<>>
    BY DroppedPipe DEF Quiet
  \* The message sent, if there is one, is in none of the sets that matter.
  <1>. DEFINE Heeds(F) == \A m \in Message :
                  m.type \in {"00", "FF", "F0", "70", "E0"} /\ m.aes <= last => m \notin F
  <1>4. /\ \A F : Heeds(F) /\ Has(Pipe(w2), F) => Has(Pipe(w), F)
        /\ \A F : Heeds(F) /\ Has(w2.net, F) => Has(w.net, F)
        /\ \A F, G : Heeds(G) /\ Apart(Pipe(w), F, G) => Apart(Pipe(w2), F, G)
        /\ \A F, G : Heeds(G) /\ Apart(w.net, F, G) => Apart(w2.net, F, G)
        /\ v2.state = 5 => w2.net = w.net /\ Pipe(w2) = Pipe(w)
    <2>1. CASE w2.net = w.net
      <3>1. Pipe(w2) = Pipe(w)
        BY <1>1, <2>1, SameNet
      <3>. HIDE DEF Heeds
      <3>. QED  BY <2>1, <3>1
    <2>2. ASSUME NEW m, v2.state # 5, Sends(w, w2, m), m.aes <= last,
                 m.type \in {"00", "FF", "F0", "70", "E0"}
          PROVE  <1>4
      <3>1. m \in Message /\ \A F : Heeds(F) => m \notin F
        BY <2>2 DEF Sends
      <3>. HIDE DEF Heeds
      <3>. QED  BY <1>1, <2>2, <3>1, SentPipe
    <2>. QED  BY <2>1, <2>2 DEF Quiet
  <1>5. /\ Heeds(Newer(last)) /\ Heeds(Closing) /\ Heeds(Offers) /\ Heeds(Refresh)
        /\ Heeds(Restart)
        /\ \A e : Heeds(KnownTo(e)) /\ Heeds(Stranger(e)) /\ Heeds(Forged(e))
        /\ \A k : Heeds(KeyMsg(k)) /\ Heeds(OfferOf(k)) /\ Heeds(UpTo(k))
                  /\ Heeds(Above(k)) /\ Heeds(Test(k)) /\ Heeds(CloseWith(k))
    <2>1. ASSUME NEW m \in Message, m.type \in {"00", "FF", "F0", "70", "E0"}, m.aes <= last
          PROVE  /\ m \notin Newer(last) /\ m \notin Closing /\ m \notin Offers /\ m \notin Refresh
                 /\ m \notin Restart
                 /\ \A e : m \notin KnownTo(e) /\ m \notin Stranger(e) /\ m \notin Forged(e)
                 /\ \A k : m \notin KeyMsg(k) /\ m \notin OfferOf(k) /\ m \notin UpTo(k)
                           /\ m \notin Above(k) /\ m \notin Test(k) /\ m \notin CloseWith(k)
      <3>1. ~(m.aes > last)
        BY <1>1, <2>1, Members
      <3>. QED  BY <2>1, <3>1, Members
    <2>. QED  BY <2>1
  <1>. HIDE DEF Heeds
  <1>6. Sound(v, w, last) /\ Sound(w, v, last)
    BY DEF Agreed
  <1>7. Signed(v2, w2) /\ Signed(w2, v2)
    BY <1>1, <1>3, <1>4, <1>5, <1>6 DEF Sound, Signed
  <1>8. Numbered(v2, w2, last) /\ Numbered(w2, v2, last)
    BY <1>1, <1>2, <1>3, <1>4, <1>5, <1>6 DEF Sound, Numbered
  <1>9. Aware(v2, w2) /\ Aware(w2, v2) /\ Ordered(v2) /\ Ordered(w2)
    BY <1>1, <1>3, <1>4, <1>5, <1>6 DEF Sound, Aware, Ordered
  <1>10. Waiting(v2, w2) /\ Waiting(w2, v2)
    BY <1>1, <1>2, <1>3, <1>4, <1>6 DEF Sound, Waiting, Still
  <1>11. Tested(v2, w2)
    <2>1. ASSUME v2.state = 5, Still(v2), Has(v2.net, Test(v2.key))
          PROVE  /\ Pipe(w2) = <<>> /\ Still(w2) /\ w2.state \in {0, 2, 6}
                 /\ w2.state = 6 => w2.key = v2.key
                 /\ Apart(v2.net, Test(v2.key), Closing)
      <3>1. v.state = 5 /\ v.key = v2.key /\ Still(v) /\ Has(v.net, Test(v.key))
        BY <1>2, <1>3, <2>1 DEF Still
      <3>2. /\ Pipe(w) = <<>> /\ Still(w) /\ w.state \in {0, 2, 6}
            /\ w.state = 6 => w.key = v.key
            /\ Apart(v.net, Test(v.key), Closing)
        BY <1>6, <3>1 DEF Sound, Tested
      <3>. QED  BY <1>1, <1>3, <1>4, <2>1, <3>1, <3>2 DEF Still
    <2>. QED  BY <2>1 DEF Tested
  <1>12. Tested(w2, v2)
    BY <1>1, <1>2, <1>3, <1>4, <1>5, <1>6 DEF Sound, Tested, Still
  <1>13. Replying(v2, w2)
    BY <1>1, <1>2, <1>3, <1>4, <1>5, <1>6 DEF Sound, Replying, Still
  <1>14. Replying(w2, v2)
    BY <1>1, <1>2, <1>3, <1>4, <1>5, <1>6 DEF Sound, Replying, Still
  <1>15. Closed(v2, w2)
    BY <1>1, <1>2, <1>3, <1>4, <1>5, <1>6 DEF Sound, Closed, Still
  <1>16. Closed(w2, v2)
    BY <1>1, <1>2, <1>3, <1>4, <1>5, <1>6 DEF Sound, Closed, Still
  <1>17. Accepting(v2, w2) /\ Accepting(w2, v2) /\ SameKey(v2, w2) /\ SameKey(w2, v2)
    BY <1>1, <1>2, <1>3, <1>4, <1>5, <1>6 DEF Sound, Accepting, SameKey, Still
  <1>. QED
    BY <1>1, <1>7, <1>8, <1>9, <1>10, <1>11, <1>12, <1>13, <1>14, <1>15, <1>16, <1>17
    DEF Agreed, Sound

-----------------------------------------------------------------------------
(* Every step of the specification is a move of one contact.               *)

\* What a contact knows of keys: a context without one is blank, a context
\* has the key that is stored, and nobody is asked about a forged key.
LocalAt(e) ==
    /\ ~uin[e].cntx => pdata[e].state = 0 /\ pdata[e].queue = <<>> /\ main[e] = "idle"
    /\ pdata[e].pub_k = Peer(e) => uin[e].rsa_pub = Peer(e)
    /\ pdata[e].state = 5 \/ main[e] = "reply" => pdata[e].pub_k = Peer(e)
    /\ dialog[e] \subseteq {Peer(e)}

Local == \A e \in Endpoint : LocalAt(e)

SignedNet == \A e \in Endpoint : Signed(View(e), View(Peer(e)))

Change(e) ==
    /\ \A x \in Endpoint \ {e} : /\ uin'[x] = uin[x] /\ pdata'[x] = pdata[x]
                                 /\ main'[x] = main[x] /\ dialog'[x] = dialog[x]
    /\ LocalAt(e)'
    /\ Pub(e) = Peer(e) => Pub(e)' = Peer(e)

Moved(e) ==
    LET v == View(e)
        w == View(Peer(e))
        v2 == View(e)'
        w2 == View(Peer(e))'
    IN  \/ Quiet(v, w, v2, w2, lastKey, lastKey') \/ Begin(v, w, v2, w2, lastKey, lastKey')
        \/ Enqueue(v, w, v2, w2, lastKey, lastKey') \/ TestKey(v, w, v2, w2, lastKey, lastKey')
        \/ OpenSession(v, w, v2, w2, lastKey, lastKey')
        \/ DrawKey(v, w, v2, w2, lastKey, lastKey') \/ AnswerKey(v, w, v2, w2, lastKey, lastKey')
        \/ LearnKey(v, w, v2, w2, lastKey, lastKey')

LEMMA ViewFields ==
    ASSUME NEW e
    PROVE  /\ View(e).name = e /\ View(e).state = pdata[e].state /\ View(e).key = pdata[e].aes_k
           /\ View(e).main = main[e] /\ View(e).queue = pdata[e].queue
           /\ View(e).net = net[e] /\ View(e).pub = Pub(e)
           /\ View(e)'.name = e /\ View(e)'.state = pdata'[e].state
           /\ View(e)'.key = pdata'[e].aes_k /\ View(e)'.main = main'[e]
           /\ View(e)'.queue = pdata'[e].queue /\ View(e)'.net = net'[e]
           /\ View(e)'.pub = Pub(e)'
  BY DEF View

LEMMA ViewType ==
    ASSUME NEW e \in Endpoint
    PROVE  /\ TypeOK => IsView(View(e))
           /\ TypeOK' => IsView(View(e)')
  BY DEF View, IsView, TypeOK, RSADATA

LEMMA ChangeFrame ==
    ASSUME TypeOK, TypeOK', Local, NEW e \in Endpoint, Change(e), lastKey <= lastKey'
    PROVE  /\ Frame(View(e), View(Peer(e)), View(e)', View(Peer(e))', lastKey, lastKey')
           /\ Local'
  <1>. DEFINE p == Peer(e)
  <1>1. p \in Endpoint /\ p # e /\ Peer(p) = e /\ \A x \in Endpoint : x = e \/ x = p
    BY PeerType DEF Endpoint, Peer
  <1>2. lastKey \in Nat /\ lastKey' \in Nat
    BY DEF TypeOK
  <1>3. /\ uin'[p] = uin[p] /\ pdata'[p] = pdata[p] /\ main'[p] = main[p] /\ dialog'[p] = dialog[p]
    BY <1>1 DEF Change
  <1>. HIDE DEF p
  <1>4. LocalAt(p)'
    BY <1>1, <1>3 DEF Local, LocalAt
  <1>5. Pub(p)' = Pub(p)
    BY <1>3 DEF Pub
  <1>6. Frame(View(e), View(p), View(e)', View(p)', lastKey, lastKey')
    BY <1>1, <1>2, <1>3, <1>5, ViewFields DEF Frame, Change, p
  <1>. QED  BY <1>1, <1>4, <1>6 DEF Local, Change, p

LEMMA LocalKeys ==
    ASSUME TypeOK, Local, NEW e \in Endpoint
    PROVE  /\ pdata[e] \in RSADATA /\ uin[e] \in UinKey
           /\ Peer(e) \in Endpoint /\ Peer(e) # None /\ Peer(e) # e /\ LocalAt(e)
           /\ Pub(e) = Peer(e) => uin[e].rsa_pub = Peer(e)
  <1>1. Peer(e) \in Endpoint /\ Peer(e) # None /\ Peer(e) # e
    BY PeerType, ConstantsOK DEF Endpoint
  <1>. QED  BY <1>1 DEF TypeOK, Local, LocalAt, Pub

LEMMA AskedKey ==
    ASSUME TypeInv, SignedNet, NEW e \in Endpoint, pdata[e].queue # <<>>
    PROVE  LET m == Head(pdata[e].queue) IN
           /\ m \in Message
           /\ m.type = "10" \/ Asks(m) => m.own = Peer(e)
  <1>. DEFINE m == Head(pdata[e].queue)
              v == View(e)
  <1>1. IsView(v) /\ v.queue = pdata[e].queue /\ Signed(v, View(Peer(e)))
        /\ View(Peer(e)).name = Peer(e)
    BY ViewType, ViewFields DEF TypeInv, SignedNet
  <1>. HIDE DEF v
  <1>2. m \in Message /\ (m \in Forged(Peer(e)) => Has(v.queue, Forged(Peer(e))))
    BY <1>1, FirstOf DEF IsView
  <1>3. m \notin Forged(Peer(e))
    BY <1>1, <1>2, ViewPipe DEF Signed, IsView
  <1>. HIDE DEF m
  <1>4. m.type = "10" \/ Asks(m) => m.own = Peer(e)
    BY <1>2, <1>3 DEF Forged, Asks
  <1>. QED  BY <1>2, <1>4 DEF m

LEMMA LeavesDialog ==
    ASSUME TypeInv, Local, SignedNet, NEW e \in Endpoint, dialog' = LeaveDialog(e)
    PROVE  /\ dialog'[e] \subseteq {Peer(e)}
           /\ \A x \in Endpoint \ {e} : dialog'[x] = dialog[x]
  <1>1. dialog[e] \subseteq {Peer(e)} /\ dialog \in [Endpoint -> SUBSET (PubKey \cup {None})]
    BY DEF Local, LocalAt, TypeInv, TypeOK
  <1>2. CASE pdata[e].busy /\ Asks(Head(pdata[e].queue))
    <2>1. Head(pdata[e].queue).own = Peer(e)
      BY <1>2, AskedKey DEF TypeInv, WorkerHasMessage
    <2>. QED  BY <1>1, <1>2, <2>1 DEF LeaveDialog
  <1>3. CASE ~(pdata[e].busy /\ Asks(Head(pdata[e].queue)))
    BY <1>1, <1>3 DEF LeaveDialog
  <1>. QED  BY <1>2, <1>3

LEMMA ShutChange ==
    ASSUME TypeInv, Local, SignedNet, NEW e \in Endpoint, Shut(e),
           dialog' = LeaveDialog(e) \/ dialog' = dialog
    PROVE  /\ Change(e) /\ lastKey' = lastKey
           /\ pdata'[e].state = 0 /\ pdata'[e].aes_k = 0 /\ pdata'[e].queue = <<>>
           /\ main'[e] = "idle"
  <1>1. /\ pdata[e] \in RSADATA /\ uin[e] \in UinKey
        /\ Peer(e) # None /\ LocalAt(e)
        /\ Pub(e) = Peer(e) => uin[e].rsa_pub = Peer(e)
    BY LocalKeys DEF TypeInv
  <1>2. /\ uin'[e] = [uin[e] EXCEPT !.cntx = FALSE, !.keyLoaded = FALSE]
        /\ pdata'[e] = FreshData /\ main'[e] = "idle" /\ lastKey' = lastKey
        /\ \A x \in Endpoint \ {e} : uin'[x] = uin[x] /\ pdata'[x] = pdata[x] /\ main'[x] = main[x]
    BY DEF Shut, TypeInv, TypeOK
  <1>3. ~uin'[e].cntx /\ uin'[e].rsa_pub = uin[e].rsa_pub
    BY <1>1, <1>2 DEF UinKey
  <1>4. /\ pdata'[e].state = 0 /\ pdata'[e].aes_k = 0 /\ pdata'[e].queue = <<>>
        /\ pdata'[e].pub_k = None
    BY <1>2 DEF FreshData, NoKey
  <1>5. /\ dialog'[e] \subseteq {Peer(e)} /\ \A x \in Endpoint \ {e} : dialog'[x] = dialog[x]
    BY <1>1, LeavesDialog DEF Local, LocalAt
  <1>6. LocalAt(e)'
    BY <1>1, <1>2, <1>3, <1>4, <1>5 DEF LocalAt
  <1>7. Pub(e)' = uin[e].rsa_pub
    BY <1>3 DEF Pub
  <1>. QED  BY <1>1, <1>2, <1>4, <1>5, <1>6, <1>7 DEF Change

LEMMA CloseChange ==
    ASSUME TypeInv, Local, SignedNet, NEW e \in Endpoint, Close(e)
    PROVE  /\ Change(e) /\ lastKey' = lastKey
           /\ pdata'[e].state = 0 /\ pdata'[e].aes_k = 0 /\ pdata'[e].queue = <<>>
           /\ main'[e] = "idle"
  BY ShutChange DEF Close

\* What a step of e leaves alone.
Others(e) ==
    /\ \A x \in Endpoint \ {e} : uin'[x] = uin[x] /\ pdata'[x] = pdata[x] /\ main'[x] = main[x]
    /\ dialog' = dialog

\* createRSAcntx and loadRSAkey
LEMMA OpenedChange ==
    ASSUME TypeInv, Local, NEW e \in Endpoint, Others(e),
           uin'[e] = OpenUin(e), pdata'[e].pub_k = OpenData(e).pub_k,
           pdata'[e].state = 5 => pdata[e].state = 5,
           main'[e] = "reply" => main[e] = "reply" \/ pdata[e].state = 5
    PROVE  Change(e) /\ Pub(e)' = pdata'[e].pub_k
  <1>1. /\ pdata[e] \in RSADATA /\ uin[e] \in UinKey
        /\ Peer(e) # None /\ LocalAt(e)
        /\ Pub(e) = Peer(e) => uin[e].rsa_pub = Peer(e)
    BY LocalKeys DEF TypeInv
  <1>2. uin'[e].cntx /\ uin'[e].rsa_pub = uin[e].rsa_pub
    <2>. DEFINE loaded == IF NeedsKey(e) THEN uin[e].rsa_pub # None ELSE TRUE
                u == [uin[e] EXCEPT !.cntx = TRUE, !.keyLoaded = loaded]
    <2>1. uin'[e] = u
      BY DEF OpenUin
    <2>. HIDE DEF loaded
    <2>2. u.cntx /\ u.rsa_pub = uin[e].rsa_pub
      BY <1>1 DEF UinKey
    <2>. QED  BY <2>1, <2>2
  <1>3. /\ uin[e].rsa_pub = Peer(e) /\ Pub(e) = Peer(e) => pdata'[e].pub_k = Peer(e)
        /\ uin[e].rsa_pub = Peer(e) /\ pdata[e].pub_k = Peer(e) => pdata'[e].pub_k = Peer(e)
        /\ pdata'[e].pub_k \in {pdata[e].pub_k, uin[e].rsa_pub}
    BY <1>1 DEF OpenData, NeedsKey, Pub, RSADATA
  <1>4. LocalAt(e)'
    BY <1>1, <1>2, <1>3 DEF LocalAt, Others
  <1>5. Pub(e)' = pdata'[e].pub_k
    BY <1>2 DEF Pub
  <1>. QED  BY <1>1, <1>3, <1>4, <1>5 DEF Change, Others

\* Whatever leaves the stored public key and the one in the context alone.
LEMMA StoredChange ==
    ASSUME TypeInv, Local, NEW e \in Endpoint, Others(e),
           uin'[e].cntx = uin[e].cntx, uin'[e].rsa_pub = uin[e].rsa_pub,
           pdata'[e].pub_k = pdata[e].pub_k,
           \/ uin[e].cntx
           \/ pdata'[e].state = 0 /\ pdata'[e].queue = <<>> /\ main'[e] = "idle",
           pdata'[e].state = 5 => pdata[e].state = 5 \/ pdata[e].pub_k = Peer(e),
           main'[e] = "reply" => main[e] = "reply"
    PROVE  Change(e) /\ Pub(e)' = Pub(e)
  <1>1. pdata[e] \in RSADATA /\ uin[e] \in UinKey /\ LocalAt(e)
    BY LocalKeys DEF TypeInv
  <1>2. LocalAt(e)'
    BY <1>1 DEF LocalAt, Others
  <1>3. Pub(e)' = Pub(e)
    BY DEF Pub
  <1>. QED  BY <1>2, <1>3 DEF Change, Others

-----------------------------------------------------------------------------
(* The commands of the users.                                              *)

Ready == TypeInv /\ Local /\ SignedNet /\ \A e \in Endpoint : pdata[e].aes_k <= lastKey

LEMMA NetMoves ==
    ASSUME TypeOK, NEW e \in Endpoint, NEW m
    PROVE  /\ Send(e, m) => net'[e] = net[e] /\ net'[Peer(e)] = Append(net[Peer(e)], m)
           /\ Consume(e) => net'[e] = Tail(net[e]) /\ net'[Peer(e)] = net[Peer(e)]
           /\ Answer(e, m) => net'[e] = Tail(net[e]) /\ net'[Peer(e)] = Append(net[Peer(e)], m)
  <1>1. Peer(e) \in Endpoint /\ Peer(e) # e
    BY PeerType
  <1>. QED  BY <1>1 DEF TypeOK, Send, Consume, Answer

LEMMA QuietMove ==
    ASSUME NEW e \in Endpoint, lastKey' = lastKey,
           \/ /\ pdata'[e].state = pdata[e].state /\ pdata'[e].aes_k = pdata[e].aes_k
              /\ main'[e] = main[e] \/ (main[e] = "join" /\ main'[e] = "idle")
           \/ pdata'[e].state = 0 /\ pdata'[e].aes_k = 0 /\ main'[e] = "idle",
           pdata'[e].queue \in {pdata[e].queue, <<>>},
           net'[e] = net[e] \/ (net[e] # <<>> /\ net'[e] = Tail(net[e])),
           \/ net'[Peer(e)] = net[Peer(e)]
           \/ /\ pdata'[e].state # 5
              /\ \E m \in Message : /\ net'[Peer(e)] = Append(net[Peer(e)], m)
                                    /\ m.type \in {"00", "FF", "F0", "70", "E0"}
                                    /\ m.aes <= lastKey
    PROVE  Moved(e)
  <1>1. Quiet(View(e), View(Peer(e)), View(e)', View(Peer(e))', lastKey, lastKey')
    BY ViewFields DEF Quiet, Sends
  <1>. QED  BY <1>1 DEF Moved

\* A context closed, with a message sent or received or neither.
LEMMA ShutMove ==
    ASSUME Ready, NEW e \in Endpoint, Shut(e),
           dialog' = LeaveDialog(e) \/ dialog' = dialog,
           net'[e] = net[e] \/ (net[e] # <<>> /\ net'[e] = Tail(net[e])),
           \/ net'[Peer(e)] = net[Peer(e)]
           \/ \E m \in Message : /\ net'[Peer(e)] = Append(net[Peer(e)], m)
                                 /\ m.type \in {"00", "FF", "F0", "70", "E0"}
                                 /\ m.aes <= lastKey
    PROVE  Change(e) /\ Moved(e) /\ lastKey' = lastKey
  <1>1. /\ Change(e) /\ lastKey' = lastKey
        /\ pdata'[e].state = 0 /\ pdata'[e].aes_k = 0 /\ pdata'[e].queue = <<>>
        /\ main'[e] = "idle"
    BY ShutChange DEF Ready
  <1>2. Moved(e)
    BY <1>1, QuietMove
  <1>. QED  BY <1>1, <1>2

LEMMA CloseMove ==
    ASSUME Ready, NEW e \in Endpoint, Close(e),
           net'[e] = net[e] \/ (net[e] # <<>> /\ net'[e] = Tail(net[e])),
           \/ net'[Peer(e)] = net[Peer(e)]
           \/ \E m \in Message : /\ net'[Peer(e)] = Append(net[Peer(e)], m)
                                 /\ m.type \in {"00", "FF", "F0", "70", "E0"}
                                 /\ m.aes <= lastKey
    PROVE  Change(e) /\ Moved(e) /\ lastKey' = lastKey
  BY ShutMove DEF Close

LEMMA ConnectMove ==
    ASSUME Ready, NEW e \in Endpoint, Connect(e)
    PROVE  Change(e) /\ Moved(e) /\ lastKey' = lastKey
  <1>. DEFINE o == OpenData(e)
              m == WithPub("10", e, o.pub_k)
  <1>1. o \in RSADATA /\ o = [pdata[e] EXCEPT !.pub_k = o.pub_k] /\ pdata[e] \in RSADATA
    BY OpenType DEF Ready, TypeInv, TypeOK
  <1>0. pdata'[e] = [o EXCEPT !.state = 2, !.time = TRUE]
    BY DEF Connect, Ready, TypeInv, TypeOK
  <1>2. /\ uin'[e] = OpenUin(e) /\ main' = main /\ dialog' = dialog /\ lastKey' = lastKey
        /\ pdata[e].state = 0
        /\ Others(e) /\ Send(e, m)
    BY DEF Connect, Ready, TypeInv, TypeOK, Others
  <1>. HIDE DEF o
  <1>3. /\ pdata'[e].state = 2 /\ pdata'[e].pub_k = o.pub_k /\ o.aes_k = pdata[e].aes_k
        /\ pdata'[e].aes_k = pdata[e].aes_k /\ pdata'[e].queue = pdata[e].queue
    BY <1>0, <1>1 DEF RSADATA
  <1>4. Change(e) /\ Pub(e)' = o.pub_k
    <2>1. /\ TypeInv /\ Local /\ main'[e] = main[e]
          /\ pdata'[e].pub_k = OpenData(e).pub_k /\ pdata'[e].state # 5
      BY <1>2, <1>3 DEF Ready, o
    <2>2. Change(e) /\ Pub(e)' = pdata'[e].pub_k
      BY <1>2, <2>1, OpenedChange
    <2>. QED  BY <1>3, <2>2
  <1>5. net'[e] = net[e] /\ net'[Peer(e)] = Append(net[Peer(e)], m)
    BY <1>2, NetMoves DEF Ready, TypeInv
  <1>6. m \in Message
    <2>1. o.pub_k \in PubKey \cup {None} /\ e \in PubKey
      BY <1>1 DEF RSADATA, PubKey, Endpoint
    <2>. QED  BY <2>1, MessageTypes DEF Types, WorkerTypes
  <1>7. Begin(View(e), View(Peer(e)), View(e)', View(Peer(e))', lastKey, lastKey')
    <2>. DEFINE v == View(e)
                v2 == View(e)'
                w == View(Peer(e))
                w2 == View(Peer(e))'
    <2>1. /\ v.name = e /\ v2.pub = o.pub_k /\ v.state = 0 /\ v2.state = 2 /\ v2.key = v.key
          /\ v2.main = v.main /\ v2.queue = v.queue /\ v2.net = v.net
          /\ w2.net = Append(w.net, m)
      <3>1. /\ v.name = e /\ v.state = pdata[e].state /\ v2.state = pdata'[e].state
              /\ v.key = pdata[e].aes_k /\ v2.key = pdata'[e].aes_k
              /\ v.queue = pdata[e].queue /\ v2.queue = pdata'[e].queue
              /\ v.main = main[e] /\ v2.main = main'[e] /\ v.net = net[e] /\ v2.net = net'[e]
              /\ w.net = net[Peer(e)] /\ w2.net = net'[Peer(e)] /\ v2.pub = Pub(e)'
        BY ViewFields
      <3>. HIDE DEF v, v2, w, w2, m
      <3>. QED  BY <1>2, <1>3, <1>4, <1>5, <3>1
    <2>. HIDE DEF v, v2, w, w2
    <2>2. Begin(v, w, v2, w2, lastKey, lastKey')
      BY <1>2, <1>6, <2>1 DEF Begin, Sends
    <2>. QED  BY <2>2 DEF v, v2, w, w2
  <1>. QED  BY <1>2, <1>4, <1>7 DEF Moved

\* What the users send besides 0x10 carries no key the other contact could take.
LEMMA JunkMessages ==
    ASSUME Ready, NEW e \in Endpoint
    PROVE  /\ \A t \in {"00", "FF"} : /\ Plain(t) \in Message /\ Plain(t).type = t
                                      /\ Plain(t).aes <= lastKey
           /\ \A t \in {"F0", "70"} : LET m == WithAes(t, pdata[e].aes_k) IN
                 m \in Message /\ m.type = t /\ m.aes <= lastKey
           /\ \A k \in PubKey \cup {None} : LET m == WithPub("E0", e, k) IN
                 m \in Message /\ m.type = "E0" /\ m.aes <= lastKey
  <1>1. lastKey \in Nat /\ 0 <= lastKey /\ pdata[e].aes_k \in Nat /\ pdata[e].aes_k <= lastKey
        /\ e \in PubKey
    BY DEF Ready, TypeInv, TypeOK, RSADATA, PubKey, Endpoint
  <1>2. /\ \A t \in {"00", "FF"} : Plain(t) \in Message
        /\ \A t \in {"F0", "70"} : WithAes(t, pdata[e].aes_k) \in Message
        /\ \A k \in PubKey \cup {None} : WithPub("E0", e, k) \in Message
    BY <1>1, MessageTypes DEF Types
  <1>. QED  BY <1>1, <1>2 DEF Plain, WithAes, WithPub, NoKey

LEMMA CommandMoves ==
    ASSUME Ready, NEW e \in Endpoint,
           \/ Disconnect(e) \/ GoesOffline(e) \/ SendData(e) \/ SetStatus(e)
           \/ CommandWhileDisabled(e)
    PROVE  Change(e) /\ Moved(e) /\ lastKey' = lastKey
  <1>1. CASE Disconnect(e)
    <2>1. Close(e) /\ (UNCHANGED net \/ Send(e, WithAes("F0", pdata[e].aes_k)))
      BY <1>1 DEF Disconnect
    <2>2. /\ net'[e] = net[e]
          /\ net'[Peer(e)] = net[Peer(e)]
             \/ net'[Peer(e)] = Append(net[Peer(e)], WithAes("F0", pdata[e].aes_k))
      BY <2>1, NetMoves DEF Ready, TypeInv
    <2>3. LET m == WithAes("F0", pdata[e].aes_k) IN
             m \in Message /\ m.type = "F0" /\ m.aes <= lastKey
      BY JunkMessages
    <2>. QED  BY <2>1, <2>2, <2>3, CloseMove
  <1>2. CASE GoesOffline(e)
    BY <1>2, CloseMove DEF GoesOffline
  <1>3. CASE SendData(e)
    <2>1. /\ UNCHANGED <<uin, pdata, main, dialog, lastKey>> /\ pdata[e].state = 7
          /\ Send(e, WithAes("70", pdata[e].aes_k)) /\ Others(e)
      BY <1>3 DEF SendData, Others
    <2>2. /\ net'[e] = net[e]
          /\ net'[Peer(e)] = Append(net[Peer(e)], WithAes("70", pdata[e].aes_k))
      BY <2>1, NetMoves DEF Ready, TypeInv
    <2>3. LET m == WithAes("70", pdata[e].aes_k) IN
             m \in Message /\ m.type = "70" /\ m.aes <= lastKey
      BY JunkMessages
    <2>4. Change(e)
      <3>1. LocalAt(e)
        BY DEF Ready, Local
      <3>. QED  BY <2>1, <3>1, StoredChange DEF Ready, LocalAt
    <2>5. Moved(e)
      BY <2>1, <2>2, <2>3, QuietMove
    <2>. QED  BY <2>1, <2>4, <2>5
  <1>4. CASE SetStatus(e)
    <2>1. /\ uin'[e].cntx = uin[e].cntx /\ uin'[e].rsa_pub = uin[e].rsa_pub /\ Others(e)
          /\ UNCHANGED <<net, pdata, main, dialog, lastKey>>
      <3>1. uin[e] \in UinKey /\ uin' = [uin EXCEPT ![e] = [@ EXCEPT !.disabled = ~uin[e].disabled]]
            /\ UNCHANGED <<net, pdata, main, dialog, lastKey>>
        BY <1>4 DEF SetStatus, Ready, TypeInv, TypeOK
      <3>2. uin'[e] = [uin[e] EXCEPT !.disabled = ~uin[e].disabled]
        BY <3>1 DEF Ready, TypeInv, TypeOK
      <3>3. \A b : LET u == [uin[e] EXCEPT !.disabled = b]
                   IN  u.cntx = uin[e].cntx /\ u.rsa_pub = uin[e].rsa_pub
        BY <3>1 DEF UinKey
      <3>4. Others(e)
        BY <3>1 DEF Ready, TypeInv, TypeOK, Others
      <3>. QED  BY <3>1, <3>2, <3>3, <3>4
    <2>2. Change(e)
      <3>1. LocalAt(e)
        BY DEF Ready, Local
      <3>. QED  BY <2>1, <3>1, StoredChange DEF Ready, LocalAt
    <2>3. Moved(e)
      BY <2>1, QuietMove
    <2>. QED  BY <2>1, <2>2, <2>3
  <1>5. CASE CommandWhileDisabled(e)
    <2>1. Close(e) /\ Send(e, Plain("FF"))
      BY <1>5 DEF CommandWhileDisabled
    <2>2. net'[e] = net[e] /\ net'[Peer(e)] = Append(net[Peer(e)], Plain("FF"))
      BY <2>1, NetMoves DEF Ready, TypeInv
    <2>3. Plain("FF") \in Message /\ Plain("FF").type = "FF" /\ Plain("FF").aes <= lastKey
      BY JunkMessages
    <2>. QED  BY <2>1, <2>2, <2>3, CloseMove
  <1>. QED  BY <1>1, <1>2, <1>3, <1>4, <1>5

LEMMA SendOfflineMove ==
    ASSUME Ready, NEW e \in Endpoint, SendOffline(e)
    PROVE  Change(e) /\ Moved(e) /\ lastKey' = lastKey
  <1>. DEFINE reset == uin[e].cntx /\ pdata[e].state # 0
              key == uin[e].rsa_pub
  <1>1. /\ TypeInv /\ Local /\ SignedNet /\ pdata[e] \in RSADATA /\ uin[e] \in UinKey
        /\ LocalAt(e) /\ (Pub(e) = Peer(e) => key = Peer(e))
    BY LocalKeys DEF Ready, TypeInv
  <1>2. main[e] = "idle" /\ main' = main /\ lastKey' = lastKey
    BY DEF SendOffline
  <1>3. /\ reset => /\ uin' = [uin EXCEPT ![e] = [uin[e] EXCEPT !.keyLoaded = key # None]]
                    /\ pdata' = [pdata EXCEPT ![e] = [FreshData EXCEPT !.pub_k = key]]
                    /\ dialog' = LeaveDialog(e)
        /\ ~reset => /\ uin' = [uin EXCEPT ![e] = OpenUin(e)]
                     /\ pdata' = [pdata EXCEPT ![e] = OpenData(e)]
                     /\ dialog' = dialog
    BY DEF SendOffline
  <1>4. /\ Change(e) /\ pdata'[e].state = 0 /\ pdata'[e].queue \in {pdata[e].queue, <<>>}
        /\ pdata'[e].aes_k = 0 \/ (pdata[e].state = 0 /\ pdata'[e].aes_k = pdata[e].aes_k)
    <2>1. CASE reset
      <3>. DEFINE u == [uin[e] EXCEPT !.keyLoaded = key # None]
                  d == [FreshData EXCEPT !.pub_k = key]
      <3>1. uin'[e] = u /\ pdata'[e] = d
            /\ \A x \in Endpoint \ {e} : uin'[x] = uin[x] /\ pdata'[x] = pdata[x]
        BY <1>1, <1>3, <2>1 DEF TypeInv, TypeOK
      <3>2. u.cntx = uin[e].cntx /\ u.rsa_pub = key
        <4>1. \A b : LET r == [uin[e] EXCEPT !.keyLoaded = b]
                     IN  r.cntx = uin[e].cntx /\ r.rsa_pub = key
          BY <1>1 DEF UinKey
        <4>. QED  BY <4>1
      <3>3. d.pub_k = key /\ d.state = 0 /\ d.queue = <<>> /\ d.aes_k = 0
        BY DEF FreshData, NoKey
      <3>. HIDE DEF u, d
      <3>4. /\ dialog'[e] \subseteq {Peer(e)} /\ \A x \in Endpoint \ {e} : dialog'[x] = dialog[x]
        BY <1>1, <1>3, <2>1, LeavesDialog
      <3>5. LocalAt(e)'
        BY <1>2, <2>1, <3>1, <3>2, <3>3, <3>4 DEF LocalAt
      <3>6. Pub(e)' = key
        BY <2>1, <3>1, <3>2, <3>3 DEF Pub
      <3>. QED  BY <1>1, <1>2, <3>1, <3>3, <3>4, <3>5, <3>6 DEF Change
    <2>2. CASE ~reset
      <3>1. pdata[e].state = 0
        BY <1>1, <2>2 DEF LocalAt
      <3>2. /\ uin'[e] = OpenUin(e) /\ pdata'[e] = OpenData(e) /\ Others(e)
        BY <1>1, <1>2, <1>3, <2>2 DEF TypeInv, TypeOK, Others
      <3>3. /\ OpenData(e).state = pdata[e].state /\ OpenData(e).queue = pdata[e].queue
            /\ OpenData(e).aes_k = pdata[e].aes_k
        BY <1>1 DEF OpenData, RSADATA
      <3>4. Change(e)
        BY <1>1, <1>2, <3>1, <3>2, <3>3, OpenedChange
      <3>. QED  BY <3>1, <3>2, <3>3, <3>4
    <2>. QED  BY <2>1, <2>2
  <1>5. \/ UNCHANGED net
        \/ \E k \in PubKey \cup {None} : Send(e, WithPub("E0", e, k))
    <2>. DEFINE u == IF reset THEN [uin[e] EXCEPT !.keyLoaded = key # None] ELSE OpenUin(e)
                d == IF reset THEN [FreshData EXCEPT !.pub_k = key] ELSE OpenData(e)
    <2>1. d.pub_k \in PubKey \cup {None}
      <3>1. OpenData(e) \in RSADATA /\ key \in PubKey \cup {None}
        BY <1>1, OpenType DEF TypeInv, UinKey
      <3>2. [FreshData EXCEPT !.pub_k = key].pub_k = key
        BY DEF FreshData
      <3>. QED  BY <3>1, <3>2 DEF RSADATA
    <2>2. IF u.keyLoaded /\ d.pub_k # None
          THEN Send(e, WithPub("E0", e, d.pub_k)) ELSE UNCHANGED net
      BY DEF SendOffline
    <2>. HIDE DEF u, d
    <2>. QED  BY <2>1, <2>2
  <1>6. /\ net'[e] = net[e]
        /\ \/ net'[Peer(e)] = net[Peer(e)]
           \/ \E k \in PubKey \cup {None} :
                 net'[Peer(e)] = Append(net[Peer(e)], WithPub("E0", e, k))
    BY <1>1, <1>5, NetMoves DEF TypeInv
  <1>7. \/ net'[Peer(e)] = net[Peer(e)]
        \/ \E m \in Message : /\ net'[Peer(e)] = Append(net[Peer(e)], m)
                              /\ m.type \in {"00", "FF", "F0", "70", "E0"} /\ m.aes <= lastKey
    BY <1>6, JunkMessages
  <1>8. Moved(e)
    <2>1. main'[e] = "idle" /\ main'[e] = main[e] /\ pdata'[e].state # 5
      BY <1>2, <1>4
    <2>. QED  BY <1>2, <1>4, <1>6, <1>7, <2>1, QuietMove
  <1>. QED  BY <1>2, <1>4, <1>8

LEMMA UserMoves ==
    ASSUME Ready, NEW e \in Endpoint, User(e)
    PROVE  Change(e) /\ Moved(e) /\ lastKey' = lastKey
  BY ConnectMove, CommandMoves, SendOfflineMove DEF User

-----------------------------------------------------------------------------
(* The window thread.                                                      *)

\* A message handled by rsa_recv that closes the context, or changes nothing.
LEMMA ConsumeCloseMove ==
    ASSUME Ready, NEW e \in Endpoint, net[e] # <<>>, Close(e),
           Consume(e) \/ Answer(e, Plain("00")) \/ Answer(e, Plain("FF"))
    PROVE  Change(e) /\ Moved(e) /\ lastKey' = lastKey
  <1>1. /\ net'[e] = Tail(net[e])
        /\ \/ net'[Peer(e)] = net[Peer(e)]
           \/ net'[Peer(e)] = Append(net[Peer(e)], Plain("00"))
           \/ net'[Peer(e)] = Append(net[Peer(e)], Plain("FF"))
    BY NetMoves DEF Ready, TypeInv
  <1>2. \A t \in {"00", "FF"} : /\ Plain(t) \in Message /\ Plain(t).type = t
                                /\ Plain(t).aes <= lastKey
    BY JunkMessages
  <1>. QED  BY <1>1, <1>2, CloseMove

LEMMA OpenDataFields ==
    ASSUME Ready, NEW e \in Endpoint
    PROVE  /\ OpenData(e) \in RSADATA
           /\ OpenData(e).state = pdata[e].state /\ OpenData(e).queue = pdata[e].queue
           /\ OpenData(e).aes_k = pdata[e].aes_k
  <1>1. pdata[e] \in RSADATA
    BY DEF Ready, TypeInv, TypeOK
  <1>. QED  BY <1>1, OpenType DEF OpenData, RSADATA, Ready, TypeInv

LEMMA IgnoreMove ==
    ASSUME Ready, NEW e \in Endpoint, net[e] # <<>>, Ignore(e)
    PROVE  Change(e) /\ Moved(e) /\ lastKey' = lastKey
  <1>1. /\ uin'[e] = OpenUin(e) /\ pdata'[e] = OpenData(e) /\ Others(e)
        /\ main' = main /\ lastKey' = lastKey
    BY DEF Ignore, Ready, TypeInv, TypeOK, Others
  <1>2. net'[e] = Tail(net[e]) /\ net'[Peer(e)] = net[Peer(e)]
    BY NetMoves DEF Ignore, Ready, TypeInv
  <1>3. Change(e)
    BY <1>1, OpenDataFields, OpenedChange DEF Ready
  <1>4. Moved(e)
    BY <1>1, <1>2, OpenDataFields, QuietMove
  <1>. QED  BY <1>1, <1>3, <1>4

LEMMA RecvForWorkerMove ==
    ASSUME Ready, NEW e \in Endpoint, net[e] # <<>>, RecvForWorker(e, Head(net[e]))
    PROVE  Change(e) /\ Moved(e) /\ lastKey' = lastKey
  <1>. DEFINE o == OpenData(e)
              h == Head(net[e])
              d == [o EXCEPT !.event = TRUE, !.queue = Append(@, h)]
  <1>1. /\ o \in RSADATA /\ o.state = pdata[e].state /\ o.queue = pdata[e].queue
        /\ o.aes_k = pdata[e].aes_k /\ h \in Message /\ pdata[e].queue \in Seq(Message)
        /\ pdata[e] \in RSADATA
    BY OpenDataFields, HeadTail DEF Ready, TypeInv, TypeOK, RSADATA
  <1>2. /\ pdata'[e] = Rearm(d) /\ uin'[e] = OpenUin(e) /\ Others(e)
        /\ main[e] = "idle" /\ main' = main /\ lastKey' = lastKey
        /\ h.type \in WorkerTypes /\ ~WrongStep(e, h) /\ Consume(e)
    BY DEF RecvForWorker, Arrives, Ready, TypeInv, TypeOK, Others
  <1>. HIDE DEF o, h
  <1>3. /\ d \in RSADATA /\ d.state = o.state /\ d.aes_k = o.aes_k /\ d.pub_k = o.pub_k
        /\ d.queue = Append(pdata[e].queue, h)
    <2>. DEFINE q == Append(o.queue, h)
                r == [o EXCEPT !.event = TRUE, !.queue = q]
    <2>1. q \in Seq(Message)
      BY <1>1, AppendType
    <2>2. d = r
      BY <1>1 DEF RSADATA
    <2>. HIDE DEF q, d
    <2>3. /\ r \in RSADATA /\ r.state = o.state /\ r.aes_k = o.aes_k /\ r.pub_k = o.pub_k
          /\ r.queue = q
      BY <1>1, <2>1 DEF RSADATA
    <2>. QED  BY <1>1, <2>2, <2>3 DEF q
  <1>. HIDE DEF d
  <1>4. /\ pdata'[e].state = pdata[e].state /\ pdata'[e].aes_k = pdata[e].aes_k
        /\ pdata'[e].queue = Append(pdata[e].queue, h) /\ pdata'[e].pub_k = o.pub_k
    <2>1. Rearm(d).pub_k = d.pub_k
      BY <1>3 DEF Rearm, RSADATA
    <2>. QED  BY <1>1, <1>2, <1>3, <2>1, RearmType
  <1>5. Change(e)
    BY <1>2, <1>4, OpenedChange DEF Ready, o
  <1>6. \/ h.type = "10"
        \/ pdata[e].state = 2 /\ h.type \in {"21", "22", "23", "24"}
        \/ pdata[e].state \in {3, 4}
    BY <1>2 DEF WrongStep, WorkerTypes, Exchange, StepOf
  <1>7. net'[e] = Tail(net[e]) /\ net'[Peer(e)] = net[Peer(e)]
    BY <1>2, NetMoves DEF Ready, TypeInv
  <1>8. Enqueue(View(e), View(Peer(e)), View(e)', View(Peer(e))', lastKey, lastKey')
    <2>. DEFINE v == View(e)
                v2 == View(e)'
                w == View(Peer(e))
                w2 == View(Peer(e))'
    <2>1. /\ v.name = e /\ v.state = pdata[e].state /\ v2.state = pdata'[e].state
          /\ v.key = pdata[e].aes_k /\ v2.key = pdata'[e].aes_k
          /\ v.queue = pdata[e].queue /\ v2.queue = pdata'[e].queue
          /\ v.main = main[e] /\ v2.main = main'[e] /\ v.net = net[e] /\ v2.net = net'[e]
          /\ w.net = net[Peer(e)] /\ w2.net = net'[Peer(e)] /\ v2.pub = Pub(e)'
      BY ViewFields
    <2>. HIDE DEF v, v2, w, w2
    <2>2. Enqueue(v, w, v2, w2, lastKey, lastKey')
      BY <1>2, <1>4, <1>6, <1>7, <2>1 DEF Enqueue, Stays, h
    <2>. QED  BY <2>2 DEF v, v2, w, w2
  <1>. QED  BY <1>2, <1>5, <1>8 DEF Moved

LEMMA RecvTestMove ==
    ASSUME Ready, NEW e \in Endpoint, net[e] # <<>>, RecvTest(e, Head(net[e]))
    PROVE  Change(e) /\ Moved(e) /\ lastKey' = lastKey
  <1>. DEFINE h == Head(net[e])
  <1>1. CASE Decodes(pdata[e], h)
    <2>1. /\ uin'[e] = OpenUin(e) /\ pdata'[e] = OpenData(e) /\ Others(e)
          /\ main[e] = "idle" /\ lastKey' = lastKey /\ Consume(e)
          /\ main'[e] = IF h.type = "50" THEN "reply" ELSE "accept"
          /\ h.type \in {"50", "60"} /\ ~WrongStep(e, h) /\ h.aes = pdata[e].aes_k
      BY <1>1 DEF RecvTest, Arrives, Decodes, Ready, TypeInv, TypeOK, Others
    <2>2. net'[e] = Tail(net[e]) /\ net'[Peer(e)] = net[Peer(e)]
      BY <2>1, NetMoves DEF Ready, TypeInv
    <2>. HIDE DEF h
    <2>3. \/ pdata[e].state = 5 /\ h.type = "50" /\ main'[e] = "reply"
          \/ pdata[e].state = 6 /\ h.type = "60" /\ main'[e] = "accept"
      BY <2>1 DEF WrongStep, StepOf, Exchange
    <2>4. Change(e)
      BY <2>1, <2>3, OpenDataFields, OpenedChange DEF Ready
    <2>5. TestKey(View(e), View(Peer(e)), View(e)', View(Peer(e))', lastKey, lastKey')
      BY <2>1, <2>2, <2>3, OpenDataFields, ViewFields DEF TestKey, h
    <2>. QED  BY <2>1, <2>4, <2>5 DEF Moved
  <1>2. CASE ~Decodes(pdata[e], h)
    BY <1>2, ConsumeCloseMove DEF RecvTest
  <1>. QED  BY <1>1, <1>2

LEMMA RecvMoves ==
    ASSUME Ready, NEW e \in Endpoint, Recv(e) \/ RecvWhileDisabled(e)
    PROVE  Change(e) /\ Moved(e) /\ lastKey' = lastKey
  <1>. DEFINE m == Head(net[e])
  <1>1. CASE RecvWhileDisabled(e)
    BY <1>1, ConsumeCloseMove DEF RecvWhileDisabled
  <1>2. CASE Recv(e)
    <2>1. net[e] # <<>>
      BY <1>2 DEF Recv
    <2>2. CASE RecvUnreadable(e, m)
      BY <2>1, <2>2, IgnoreMove DEF RecvUnreadable
    <2>3. CASE RecvWrongStep(e, m)
      BY <2>1, <2>3, ConsumeCloseMove DEF RecvWrongStep
    <2>4. CASE RecvForWorker(e, m)
      BY <2>1, <2>4, RecvForWorkerMove
    <2>5. CASE RecvTest(e, m)
      BY <2>1, <2>5, RecvTestMove
    <2>6. CASE RecvData(e, m)
      BY <2>1, <2>6, IgnoreMove, ConsumeCloseMove DEF RecvData
    <2>7. CASE RecvOffline(e, m)
      BY <2>1, <2>7, IgnoreMove, ConsumeCloseMove DEF RecvOffline
    <2>8. CASE RecvDisconnect(e, m)
      BY <2>1, <2>8, IgnoreMove, ConsumeCloseMove DEF RecvDisconnect
    <2>. QED  BY <1>2, <2>2, <2>3, <2>4, <2>5, <2>6, <2>7, <2>8 DEF Recv
  <1>. QED  BY <1>1, <1>2

LEMMA EstablishMove ==
    ASSUME Ready, NEW e \in Endpoint, Establish(e)
    PROVE  Change(e) /\ Moved(e) /\ lastKey' = lastKey
  <1>1. /\ pdata[e] \in RSADATA /\ LocalAt(e) /\ TypeInv /\ Local
    BY LocalKeys DEF Ready, TypeInv
  <1>2. /\ uin' = uin /\ lastKey' = lastKey /\ main'[e] = "join" /\ Others(e)
        /\ main[e] \in {"reply", "accept"}
        /\ IF main[e] = "reply" THEN Send(e, WithAes("60", pdata[e].aes_k)) ELSE UNCHANGED net
    BY DEF Establish, Ready, TypeInv, TypeOK, Others
  <1>3. /\ pdata'[e].state = 7 /\ pdata'[e].aes_k = pdata[e].aes_k
        /\ pdata'[e].queue = pdata[e].queue /\ pdata'[e].pub_k = pdata[e].pub_k
    <2>1. pdata'[e] = [pdata[e] EXCEPT !.state = 7, !.time = FALSE]
      BY DEF Establish, Ready, TypeInv, TypeOK
    <2>. QED  BY <1>1, <2>1 DEF RSADATA
  <1>4. Change(e)
    <2>1. uin[e].cntx
      BY <1>1, <1>2 DEF LocalAt
    <2>. QED  BY <1>1, <1>2, <1>3, <2>1, StoredChange
  <1>5. /\ net'[e] = net[e]
        /\ IF main[e] = "reply"
           THEN net'[Peer(e)] = Append(net[Peer(e)], WithAes("60", pdata[e].aes_k))
           ELSE net'[Peer(e)] = net[Peer(e)]
    BY <1>1, <1>2, NetMoves DEF TypeInv
  <1>6. WithAes("60", pdata[e].aes_k) \in Message
    BY <1>1, MessageTypes DEF Types, RSADATA
  <1>7. OpenSession(View(e), View(Peer(e)), View(e)', View(Peer(e))', lastKey, lastKey')
    <2>. DEFINE v == View(e)
                v2 == View(e)'
                w == View(Peer(e))
                w2 == View(Peer(e))'
    <2>1. /\ v.name = e /\ v.state = pdata[e].state /\ v2.state = pdata'[e].state
          /\ v.key = pdata[e].aes_k /\ v2.key = pdata'[e].aes_k
          /\ v.queue = pdata[e].queue /\ v2.queue = pdata'[e].queue
          /\ v.main = main[e] /\ v2.main = main'[e] /\ v.net = net[e] /\ v2.net = net'[e]
          /\ w.net = net[Peer(e)] /\ w2.net = net'[Peer(e)] /\ v2.pub = Pub(e)'
      BY ViewFields
    <2>. HIDE DEF v, v2, w, w2
    <2>2. OpenSession(v, w, v2, w2, lastKey, lastKey')
      BY <1>2, <1>3, <1>5, <1>6, <2>1 DEF OpenSession, Sends
    <2>. QED  BY <2>2 DEF v, v2, w, w2
  <1>. QED  BY <1>2, <1>4, <1>7 DEF Moved

LEMMA JoinMove ==
    ASSUME Ready, NEW e \in Endpoint, Join(e)
    PROVE  Change(e) /\ Moved(e) /\ lastKey' = lastKey
  <1>. DEFINE d == [pdata[e] EXCEPT !.event = FALSE, !.time = FALSE, !.queue = <<>>]
  <1>1. /\ pdata[e] \in RSADATA /\ LocalAt(e) /\ TypeInv /\ Local
    BY LocalKeys DEF Ready, TypeInv
  <1>2. /\ pdata'[e] = Rearm(d) /\ uin' = uin /\ net' = net /\ lastKey' = lastKey
        /\ main[e] = "join" /\ main'[e] = "idle" /\ Others(e)
    BY DEF Join, Ready, TypeInv, TypeOK, Others
  <1>3. /\ d \in RSADATA /\ d.state = pdata[e].state /\ d.aes_k = pdata[e].aes_k
        /\ d.pub_k = pdata[e].pub_k /\ d.queue = <<>>
    <2>1. <<>> \in Seq(Message)
      OBVIOUS
    <2>2. \A q \in Seq(Message) :
            LET n == [pdata[e] EXCEPT !.event = FALSE, !.time = FALSE, !.queue = q]
            IN  /\ n \in RSADATA /\ n.state = pdata[e].state /\ n.aes_k = pdata[e].aes_k
                /\ n.pub_k = pdata[e].pub_k /\ n.queue = q
      BY <1>1 DEF RSADATA
    <2>. QED  BY <2>1, <2>2
  <1>. HIDE DEF d
  <1>4. /\ pdata'[e].state = pdata[e].state /\ pdata'[e].aes_k = pdata[e].aes_k
        /\ pdata'[e].queue = <<>> /\ pdata'[e].pub_k = pdata[e].pub_k
    <2>1. Rearm(d).pub_k = d.pub_k
      BY <1>3 DEF Rearm, RSADATA
    <2>. QED  BY <1>2, <1>3, <2>1, RearmType
  <1>5. Change(e)
    <2>1. uin[e].cntx /\ (pdata'[e].state = 5 => pdata[e].state = 5)
      BY <1>1, <1>2, <1>4 DEF LocalAt
    <2>. QED  BY <1>1, <1>2, <1>4, <2>1, StoredChange
  <1>6. Moved(e)
    BY <1>2, <1>4, QuietMove
  <1>. QED  BY <1>2, <1>5, <1>6

-----------------------------------------------------------------------------
(* The worker.                                                             *)

LEMMA DoneFields ==
    ASSUME Ready, NEW e \in Endpoint, NEW d \in RSADATA, d.queue = pdata[e].queue, Done(e, d)
    PROVE  /\ pdata'[e].state = d.state /\ pdata'[e].aes_k = d.aes_k
           /\ pdata'[e].pub_k = d.pub_k /\ pdata'[e].queue = Tail(pdata[e].queue)
           /\ \A x \in Endpoint \ {e} : pdata'[x] = pdata[x]
           /\ main' = main /\ dialog' = dialog
  <1>. DEFINE r == Rearm(d)
  <1>1. /\ r \in RSADATA /\ r.state = d.state /\ r.aes_k = d.aes_k /\ r.queue = d.queue
        /\ r.pub_k = d.pub_k
    <2>1. Rearm(d).pub_k = d.pub_k
      BY DEF Rearm, RSADATA
    <2>. QED  BY <2>1, RearmType
  <1>2. main' = main /\ dialog' = dialog
    BY DEF Done
  <1>. DEFINE n == [r EXCEPT !.busy = FALSE, !.queue = Tail(r.queue)]
  <1>3. pdata'[e] = n /\ \A x \in Endpoint \ {e} : pdata'[x] = pdata[x]
    <2>1. pdata' = [pdata EXCEPT ![e] = [r EXCEPT !.busy = FALSE, !.queue = Tail(@)]]
      BY DEF Done
    <2>. HIDE DEF r
    <2>2. [r EXCEPT !.busy = FALSE, !.queue = Tail(@)] = n
      BY <1>1 DEF RSADATA
    <2>. HIDE DEF n
    <2>. QED  BY <2>1, <2>2 DEF Ready, TypeInv, TypeOK
  <1>4. n.state = r.state /\ n.aes_k = r.aes_k /\ n.pub_k = r.pub_k /\ n.queue = Tail(r.queue)
    <2>. HIDE DEF r
    <2>1. \A q : LET x == [r EXCEPT !.busy = FALSE, !.queue = q] IN
            x.state = r.state /\ x.aes_k = r.aes_k /\ x.pub_k = r.pub_k /\ x.queue = q
      BY <1>1 DEF RSADATA
    <2>. QED  BY <2>1
  <1>. HIDE DEF r, n
  <1>. QED  BY <1>1, <1>2, <1>3, <1>4

\* The worker has a message, so there is a context.
LEMMA Working ==
    ASSUME Ready, NEW e \in Endpoint, pdata[e].busy
    PROVE  LET m == Head(pdata[e].queue) IN
           /\ pdata[e].queue # <<>> /\ uin[e].cntx /\ m \in Message
           /\ m.type = "10" \/ Asks(m) => m.own = Peer(e)
           /\ pdata[e] \in RSADATA /\ LocalAt(e) /\ e \in PubKey /\ Peer(e) \in PubKey
           /\ lastKey \in Nat
  <1>1. pdata[e].queue # <<>> /\ LocalAt(e) /\ pdata[e] \in RSADATA /\ lastKey \in Nat
    BY DEF Ready, TypeInv, TypeOK, WorkerHasMessage, Local
  <1>2. uin[e].cntx
    BY <1>1 DEF LocalAt
  <1>3. e \in PubKey /\ Peer(e) \in PubKey
    BY PeerType DEF Endpoint, PubKey
  <1>. QED  BY <1>1, <1>2, <1>3, AskedKey DEF Ready

\* The worker draws a key and sends it.
LEMMA DrawMove ==
    ASSUME Ready, NEW e \in Endpoint, NEW d \in RSADATA, NEW t \in {"21", "32", "40"},
           pdata[e].busy, d.queue = pdata[e].queue, SendFreshKey(e, t, d),
           \/ t = "21" /\ Head(pdata[e].queue) \in KnownTo(e)
           \/ t # "21" /\ Head(pdata[e].queue).type \in {"22", "33", "34"}
    PROVE  /\ Moved(e) /\ lastKey' = lastKey + 1
           /\ pdata'[e].state = 5 /\ pdata'[e].pub_k = d.pub_k
           /\ \A x \in Endpoint \ {e} : pdata'[x] = pdata[x]
           /\ main' = main /\ dialog' = dialog
  <1>. DEFINE n == [d EXCEPT !.aes_k = lastKey + 1, !.state = 5]
              m == Sealed(t, e, d.pub_k, lastKey + 1)
  <1>1. /\ pdata[e].queue # <<>> /\ lastKey \in Nat /\ e \in PubKey
    BY Working
  <1>2. lastKey' = lastKey + 1 /\ Send(e, m) /\ Done(e, n)
    BY DEF SendFreshKey
  <1>3. n \in RSADATA /\ n.state = 5 /\ n.aes_k = lastKey + 1 /\ n.pub_k = d.pub_k
        /\ n.queue = d.queue
    <2>1. \A k \in Nat : LET x == [d EXCEPT !.aes_k = k, !.state = 5] IN
            /\ x \in RSADATA /\ x.state = 5 /\ x.aes_k = k /\ x.pub_k = d.pub_k
            /\ x.queue = d.queue
      BY DEF RSADATA
    <2>2. lastKey + 1 \in Nat
      BY <1>1
    <2>. QED  BY <2>1, <2>2
  <1>4. m \in Message /\ m.type = t /\ m.aes = lastKey + 1
    <2>1. d.pub_k \in PubKey \cup {None} /\ t \in Types
      BY DEF RSADATA, Types, WorkerTypes, Exchange
    <2>. QED  BY <1>1, <2>1, MessageTypes DEF Sealed
  <1>. HIDE DEF n, m
  <1>5. /\ pdata'[e].state = 5 /\ pdata'[e].aes_k = lastKey + 1 /\ pdata'[e].pub_k = d.pub_k
        /\ pdata'[e].queue = Tail(pdata[e].queue) /\ main' = main /\ dialog' = dialog
        /\ \A x \in Endpoint \ {e} : pdata'[x] = pdata[x]
    BY <1>2, <1>3, DoneFields
  <1>6. net'[e] = net[e] /\ net'[Peer(e)] = Append(net[Peer(e)], m)
    BY <1>2, NetMoves DEF Ready, TypeInv
  <1>7. DrawKey(View(e), View(Peer(e)), View(e)', View(Peer(e))', lastKey, lastKey')
    <2>. DEFINE v == View(e)
                v2 == View(e)'
                w == View(Peer(e))
                w2 == View(Peer(e))'
    <2>0. v2.state = 5 /\ v2.key = lastKey + 1
      BY <1>5, ViewFields
    <2>1. /\ v.queue # <<>> /\ v2.queue = Tail(v.queue) /\ v2.net = v.net /\ v2.main = v.main
          /\ w2.net = Append(w.net, m) /\ v.name = e
          /\ Head(pdata[e].queue) = Head(v.queue)
      <3>1. /\ v.queue = pdata[e].queue /\ v2.queue = pdata'[e].queue /\ v.name = e
            /\ v.net = net[e] /\ v2.net = net'[e] /\ v.main = main[e] /\ v2.main = main'[e]
            /\ w.net = net[Peer(e)] /\ w2.net = net'[Peer(e)]
        BY ViewFields
      <3>. HIDE DEF v, v2, w, w2
      <3>. QED  BY <1>1, <1>5, <1>6, <3>1
    <2>. HIDE DEF v, v2, w, w2
    <2>2. DrawKey(v, w, v2, w2, lastKey, lastKey')
      BY <1>2, <1>4, <2>0, <2>1 DEF DrawKey, Pops, Sends
    <2>. QED  BY <2>2 DEF v, v2, w, w2
  <1>. QED  BY <1>2, <1>5, <1>7 DEF Moved

\* The worker answers without a key.
LEMMA AnswerMove ==
    ASSUME Ready, NEW e \in Endpoint, NEW d \in RSADATA, NEW m \in Message,
           pdata[e].busy, d.queue = pdata[e].queue, d.aes_k = pdata[e].aes_k,
           d.state \in {3, 4}, Send(e, m), Done(e, d), lastKey' = lastKey,
           Head(pdata[e].queue).type \in {"10", "23", "24"},
           m.aes = 0, m.type \in {"22", "23", "24", "33", "34"},
           m.type # "23" => m.own = e,
           m.type = "22" => Head(pdata[e].queue) \in Stranger(e),
           m.type \in {"23", "24"} => main[e] # "reply"
    PROVE  /\ Moved(e) /\ pdata'[e].state # 5 /\ pdata'[e].pub_k = d.pub_k
           /\ \A x \in Endpoint \ {e} : pdata'[x] = pdata[x]
           /\ main' = main /\ dialog' = dialog
  <1>1. pdata[e].queue # <<>>
    BY Working
  <1>2. /\ pdata'[e].state \in {3, 4} /\ pdata'[e].aes_k = pdata[e].aes_k
        /\ pdata'[e].queue = Tail(pdata[e].queue) /\ main' = main /\ dialog' = dialog
        /\ pdata'[e].pub_k = d.pub_k
        /\ \A x \in Endpoint \ {e} : pdata'[x] = pdata[x]
    BY DoneFields
  <1>3. net'[e] = net[e] /\ net'[Peer(e)] = Append(net[Peer(e)], m)
    BY NetMoves DEF Ready, TypeInv
  <1>4. AnswerKey(View(e), View(Peer(e)), View(e)', View(Peer(e))', lastKey, lastKey')
    <2>. DEFINE v == View(e)
                v2 == View(e)'
                w == View(Peer(e))
                w2 == View(Peer(e))'
    <2>1. /\ v.queue # <<>> /\ v2.queue = Tail(v.queue) /\ v2.net = v.net /\ v2.main = v.main
          /\ v2.state \in {3, 4} /\ v2.key = v.key /\ w2.net = Append(w.net, m) /\ v.name = e
          /\ Head(pdata[e].queue) = Head(v.queue) /\ v.main = main[e]
      BY <1>1, <1>2, <1>3, ViewFields
    <2>. HIDE DEF v, v2, w, w2
    <2>2. AnswerKey(v, w, v2, w2, lastKey, lastKey')
      BY <1>1, <2>1 DEF AnswerKey, Pops, Sends
    <2>. QED  BY <2>2 DEF v, v2, w, w2
  <1>. QED  BY <1>2, <1>4 DEF Moved

\* What the worker leaves, when it stores no key ...
LEMMA WorkerChange ==
    ASSUME Ready, NEW e \in Endpoint, pdata[e].busy, uin' = uin,
           pdata'[e].pub_k = pdata[e].pub_k,
           pdata'[e].state = 5 => pdata[e].pub_k = Peer(e),
           \A x \in Endpoint \ {e} : pdata'[x] = pdata[x],
           main' = main, dialog' = dialog
    PROVE  Change(e)
  <1>1. uin[e].cntx /\ TypeInv /\ Local /\ Others(e)
    BY Working DEF Ready, Others
  <1>. QED  BY <1>1, StoredChange

\* ... and when it stores one.
LEMMA AcceptChange ==
    ASSUME Ready, NEW e \in Endpoint, uin[e].cntx,
           uin' = [uin EXCEPT ![e] = [@ EXCEPT !.rsa_pub = Peer(e), !.keyLoaded = TRUE]],
           pdata'[e].pub_k = Peer(e),
           \A x \in Endpoint \ {e} : pdata'[x] = pdata[x],
           main' = main, dialog' = dialog
    PROVE  Change(e)
  <1>1. uin[e] \in UinKey /\ LocalAt(e) /\ Peer(e) \in Endpoint
    BY LocalKeys DEF Ready, TypeInv
  <1>2. uin'[e].cntx /\ uin'[e].rsa_pub = Peer(e) /\ \A x \in Endpoint \ {e} : uin'[x] = uin[x]
    <2>. DEFINE u == [uin[e] EXCEPT !.rsa_pub = Peer(e), !.keyLoaded = TRUE]
    <2>1. uin'[e] = u /\ \A x \in Endpoint \ {e} : uin'[x] = uin[x]
      BY DEF Ready, TypeInv, TypeOK
    <2>2. u.cntx /\ u.rsa_pub = Peer(e)
      BY <1>1 DEF UinKey
    <2>. QED  BY <2>1, <2>2
  <1>3. LocalAt(e)'
    BY <1>1, <1>2 DEF LocalAt
  <1>4. Pub(e)' = Peer(e)
    BY <1>2 DEF Pub
  <1>. QED  BY <1>2, <1>3, <1>4 DEF Change

LEMMA HandleConnectMove ==
    ASSUME Ready, NEW e \in Endpoint, pdata[e].busy,
           HandleConnect(e, Head(pdata[e].queue))
    PROVE  Change(e) /\ Moved(e) /\ lastKey <= lastKey'
  <1>. DEFINE h == Head(pdata[e].queue)
              lr == pdata[e].pub_k = h.own
              ll == h.peer = e
  <1>1. /\ uin[e].cntx /\ h \in Message /\ h.type = "10" /\ h.own = Peer(e)
        /\ pdata[e] \in RSADATA /\ LocalAt(e) /\ e \in PubKey /\ lastKey \in Nat /\ uin' = uin
    BY Working DEF HandleConnect
  <1>2. CASE lr /\ ll
    <2>1. SendFreshKey(e, "21", pdata[e])
      BY <1>2 DEF HandleConnect
    <2>2. h \in KnownTo(e)
      BY <1>1, <1>2 DEF KnownTo
    <2>3. /\ Moved(e) /\ lastKey' = lastKey + 1
          /\ pdata'[e].state = 5 /\ pdata'[e].pub_k = pdata[e].pub_k
          /\ \A x \in Endpoint \ {e} : pdata'[x] = pdata[x]
          /\ main' = main /\ dialog' = dialog
      BY <1>1, <2>1, <2>2, DrawMove
    <2>4. Change(e)
      BY <1>1, <1>2, <2>3, WorkerChange
    <2>5. lastKey <= lastKey'
      BY <1>1, <2>3
    <2>. QED  BY <2>3, <2>4, <2>5
  <1>3. CASE ~(lr /\ ll)
    <2>. DEFINE m == IF ll THEN Plain("23") ELSE WithPub(IF lr THEN "22" ELSE "24", e, None)
                d == [pdata[e] EXCEPT !.state = 3]
    <2>1. Send(e, m) /\ Done(e, d) /\ lastKey' = lastKey
      BY <1>3 DEF HandleConnect
    <2>2. /\ d \in RSADATA /\ d.queue = pdata[e].queue /\ d.aes_k = pdata[e].aes_k
          /\ d.state \in {3, 4} /\ d.pub_k = pdata[e].pub_k
      BY <1>1 DEF RSADATA
    <2>3. /\ m \in Message /\ m.aes = 0 /\ m.type \in {"22", "23", "24", "33", "34"}
          /\ m.type # "23" => m.own = e
          /\ m.type = "22" => ~ll
          /\ m.type \in {"23", "24"} => ~lr
      <3>1. \A t \in {"22", "24"} : LET x == WithPub(t, e, None)
                                    IN  x \in Message /\ x.aes = 0 /\ x.type = t /\ x.own = e
        BY <1>1, MessageTypes DEF Types, WorkerTypes, Exchange, WithPub, NoKey
      <3>2. Plain("23") \in Message /\ Plain("23").aes = 0 /\ Plain("23").type = "23"
        BY MessageTypes DEF Types, WorkerTypes, Exchange, Plain, NoKey
      <3>. QED  BY <1>3, <3>1, <3>2
    <2>. HIDE DEF d, m
    <2>4. m.type = "22" => h \in Stranger(e)
      BY <1>1, <2>3 DEF Stranger
    <2>5. m.type \in {"23", "24"} => main[e] # "reply"
      BY <1>1, <2>3 DEF LocalAt
    <2>6. /\ Moved(e) /\ pdata'[e].state # 5 /\ pdata'[e].pub_k = d.pub_k
          /\ \A x \in Endpoint \ {e} : pdata'[x] = pdata[x]
          /\ main' = main /\ dialog' = dialog
      BY <1>1, <2>1, <2>2, <2>3, <2>4, <2>5, AnswerMove
    <2>7. Change(e)
      BY <1>1, <2>2, <2>6, WorkerChange
    <2>. QED  BY <1>1, <2>1, <2>6, <2>7
  <1>. QED  BY <1>2, <1>3

LEMMA HandleKeyWantedMove ==
    ASSUME Ready, NEW e \in Endpoint, pdata[e].busy,
           HandleKeyWanted(e, Head(pdata[e].queue))
    PROVE  Change(e) /\ Moved(e) /\ lastKey' = lastKey
  <1>. DEFINE h == Head(pdata[e].queue)
              d == [pdata[e] EXCEPT !.state = 4]
              m == WithPub("33", e, None)
  <1>1. h.type = "23" /\ pdata[e] \in RSADATA /\ e \in PubKey
    BY Working DEF HandleKeyWanted
  <1>2. Send(e, m) /\ Done(e, d) /\ uin' = uin /\ lastKey' = lastKey
    BY DEF HandleKeyWanted
  <1>3. /\ d \in RSADATA /\ d.queue = pdata[e].queue /\ d.aes_k = pdata[e].aes_k
        /\ d.state \in {3, 4} /\ d.pub_k = pdata[e].pub_k
    BY <1>1 DEF RSADATA
  <1>4. m \in Message /\ m.aes = 0 /\ m.type = "33" /\ m.own = e
    BY <1>1, MessageTypes DEF Types, WorkerTypes, Exchange, WithPub, NoKey
  <1>. HIDE DEF d, m
  <1>5. /\ Moved(e) /\ pdata'[e].state # 5 /\ pdata'[e].pub_k = d.pub_k
        /\ \A x \in Endpoint \ {e} : pdata'[x] = pdata[x]
        /\ main' = main /\ dialog' = dialog
    BY <1>1, <1>2, <1>3, <1>4, AnswerMove
  <1>6. Change(e)
    BY <1>2, <1>3, <1>5, WorkerChange
  <1>. QED  BY <1>2, <1>5, <1>6

LEMMA AcceptKeyMove ==
    ASSUME Ready, NEW e \in Endpoint, pdata[e].busy, AcceptKey(e, Head(pdata[e].queue))
    PROVE  Change(e) /\ Moved(e) /\ lastKey <= lastKey'
  <1>. DEFINE h == Head(pdata[e].queue)
              d == [pdata[e] EXCEPT !.pub_k = h.own]
  <1>1. /\ uin[e].cntx /\ Asks(h) /\ h.own = Peer(e) /\ Peer(e) \in PubKey
        /\ pdata[e] \in RSADATA /\ e \in PubKey /\ lastKey \in Nat
    BY Working DEF AcceptKey
  <1>2. uin' = [uin EXCEPT ![e] = [@ EXCEPT !.rsa_pub = Peer(e), !.keyLoaded = TRUE]]
    <2>1. uin' = [uin EXCEPT ![e] = [@ EXCEPT !.rsa_pub = h.own, !.keyLoaded = TRUE]]
      BY DEF AcceptKey
    <2>. QED  BY <1>1, <2>1
  <1>3. /\ d \in RSADATA /\ d.queue = pdata[e].queue /\ d.aes_k = pdata[e].aes_k
        /\ d.pub_k = Peer(e)
    <2>1. d = [pdata[e] EXCEPT !.pub_k = Peer(e)]
      BY <1>1
    <2>. HIDE DEF d
    <2>. QED  BY <1>1, <2>1 DEF RSADATA
  <1>4. CASE h.type = "24"
    <2>. DEFINE m == WithPub("34", e, None)
                n == [d EXCEPT !.state = 4]
    <2>1. Send(e, m) /\ Done(e, n) /\ lastKey' = lastKey
      BY <1>4 DEF AcceptKey
    <2>. HIDE DEF d
    <2>2. /\ n \in RSADATA /\ n.queue = pdata[e].queue /\ n.aes_k = pdata[e].aes_k
          /\ n.state \in {3, 4} /\ n.pub_k = Peer(e)
      BY <1>3 DEF RSADATA
    <2>3. m \in Message /\ m.aes = 0 /\ m.type = "34" /\ m.own = e
      BY <1>1, MessageTypes DEF Types, WorkerTypes, Exchange, WithPub, NoKey
    <2>. HIDE DEF n, m
    <2>4. /\ Moved(e) /\ pdata'[e].pub_k = n.pub_k
          /\ \A x \in Endpoint \ {e} : pdata'[x] = pdata[x]
          /\ main' = main /\ dialog' = dialog
      BY <1>4, <2>1, <2>2, <2>3, AnswerMove
    <2>5. Change(e)
      <3>1. pdata'[e].pub_k = Peer(e)
        BY <2>2, <2>4
      <3>. QED  BY <1>1, <1>2, <2>4, <3>1, AcceptChange
    <2>. QED  BY <1>1, <2>1, <2>4, <2>5
  <1>5. CASE h.type # "24"
    <2>1. PICK t \in {"32", "40"} : SendFreshKey(e, t, d)
      BY <1>5 DEF AcceptKey
    <2>2. h.type \in {"22", "33", "34"}
      BY <1>1, <1>5 DEF Asks
    <2>. HIDE DEF d
    <2>3. /\ Moved(e) /\ lastKey' = lastKey + 1 /\ pdata'[e].pub_k = d.pub_k
          /\ \A x \in Endpoint \ {e} : pdata'[x] = pdata[x]
          /\ main' = main /\ dialog' = dialog
      BY <1>3, <2>1, <2>2, DrawMove
    <2>4. Change(e)
      <3>1. pdata'[e].pub_k = Peer(e)
        BY <1>3, <2>3
      <3>. QED  BY <1>1, <1>2, <2>3, <3>1, AcceptChange
    <2>5. lastKey <= lastKey'
      BY <1>1, <2>3
    <2>. QED  BY <2>3, <2>4, <2>5
  <1>. QED  BY <1>4, <1>5

\* The worker gives up: rsa_check_pub says no, or the AES key does not open.
LEMMA GiveUpMove ==
    ASSUME Ready, NEW e \in Endpoint, Send(e, Plain("00")), Shut(e),
           dialog' = LeaveDialog(e) \/ dialog' = dialog
    PROVE  Change(e) /\ Moved(e) /\ lastKey' = lastKey
  <1>1. net'[e] = net[e] /\ net'[Peer(e)] = Append(net[Peer(e)], Plain("00"))
    BY NetMoves DEF Ready, TypeInv
  <1>2. Plain("00") \in Message /\ Plain("00").type = "00" /\ Plain("00").aes <= lastKey
    BY JunkMessages
  <1>. QED  BY <1>1, <1>2, ShutMove

LEMMA HandleAesKeyMove ==
    ASSUME Ready, NEW e \in Endpoint, pdata[e].busy,
           HandleAesKey(e, Head(pdata[e].queue))
    PROVE  Change(e) /\ Moved(e) /\ lastKey' = lastKey
  <1>. DEFINE h == Head(pdata[e].queue)
  <1>1. /\ pdata[e].queue # <<>> /\ h \in Message /\ h.type \in {"21", "32", "40"}
        /\ pdata[e] \in RSADATA
    BY Working DEF HandleAesKey
  <1>2. CASE ~Opens(e, pdata[e], h)
    BY <1>2, GiveUpMove DEF HandleAesKey, Close
  <1>3. CASE Opens(e, pdata[e], h)
    <2>. DEFINE d == [pdata[e] EXCEPT !.aes_k = h.aes, !.state = 6]
                m == WithAes("50", h.aes)
    <2>1. Send(e, m) /\ Done(e, d) /\ uin' = uin /\ lastKey' = lastKey
      BY <1>3 DEF HandleAesKey
    <2>2. h.aes \in Nat
      BY <1>1 DEF Message
    <2>3. /\ d \in RSADATA /\ d.queue = pdata[e].queue /\ d.aes_k = h.aes
          /\ d.state = 6 /\ d.pub_k = pdata[e].pub_k
      <3>1. \A k \in Nat : LET x == [pdata[e] EXCEPT !.aes_k = k, !.state = 6] IN
              /\ x \in RSADATA /\ x.state = 6 /\ x.aes_k = k /\ x.pub_k = pdata[e].pub_k
              /\ x.queue = pdata[e].queue
        BY <1>1 DEF RSADATA
      <3>. QED  BY <2>2, <3>1
    <2>4. m \in Message
      BY <2>2, MessageTypes DEF Types
    <2>. HIDE DEF d
    <2>5. /\ pdata'[e].state = 6 /\ pdata'[e].aes_k = h.aes
          /\ pdata'[e].pub_k = pdata[e].pub_k /\ pdata'[e].queue = Tail(pdata[e].queue)
          /\ \A x \in Endpoint \ {e} : pdata'[x] = pdata[x]
          /\ main' = main /\ dialog' = dialog
      BY <2>1, <2>3, DoneFields
    <2>6. Change(e)
      BY <2>1, <2>5, WorkerChange
    <2>7. net'[e] = net[e] /\ net'[Peer(e)] = Append(net[Peer(e)], m)
      BY <2>1, NetMoves DEF Ready, TypeInv
    <2>8. LearnKey(View(e), View(Peer(e)), View(e)', View(Peer(e))', lastKey, lastKey')
      <3>. DEFINE v == View(e)
                  v2 == View(e)'
                  w == View(Peer(e))
                  w2 == View(Peer(e))'
      <3>1. /\ v.queue # <<>> /\ v2.queue = Tail(v.queue) /\ v2.net = v.net /\ v2.main = v.main
            /\ v2.state = 6 /\ v2.key = h.aes /\ w2.net = Append(w.net, m)
            /\ Head(pdata[e].queue) = Head(v.queue)
        <4>1. /\ v.name = e /\ v.state = pdata[e].state /\ v2.state = pdata'[e].state
                /\ v.key = pdata[e].aes_k /\ v2.key = pdata'[e].aes_k
                /\ v.queue = pdata[e].queue /\ v2.queue = pdata'[e].queue
                /\ v.main = main[e] /\ v2.main = main'[e] /\ v.net = net[e] /\ v2.net = net'[e]
                /\ w.net = net[Peer(e)] /\ w2.net = net'[Peer(e)] /\ v2.pub = Pub(e)'
          BY ViewFields
        <4>. HIDE DEF v, v2, w, w2, m
        <4>. QED  BY <1>1, <2>5, <2>7, <4>1
      <3>. HIDE DEF v, v2, w, w2
      <3>2. LearnKey(v, w, v2, w2, lastKey, lastKey')
        BY <1>1, <2>1, <2>4, <3>1 DEF LearnKey, Pops, Sends
      <3>. QED  BY <3>2 DEF v, v2, w, w2
    <2>. QED  BY <2>1, <2>6, <2>8 DEF Moved
  <1>. QED  BY <1>2, <1>3

LEMMA WorkMoves ==
    ASSUME Ready, NEW e \in Endpoint, Work(e)
    PROVE  Change(e) /\ Moved(e) /\ lastKey <= lastKey'
  <1>. DEFINE h == Head(pdata[e].queue)
  <1>1. pdata[e].busy /\ lastKey \in Nat
    BY DEF Work, Ready, TypeInv, TypeOK
  <1>2. CASE HandleConnect(e, h)
    BY <1>1, <1>2, HandleConnectMove
  <1>3. CASE HandleKeyWanted(e, h)
    BY <1>1, <1>3, HandleKeyWantedMove
  <1>4. CASE AcceptKey(e, h)
    BY <1>1, <1>4, AcceptKeyMove
  <1>5. CASE RefuseKey(e, h)
    BY <1>1, <1>5, GiveUpMove DEF RefuseKey
  <1>6. CASE HandleAesKey(e, h)
    BY <1>1, <1>6, HandleAesKeyMove
  <1>. QED  BY <1>2, <1>3, <1>4, <1>5, <1>6 DEF Work

-----------------------------------------------------------------------------
(* The other steps.                                                        *)

\* A step that leaves in the context what the invariant is about.
LEMMA PlainMove ==
    ASSUME Ready, NEW e \in Endpoint, Others(e), uin' = uin, main' = main, lastKey' = lastKey,
           pdata'[e].state = pdata[e].state, pdata'[e].aes_k = pdata[e].aes_k,
           pdata'[e].queue = pdata[e].queue, pdata'[e].pub_k = pdata[e].pub_k,
           net'[e] = net[e] \/ (net[e] # <<>> /\ net'[e] = Tail(net[e])),
           net'[Peer(e)] = net[Peer(e)]
    PROVE  Change(e) /\ Moved(e) /\ lastKey' = lastKey
  <1>1. LocalAt(e) /\ TypeInv /\ Local
    BY DEF Ready, Local
  <1>2. LocalAt(e)'
    BY <1>1 DEF LocalAt, Others
  <1>3. Pub(e)' = Pub(e)
    BY DEF Pub
  <1>4. Change(e)
    BY <1>2, <1>3 DEF Change, Others
  <1>5. Moved(e)
    BY QuietMove
  <1>. QED  BY <1>4, <1>5

LEMMA TakeExpireMove ==
    ASSUME Ready, NEW e \in Endpoint, Take(e) \/ Expire(e)
    PROVE  Change(e) /\ Moved(e) /\ lastKey' = lastKey
  <1>1. pdata[e] \in RSADATA
    BY DEF Ready, TypeInv, TypeOK
  <1>2. /\ uin' = uin /\ main' = main /\ lastKey' = lastKey /\ net' = net /\ Others(e)
        /\ \/ pdata'[e] = [pdata[e] EXCEPT !.busy = TRUE]
           \/ pdata'[e] = [pdata[e] EXCEPT !.expired = TRUE]
    BY DEF Take, Expire, Others, Ready, TypeInv, TypeOK
  <1>3. /\ pdata'[e].state = pdata[e].state /\ pdata'[e].aes_k = pdata[e].aes_k
        /\ pdata'[e].queue = pdata[e].queue /\ pdata'[e].pub_k = pdata[e].pub_k
    <2>1. /\ \A b : LET d == [pdata[e] EXCEPT !.busy = b] IN
               /\ d.state = pdata[e].state /\ d.aes_k = pdata[e].aes_k
               /\ d.queue = pdata[e].queue /\ d.pub_k = pdata[e].pub_k
          /\ \A b : LET d == [pdata[e] EXCEPT !.expired = b] IN
               /\ d.state = pdata[e].state /\ d.aes_k = pdata[e].aes_k
               /\ d.queue = pdata[e].queue /\ d.pub_k = pdata[e].pub_k
      BY <1>1 DEF RSADATA
    <2>2. CASE pdata'[e] = [pdata[e] EXCEPT !.busy = TRUE]
      BY <2>1, <2>2
    <2>3. CASE pdata'[e] = [pdata[e] EXCEPT !.expired = TRUE]
      BY <2>1, <2>3
    <2>. QED  BY <1>2, <2>2, <2>3
  <1>. QED
    <2>1. net'[e] = net[e] /\ net'[Peer(e)] = net[Peer(e)]
      BY <1>2
    <2>. QED  BY <1>2, <1>3, <2>1, PlainMove

LEMMA LoseMove ==
    ASSUME Ready, NEW e \in Endpoint, Lose(e)
    PROVE  Change(e) /\ Moved(e) /\ lastKey' = lastKey
  <1>1. /\ uin' = uin /\ main' = main /\ lastKey' = lastKey /\ pdata' = pdata /\ Others(e)
        /\ net[e] # <<>> /\ Consume(e)
    BY DEF Lose, Others
  <1>2. net'[e] = Tail(net[e]) /\ net'[Peer(e)] = net[Peer(e)]
    BY <1>1, NetMoves DEF Ready, TypeInv
  <1>3. /\ pdata'[e].state = pdata[e].state /\ pdata'[e].aes_k = pdata[e].aes_k
        /\ pdata'[e].queue = pdata[e].queue /\ pdata'[e].pub_k = pdata[e].pub_k
    BY <1>1
  <1>. QED  BY <1>1, <1>2, <1>3, PlainMove

LEMMA TimeoutMove ==
    ASSUME Ready, NEW e \in Endpoint, Timeout(e)
    PROVE  Change(e) /\ Moved(e) /\ lastKey' = lastKey
  BY CloseMove DEF Timeout

\* A question left on the screen is about the other contact's key.
LEMMA LateMoves ==
    ASSUME Ready, NEW e \in Endpoint, LateAccept(e) \/ LateRefuse(e)
    PROVE  Change(e) /\ Moved(e) /\ lastKey' = lastKey
  <1>1. LocalAt(e) /\ uin[e] \in UinKey /\ TypeInv
    BY LocalKeys DEF Ready, TypeInv
  <1>2. /\ dialog'[e] \subseteq dialog[e]
        /\ \A x \in Endpoint \ {e} : dialog'[x] = dialog[x] /\ uin'[x] = uin[x]
        /\ UNCHANGED <<net, pdata, main, lastKey>>
        /\ \/ uin' = uin
           \/ \E k \in dialog[e] : uin'[e] = [uin[e] EXCEPT !.rsa_pub = k, !.keyLoaded = TRUE]
    <2>1. uin \in [Endpoint -> UinKey] /\ dialog \in [Endpoint -> SUBSET (PubKey \cup {None})]
      BY <1>1 DEF TypeInv, TypeOK
    <2>2. CASE LateAccept(e)
      <3>1. PICK k \in dialog[e] :
              /\ dialog' = [dialog EXCEPT ![e] = dialog[e] \ {k}]
              /\ uin' = [uin EXCEPT ![e] = [uin[e] EXCEPT !.rsa_pub = k, !.keyLoaded = TRUE]]
              /\ UNCHANGED <<net, pdata, main, lastKey>>
        BY <2>2 DEF LateAccept
      <3>2. /\ dialog'[e] = dialog[e] \ {k}
            /\ \A x \in Endpoint \ {e} : dialog'[x] = dialog[x]
        BY <2>1, <3>1
      <3>3. /\ uin'[e] = [uin[e] EXCEPT !.rsa_pub = k, !.keyLoaded = TRUE]
            /\ \A x \in Endpoint \ {e} : uin'[x] = uin[x]
        BY <2>1, <3>1
      <3>. QED  BY <3>1, <3>2, <3>3
    <2>3. CASE LateRefuse(e)
      BY <2>1, <2>3 DEF LateRefuse
    <2>. QED  BY <2>2, <2>3
  <1>3. /\ uin'[e].cntx = uin[e].cntx
        /\ uin'[e].rsa_pub \in {uin[e].rsa_pub, Peer(e)}
    <2>1. \A k, b : LET u == [uin[e] EXCEPT !.rsa_pub = k, !.keyLoaded = b]
                    IN  u.cntx = uin[e].cntx /\ u.rsa_pub = k
      BY <1>1 DEF UinKey
    <2>2. CASE uin' = uin
      BY <2>2
    <2>3. ASSUME NEW k \in dialog[e], uin'[e] = [uin[e] EXCEPT !.rsa_pub = k, !.keyLoaded = TRUE]
          PROVE  uin'[e].cntx = uin[e].cntx /\ uin'[e].rsa_pub = Peer(e)
      <3>1. k = Peer(e)
        BY <1>1, <2>3 DEF LocalAt
      <3>. QED  BY <2>1, <2>3, <3>1
    <2>. QED  BY <1>2, <2>2, <2>3
  <1>4. LocalAt(e)'
    BY <1>1, <1>2, <1>3 DEF LocalAt
  <1>5. Pub(e) = Peer(e) => Pub(e)' = Peer(e)
    BY <1>2, <1>3 DEF Pub
  <1>6. Moved(e)
    BY <1>2, QuietMove
  <1>. QED  BY <1>2, <1>4, <1>5, <1>6 DEF Change

\* Every step but a repetition is a move of one contact.
LEMMA NextMoves ==
    ASSUME Ready, Next, budget["dup"] = 0
    PROVE  \E e \in Endpoint : Change(e) /\ Moved(e) /\ lastKey <= lastKey'
  <1>1. lastKey \in Nat
    BY DEF Ready, TypeInv, TypeOK
  <1>2. PICK e \in Endpoint :
          \/ User(e) \/ RecvWhileDisabled(e) \/ Recv(e) \/ Establish(e) \/ Join(e)
          \/ Take(e) \/ Work(e) \/ LateAccept(e) \/ LateRefuse(e)
          \/ Expire(e) \/ Timeout(e) \/ Lose(e) \/ Duplicate(e)
    BY DEF Next
  <1>3. ~Duplicate(e)
    BY DEF Duplicate, Spend
  <1>. SUFFICES Change(e) /\ Moved(e) /\ (lastKey' = lastKey \/ lastKey <= lastKey')
    BY <1>1
  <1>4. CASE User(e)
    BY <1>4, UserMoves
  <1>5. CASE RecvWhileDisabled(e) \/ Recv(e)
    BY <1>5, RecvMoves
  <1>6. CASE Establish(e)
    BY <1>6, EstablishMove
  <1>7. CASE Join(e)
    BY <1>7, JoinMove
  <1>8. CASE Work(e)
    BY <1>8, WorkMoves
  <1>9. CASE Take(e) \/ Expire(e)
    BY <1>9, TakeExpireMove
  <1>10. CASE LateAccept(e) \/ LateRefuse(e)
    BY <1>10, LateMoves
  <1>11. CASE Timeout(e)
    BY <1>11, TimeoutMove
  <1>12. CASE Lose(e)
    BY <1>12, LoseMove
  <1>. QED  BY <1>2, <1>3, <1>4, <1>5, <1>6, <1>7, <1>8, <1>9, <1>10, <1>11, <1>12

-----------------------------------------------------------------------------
(* The theorem.                                                            *)

AgreeInv ==
    /\ TypeInv /\ Local /\ budget["dup"] = 0
    /\ Agreed(View(Alice), View(Bob), lastKey)

LEMMA AgreeReady ==
    ASSUME AgreeInv
    PROVE  /\ Ready
           /\ \A e \in Endpoint : Agreed(View(e), View(Peer(e)), lastKey)
  <1>1. ASSUME NEW e \in Endpoint
        PROVE  Agreed(View(e), View(Peer(e)), lastKey)
    <2>1. \/ e = Alice /\ Peer(e) = Bob
          \/ e = Bob /\ Peer(e) = Alice
      BY ConstantsOK DEF Endpoint, Peer
    <2>. QED  BY <2>1 DEF AgreeInv, Agreed
  <1>2. ASSUME NEW e \in Endpoint
        PROVE  Signed(View(e), View(Peer(e))) /\ View(e).key <= lastKey
    BY <1>1 DEF Agreed, Sound, Numbered
  <1>3. \A e \in Endpoint : pdata[e].aes_k <= lastKey
    BY <1>2, ViewFields
  <1>. QED  BY <1>1, <1>2, <1>3 DEF AgreeInv, Ready, SignedNet

LEMMA MovedKeeps ==
    ASSUME AgreeInv, TypeInv', NEW e \in Endpoint, Change(e), Moved(e), lastKey <= lastKey'
    PROVE  Local' /\ Agreed(View(Alice), View(Bob), lastKey)'
  <1>. DEFINE v == View(e)
              w == View(Peer(e))
              v2 == View(e)'
              w2 == View(Peer(e))'
  <1>1. Frame(v, w, v2, w2, lastKey, lastKey') /\ Local'
    BY ChangeFrame DEF AgreeInv, TypeInv
  <1>2. IsView(v) /\ IsView(w) /\ IsView(v2)
    BY PeerType, ViewType DEF AgreeInv, TypeInv
  <1>3. Agreed(v, w, lastKey)
    BY AgreeReady
  <1>4. \/ Quiet(v, w, v2, w2, lastKey, lastKey') \/ Begin(v, w, v2, w2, lastKey, lastKey')
        \/ Enqueue(v, w, v2, w2, lastKey, lastKey') \/ TestKey(v, w, v2, w2, lastKey, lastKey')
        \/ OpenSession(v, w, v2, w2, lastKey, lastKey')
        \/ DrawKey(v, w, v2, w2, lastKey, lastKey') \/ AnswerKey(v, w, v2, w2, lastKey, lastKey')
        \/ LearnKey(v, w, v2, w2, lastKey, lastKey')
    BY DEF Moved
  <1>5. Agreed(v2, w2, lastKey')
    <2>. HIDE DEF v, w, v2, w2
    <2>. QED  BY <1>1, <1>2, <1>3, <1>4, QuietKeeps, BeginKeeps, EnqueueKeeps, TestKeeps,
                 OpenKeeps, DrawKeeps, AnswerKeeps, LearnKeeps
  <1>6. Agreed(View(Alice)', View(Bob)', lastKey')
    <2>1. \/ e = Alice /\ Peer(e) = Bob
          \/ e = Bob /\ Peer(e) = Alice
      BY ConstantsOK DEF Endpoint, Peer
    <2>2. CASE e = Alice /\ Peer(e) = Bob
      BY <1>5, <2>2
    <2>3. CASE e = Bob /\ Peer(e) = Alice
      <3>1. Agreed(View(Bob)', View(Alice)', lastKey')
        BY <1>5, <2>3
      <3>. QED  BY <3>1 DEF Agreed
    <2>. QED  BY <2>1, <2>2, <2>3
  <1>. QED  BY <1>1, <1>6

LEMMA NoRepetition ==
    ASSUME TypeOK, Next, budget["dup"] = 0
    PROVE  budget'["dup"] = 0
  <1>1. budget \in [{"connect", "user", "loss", "dup"} -> Nat]
    BY DEF TypeOK
  <1>2. \A what \in {"connect", "user", "loss"} : Spend(what) => budget'["dup"] = 0
    BY <1>1 DEF Spend
  <1>3. ~Spend("dup")
    BY DEF Spend
  <1>4. ASSUME NEW e \in Endpoint, Work(e)  PROVE UNCHANGED budget
    BY <1>4 DEF Work, Handles, HandleConnect, HandleKeyWanted, AcceptKey, RefuseKey, HandleAesKey
  <1>5. ASSUME NEW e \in Endpoint, Recv(e) \/ RecvWhileDisabled(e)  PROVE UNCHANGED budget
    BY <1>5 DEF RecvWhileDisabled, Recv, RecvUnreadable, RecvWrongStep, RecvForWorker, RecvTest,
                RecvData, RecvOffline, RecvDisconnect, Arrives
  <1>6. ASSUME NEW e \in Endpoint, User(e)  PROVE Spend("connect") \/ Spend("user")
    BY <1>6 DEF User, Connect, Disconnect, GoesOffline, SendData, SendOffline, SetStatus,
                CommandWhileDisabled
  <1>7. ASSUME NEW e \in Endpoint,
               \/ Establish(e) \/ Join(e) \/ Take(e) \/ LateAccept(e) \/ LateRefuse(e)
               \/ Expire(e) \/ Timeout(e)
        PROVE  UNCHANGED budget
    BY <1>7 DEF Establish, Join, Take, LateAccept, LateRefuse, Expire, Timeout
  <1>8. ASSUME NEW e \in Endpoint, Lose(e)  PROVE Spend("loss")
    BY <1>8 DEF Lose
  <1>9. ASSUME NEW e \in Endpoint, Duplicate(e)  PROVE FALSE
    BY <1>3, <1>9 DEF Duplicate
  <1>. QED  BY <1>2, <1>4, <1>5, <1>6, <1>7, <1>8, <1>9 DEF Next

LEMMA AgreeNext ==
    ASSUME AgreeInv, TypeInv', [Next]_vars
    PROVE  AgreeInv'
  <1>1. CASE Next
    <2>1. Ready /\ TypeOK /\ budget["dup"] = 0
      BY AgreeReady DEF AgreeInv, TypeInv
    <2>2. PICK e \in Endpoint : Change(e) /\ Moved(e) /\ lastKey <= lastKey'
      BY <1>1, <2>1, NextMoves
    <2>3. Local' /\ Agreed(View(Alice), View(Bob), lastKey)'
      BY <2>2, MovedKeeps
    <2>4. budget'["dup"] = 0
      BY <1>1, <2>1, NoRepetition
    <2>. QED  BY <2>3, <2>4 DEF AgreeInv
  <1>2. CASE UNCHANGED vars
    <2>1. Local'
      BY <1>2 DEF vars, AgreeInv, Local, LocalAt
    <2>2. View(Alice)' = View(Alice) /\ View(Bob)' = View(Bob) /\ lastKey' = lastKey
      BY <1>2 DEF vars, View, Pub
    <2>3. Agreed(View(Alice), View(Bob), lastKey)'
      BY <2>2 DEF AgreeInv
    <2>4. budget'["dup"] = 0
      BY <1>2 DEF vars, AgreeInv
    <2>. QED  BY <2>1, <2>3, <2>4 DEF AgreeInv
  <1>. QED  BY <1>1, <1>2

LEMMA AgreeInit ==
    ASSUME MaxDup = 0, Init, TypeInv
    PROVE  AgreeInv
  <1>1. \A e \in Endpoint : /\ net[e] = <<>> /\ pdata[e] = FreshData /\ main[e] = "idle"
                            /\ dialog[e] = {} /\ uin[e].cntx = FALSE
    BY DEF Init
  <1>2. /\ FreshData.state = 0 /\ FreshData.pub_k = None /\ FreshData.aes_k = 0
        /\ FreshData.queue = <<>>
    BY DEF FreshData, NoKey
  <1>3. lastKey = 0 /\ budget["dup"] = 0
    BY DEF Init
  <1>4. Local
    <2>. SUFFICES ASSUME NEW e \in Endpoint PROVE LocalAt(e)
      BY DEF Local
    <2>1. Peer(e) # None
      BY PeerType, ConstantsOK DEF Endpoint
    <2>. QED  BY <1>1, <1>2, <2>1 DEF LocalAt
  <1>5. ASSUME NEW e \in Endpoint
        PROVE  /\ View(e).state = 0 /\ View(e).key = 0 /\ View(e).main = "idle"
               /\ View(e).queue = <<>> /\ View(e).net = <<>>
    BY <1>1, <1>2, ViewFields
  <1>6. ASSUME NEW v, NEW w,
               v.state = 0, v.key = 0, v.main = "idle", v.queue = <<>>, v.net = <<>>,
               w.state = 0, w.key = 0, w.main = "idle", w.queue = <<>>, w.net = <<>>
        PROVE  Sound(v, w, 0)
    <2>1. Pipe(v) = <<>> /\ Pipe(w) = <<>>
      BY <1>6 DEF Pipe
    <2>2. \A F, G : ~Has(<<>>, F) /\ Apart(<<>>, F, G)
      BY EmptyHas DEF Has, Apart
    <2>3. Signed(v, w) /\ Aware(v, w) /\ Ordered(v)
      BY <2>1, <2>2 DEF Signed, Aware, Ordered
    <2>5. Numbered(v, w, 0)
      <3>1. v.key <= 0 /\ v.state # 6
        BY <1>6
      <3>. QED  BY <2>1, <2>2, <3>1 DEF Numbered
    <2>4. /\ Waiting(v, w) /\ Tested(v, w) /\ Replying(v, w) /\ Closed(v, w)
          /\ Accepting(v, w) /\ SameKey(v, w)
      BY <1>6, <2>1, <2>2 DEF Waiting, Tested, Replying, Closed, Accepting, SameKey
    <2>. QED  BY <2>3, <2>4, <2>5 DEF Sound
  <1>7. Agreed(View(Alice), View(Bob), 0)
    <2>1. Alice \in Endpoint /\ Bob \in Endpoint
      BY DEF Endpoint
    <2>. QED  BY <1>5, <1>6, <2>1 DEF Agreed
  <1>. QED  BY <1>3, <1>4, <1>7 DEF AgreeInv

LEMMA AgreeSession ==
    ASSUME AgreeInv
    PROVE  SessionKeyAgreement
  <1>1. SameKey(View(Alice), View(Bob))
    BY DEF AgreeInv, Agreed, Sound
  <1>. QED  BY <1>1, ViewFields DEF SameKey, SessionKeyAgreement, Open, Endpoint

\* When the messenger repeats no message, the two contacts never see the
\* session open with different AES keys, whatever exchanges cross, messages are
\* lost, timers expire and questions about public keys are refused or answered
\* late (rsa_recv, rsa_recv_thread).
THEOREM SessionKeysAgree ==
    ASSUME MaxDup = 0
    PROVE  Spec => []SessionKeyAgreement
  <1>1. Init /\ TypeInv => AgreeInv
    BY AgreeInit
  <1>2. AgreeInv /\ TypeInv' /\ [Next]_vars => AgreeInv'
    BY AgreeNext
  <1>3. AgreeInv => SessionKeyAgreement
    BY AgreeSession
  <1>. QED  BY <1>1, <1>2, <1>3, TypeInvariant, PTL DEF Spec
=============================================================================
