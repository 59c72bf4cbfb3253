-------------------------- MODULE NativeKex_proofs --------------------------
(***************************************************************************)
(* For any number of messages, key pairs and disturbances: two contacts in *)
(* a session have one key once nothing is on its way; and, if they are of  *)
(* one version and start in one mode, a context is of the mode of its      *)
(* contact and both end in the same mode.                                  *)
(***************************************************************************)
EXTENDS NativeKex, SequenceTheorems, WellFoundedInduction, TLAPS

-----------------------------------------------------------------------------
(* What is on its way.                                                     *)

Types(s) == {s[i].type : i \in DOMAIN s}

\* A message that ends the session of its receiver.
Ends(c) == c.type \in Signatures \cup KeyTypes \cup {"DEIN"}

\* The last of these on its way, if there is one.
Pending(s) ==
    {s[i] : i \in {j \in DOMAIN s : Ends(s[j]) /\ \A k \in DOMAIN s : k > j => ~Ends(s[k])}}

\* One that ends it for good, or begins an exchange.
Stirred(s) == Types(s) \cap (Signatures \cup {"KEYR", "KEYA", "DEIN"}) # {}

-----------------------------------------------------------------------------
(* Sequences.                                                              *)

LEMMA LeastIn ==
    ASSUME NEW S \in SUBSET Nat, S # {}
    PROVE  \E i \in S : \A j \in S : i <= j
  <1>. DEFINE Less == {ss \in Nat \X Nat : ss[1] < ss[2]}
  <1>1. IsWellFoundedOn(Less, Nat)
    BY NatLessThanWellFounded DEF OpToRel
  <1>2. \A i, j \in Nat : j < i => <<j, i>> \in Less
    OBVIOUS
  <1>. HIDE DEF Less
  <1>3. \E i \in S : \A j \in S : ~(<<j, i>> \in Less)
    BY <1>1, WFMin
  <1>4. PICK i \in S : \A j \in S : ~(<<j, i>> \in Less)
    BY <1>3
  <1>5. ASSUME NEW j \in S PROVE i <= j
    <2>1. ~(j < i)
      BY <1>2, <1>4
    <2>. QED  BY <2>1
  <1>. QED  BY <1>5

LEMMA PendingLast ==
    ASSUME NEW S, NEW s \in Seq(S)
    PROVE  Pending(s) = {} <=> \A i \in DOMAIN s : ~Ends(s[i])
  <1>1. DOMAIN s = 1 .. Len(s) /\ Len(s) \in Nat
    BY LenProperties
  <1>2. ASSUME NEW i \in DOMAIN s, Ends(s[i]) PROVE Pending(s) # {}
    <2>1. PICK T : T = {n \in 0 .. Len(s) : \A k \in DOMAIN s : k > n => ~Ends(s[k])}
      OBVIOUS
    <2>2. Len(s) \in T /\ T \in SUBSET Nat
      BY <1>1, <2>1
    <2>3. PICK n \in T : \A m \in T : n <= m
      BY <2>2, LeastIn
    <2>4. n \in 0 .. Len(s) /\ \A k \in DOMAIN s : k > n => ~Ends(s[k])
      BY <2>1, <2>3
    <2>5. n \in DOMAIN s
      BY <1>1, <1>2, <2>4
    <2>6. Ends(s[n])
      <3>1. SUFFICES ASSUME ~Ends(s[n]) PROVE FALSE
        OBVIOUS
      <3>2. ASSUME NEW k \in DOMAIN s, k > n - 1 PROVE ~Ends(s[k])
        <4>1. k = n \/ k > n
          BY <1>1, <2>4, <3>2
        <4>. QED  BY <2>4, <3>1, <4>1
      <3>3. n - 1 \in T /\ ~(n <= n - 1)
        BY <1>1, <2>1, <2>5, <3>2
      <3>. QED  BY <2>3, <3>3
    <2>7. s[n] \in Pending(s)
      BY <2>4, <2>5, <2>6 DEF Pending
    <2>. QED  BY <2>7
  <1>. QED  BY <1>2 DEF Pending

\* Sending.
LEMMA Sent ==
    ASSUME NEW S, NEW s \in Seq(S), NEW out \in Seq(S)
    PROVE  /\ Types(s \o out) = Types(s) \cup Types(out)
           /\ Pending(s \o out) = IF Pending(out) = {} THEN Pending(s) ELSE Pending(out)
           /\ Stirred(s \o out) <=> Stirred(s) \/ Stirred(out)
  <1>1. /\ s \o out \in Seq(S) /\ Len(s \o out) = Len(s) + Len(out)
        /\ \A i \in 1 .. Len(s) + Len(out) :
              (s \o out)[i] = IF i <= Len(s) THEN s[i] ELSE out[i - Len(s)]
    BY ConcatProperties
  <1>2. /\ DOMAIN s = 1 .. Len(s) /\ DOMAIN out = 1 .. Len(out)
        /\ DOMAIN (s \o out) = 1 .. Len(s) + Len(out)
        /\ Len(s) \in Nat /\ Len(out) \in Nat
    BY <1>1, LenProperties
  <1>. DEFINE all == s \o out
  <1>3. /\ \A i \in DOMAIN s : i \in DOMAIN all /\ all[i] = s[i]
        /\ \A i \in DOMAIN out : Len(s) + i \in DOMAIN all /\ all[Len(s) + i] = out[i]
        /\ \A i \in DOMAIN all : i \in DOMAIN s \/
              (i > Len(s) /\ i - Len(s) \in DOMAIN out /\ i = Len(s) + (i - Len(s)))
    BY <1>1, <1>2
  <1>. HIDE DEF all
  <1>4. Types(all) = Types(s) \cup Types(out)
    BY <1>3 DEF Types
  <1>5. CASE Pending(out) = {}
    <2>1. \A i \in DOMAIN out : ~Ends(out[i])
      BY <1>5, PendingLast
    <2>2. \A i \in DOMAIN all : Ends(all[i]) => i \in DOMAIN s
      BY <1>3, <2>1
    <2>3. \A i \in DOMAIN s : (\A k \in DOMAIN all : k > i => ~Ends(all[k]))
                <=> (\A k \in DOMAIN s : k > i => ~Ends(s[k]))
      BY <1>3, <2>2
    <2>4. \A i : i \in DOMAIN all /\ Ends(all[i]) /\ (\A k \in DOMAIN all : k > i => ~Ends(all[k]))
             <=> i \in DOMAIN s /\ Ends(s[i]) /\ (\A k \in DOMAIN s : k > i => ~Ends(s[k]))
      BY <1>3, <2>2, <2>3
    <2>5. Pending(all) = Pending(s)
      BY <1>3, <2>4 DEF Pending
    <2>. QED  BY <1>4, <1>5, <2>5 DEF all, Stirred
  <1>6. CASE Pending(out) # {}
    <2>1. PICK n \in DOMAIN out : Ends(out[n])
      BY <1>6 DEF Pending
    <2>2. \A i \in DOMAIN s : Len(s) + n > i /\ Ends(all[Len(s) + n]) /\ Len(s) + n \in DOMAIN all
      BY <1>2, <1>3, <2>1
    <2>3. \A i \in DOMAIN out : (\A k \in DOMAIN all : k > Len(s) + i => ~Ends(all[k]))
                <=> (\A k \in DOMAIN out : k > i => ~Ends(out[k]))
      <3>. TAKE i \in DOMAIN out
      <3>1. \A k \in DOMAIN out : k > i => Len(s) + k > Len(s) + i /\ Len(s) + k \in DOMAIN all /\ all[Len(s) + k] = out[k]
        BY <1>2, <1>3
      <3>2. ASSUME NEW k \in DOMAIN all, k > Len(s) + i
            PROVE  \E j \in DOMAIN out : j > i /\ all[k] = out[j]
        <4>1. k - Len(s) \in DOMAIN out /\ k = Len(s) + (k - Len(s)) /\ k - Len(s) > i
          BY <1>2, <1>3, <3>2
        <4>2. all[Len(s) + (k - Len(s))] = out[k - Len(s)]
          BY <1>3, <4>1
        <4>. QED  BY <4>1, <4>2
      <3>. QED  BY <3>1, <3>2
    <2>4. ASSUME NEW c PROVE c \in Pending(all) <=> c \in Pending(out)
      <3>1. ASSUME c \in Pending(all) PROVE c \in Pending(out)
        <4>1. PICK i \in DOMAIN all : /\ c = all[i] /\ Ends(all[i])
                                      /\ \A k \in DOMAIN all : k > i => ~Ends(all[k])
          BY <3>1 DEF Pending
        <4>2. i - Len(s) \in DOMAIN out /\ i = Len(s) + (i - Len(s))
          BY <1>3, <2>2, <4>1
        <4>3. PICK j \in DOMAIN out : i = Len(s) + j
          BY <4>2
        <4>4. c = out[j] /\ Ends(out[j]) /\ \A k \in DOMAIN out : k > j => ~Ends(out[k])
          BY <1>3, <2>3, <4>1, <4>3
        <4>. QED  BY <4>4 DEF Pending
      <3>2. ASSUME c \in Pending(out) PROVE c \in Pending(all)
        <4>1. PICK j \in DOMAIN out : /\ c = out[j] /\ Ends(out[j])
                                      /\ \A k \in DOMAIN out : k > j => ~Ends(out[k])
          BY <3>2 DEF Pending
        <4>. QED  BY <1>3, <2>3, <4>1 DEF Pending
      <3>. QED  BY <3>1, <3>2
    <2>5. Pending(all) = Pending(out)
      BY <2>4
    <2>. QED  BY <1>4, <1>6, <2>5 DEF all, Stirred
  <1>. QED  BY <1>5, <1>6

\* Receiving.
LEMMA Received ==
    ASSUME NEW S, NEW s \in Seq(S), s # <<>>
    PROVE  /\ Types(s) = Types(Tail(s)) \cup {Head(s).type}
           /\ IF Ends(Head(s))
              THEN /\ Pending(s) # {}
                   /\ Pending(Tail(s)) = {} => Pending(s) = {Head(s)}
              ELSE Pending(Tail(s)) = Pending(s)
           /\ Pending(Tail(s)) # {} => Pending(Tail(s)) = Pending(s)
  <1>1. /\ Head(s) \in S /\ Tail(s) \in Seq(S) /\ Head(s) = s[1]
        /\ Len(Tail(s)) = Len(s) - 1
        /\ \A i \in 1 .. Len(Tail(s)) : Tail(s)[i] = s[i + 1]
    BY HeadTailProperties
  <1>2. /\ DOMAIN s = 1 .. Len(s) /\ Len(s) \in Nat /\ Len(s) # 0
        /\ DOMAIN Tail(s) = 1 .. Len(Tail(s))
    BY <1>1, LenProperties, EmptySeq
  <1>. DEFINE r == Tail(s)
  <1>3. /\ \A i \in DOMAIN r : i + 1 \in DOMAIN s /\ s[i + 1] = r[i] /\ i + 1 > 1
        /\ \A i \in DOMAIN s : i = 1 \/ (i - 1 \in DOMAIN r /\ i = (i - 1) + 1)
        /\ 1 \in DOMAIN s /\ r \in Seq(S)
    BY <1>1, <1>2
  <1>. HIDE DEF r
  <1>4. Types(s) = Types(r) \cup {Head(s).type}
    <2>1. ASSUME NEW i \in DOMAIN s PROVE s[i].type \in Types(r) \cup {Head(s).type}
      BY <1>1, <1>3 DEF Types
    <2>2. Types(r) \subseteq Types(s)
      BY <1>3 DEF Types
    <2>3. Head(s).type \in Types(s)
      BY <1>1, <1>3 DEF Types
    <2>. QED  BY <2>1, <2>2, <2>3 DEF Types
  <1>5. \A i \in DOMAIN r : (\A k \in DOMAIN s : k > i + 1 => ~Ends(s[k]))
              <=> (\A k \in DOMAIN r : k > i => ~Ends(r[k]))
    BY <1>1, <1>2, <1>3 DEF r
  <1>6. \A c : c \in Pending(r) => c \in Pending(s)
    <2>1. SUFFICES ASSUME NEW c \in Pending(r) PROVE c \in Pending(s)
      OBVIOUS
    <2>2. PICK i \in DOMAIN r : c = r[i] /\ Ends(r[i]) /\ \A k \in DOMAIN r : k > i => ~Ends(r[k])
      BY <2>1 DEF Pending
    <2>. QED  BY <1>3, <1>5, <2>2 DEF Pending
  <1>7. \A c : c \in Pending(s) => c \in Pending(r) \/ (c = Head(s) /\ Ends(c) /\ Pending(r) = {})
    <2>1. SUFFICES ASSUME NEW c \in Pending(s)
                   PROVE  c \in Pending(r) \/ (c = Head(s) /\ Ends(c) /\ Pending(r) = {})
      OBVIOUS
    <2>2. PICK i \in DOMAIN s : c = s[i] /\ Ends(s[i]) /\ \A k \in DOMAIN s : k > i => ~Ends(s[k])
      BY <2>1 DEF Pending
    <2>3. CASE i = 1
      <3>1. \A k \in DOMAIN r : ~Ends(r[k])
        BY <1>3, <2>2, <2>3
      <3>. QED  BY <1>1, <1>3, <2>2, <2>3, <3>1, PendingLast
    <2>4. CASE i # 1
      <3>1. PICK j \in DOMAIN r : i = j + 1
        BY <1>3, <2>4
      <3>. QED  BY <1>3, <1>5, <2>2, <3>1 DEF Pending
    <2>. QED  BY <2>3, <2>4
  <1>8. Ends(Head(s)) => Pending(s) # {}
    BY <1>1, <1>3, PendingLast
  <1>9. Pending(r) # {} => Pending(r) = Pending(s)
    <2>1. Pending(r) # {} => \A c : c \in Pending(r) <=> c \in Pending(s)
      BY <1>6, <1>7
    <2>. QED  BY <2>1
  <1>10. ~Ends(Head(s)) => Pending(r) = Pending(s)
    <2>1. ~Ends(Head(s)) => \A c : c \in Pending(r) <=> c \in Pending(s)
      BY <1>6, <1>7
    <2>. QED  BY <2>1
  <1>11. Ends(Head(s)) /\ Pending(r) = {} => Pending(s) = {Head(s)}
    BY <1>7, <1>8
  <1>. QED  BY <1>4, <1>8, <1>9, <1>10, <1>11 DEF r

\* What a handler sends: nothing, one message, or two.
LEMMA OutNone == Types(<<>>) = {} /\ Pending(<<>>) = {} /\ <<>> \in Seq(Message)
  BY DEF Types, Pending

LEMMA OutOne ==
    ASSUME NEW m
    PROVE  /\ Types(<<m>>) = {m.type}
           /\ Pending(<<m>>) = IF Ends(m) THEN {m} ELSE {}
           /\ m \in Message => <<m>> \in Seq(Message)
  <1>1. DOMAIN <<m>> = {1} /\ <<m>>[1] = m
    OBVIOUS
  <1>2. Types(<<m>>) = {m.type}
    BY <1>1 DEF Types
  <1>3. Pending(<<m>>) = IF Ends(m) THEN {m} ELSE {}
    BY <1>1 DEF Pending
  <1>. QED  BY <1>2, <1>3

LEMMA OutTwo ==
    ASSUME NEW m, NEW n, Ends(n)
    PROVE  /\ Types(<<m, n>>) = {m.type, n.type}
           /\ Pending(<<m, n>>) = {n}
           /\ m \in Message /\ n \in Message => <<m, n>> \in Seq(Message)
  <1>1. DOMAIN <<m, n>> = {1, 2} /\ <<m, n>>[1] = m /\ <<m, n>>[2] = n
    OBVIOUS
  <1>2. Types(<<m, n>>) = {m.type, n.type}
    BY <1>1 DEF Types
  <1>3. Pending(<<m, n>>) = {n}
    <2>1. \A k \in DOMAIN <<m, n>> : k > 2 => FALSE
      BY <1>1
    <2>2. 2 > 1 /\ 2 \in DOMAIN <<m, n>>
      BY <1>1
    <2>3. \A j \in DOMAIN <<m, n>> : (Ends(<<m, n>>[j]) /\ \A k \in DOMAIN <<m, n>> : k > j => ~Ends(<<m, n>>[k])) <=> j = 2
      BY <1>1, <2>1, <2>2
    <2>. QED  BY <1>1, <2>3 DEF Pending
  <1>. QED  BY <1>2, <1>3


-----------------------------------------------------------------------------
(* Records and messages.                                                   *)

LEMMA Peers ==
    ASSUME NEW e \in Endpoint
    PROVE  /\ Peer(e) \in Endpoint /\ Peer(e) # e /\ Peer(Peer(e)) = e
           /\ \A x \in Endpoint : x = e \/ x = Peer(e)
  BY KexOK DEF Endpoint, Peer

LEMMA KeyPairs ==
    /\ NoKey \notin KeyPair /\ NoKey.new = FALSE
    /\ \A new \in BOOLEAN : drawn \in 0 .. MaxKey /\ drawn < MaxKey
          => Drawn(new) \in KeyPair /\ Drawn(new) # NoKey /\ Drawn(new).new = new
  BY KexOK DEF NoKey, KeyPair, Drawn

LEMMA DrawIs ==
    ASSUME drawn \in 0 .. MaxKey, Draw
    PROVE  /\ drawn < MaxKey /\ drawn' # drawn /\ drawn' \in 0 .. MaxKey
           /\ \A new \in BOOLEAN : Drawn(new) \in KeyPair /\ Drawn(new).new = new
  BY KeyPairs, KexOK DEF Draw

\* Two records alike in all that decides about a key and a mode.
Alike(u, v) ==
    /\ v.mode = u.mode /\ v.cntx = u.cntx /\ v.rsa = u.rsa
    /\ v.keyA = u.keyA /\ v.keyB = u.keyB /\ v.keyX = u.keyX
    /\ v.offlineKey = u.offlineKey /\ v.stored = u.stored

\* The settings of a contact are kept.
Settings(u, v) == v.mode = u.mode /\ v.offlineKey = u.offlineKey /\ v.stored = u.stored

NoKeys(u) == u.keyA = NoKey /\ u.keyB = NoKey /\ u.keyX = {}

LEMMA ResetContextIs ==
    ASSUME NEW u \in Record
    PROVE  /\ ResetContext(u) \in Record /\ NoKeys(ResetContext(u)) /\ Settings(u, ResetContext(u))
           /\ ResetContext(u).rsa = "none" /\ ResetContext(u).cntx = u.cntx
           /\ ResetContext(u).online = u.online /\ ResetContext(u).waitForExchange = u.waitForExchange
  BY DEF Record, ResetContext, NoKeys, Settings, Secret

LEMMA DeleteContextIs ==
    ASSUME NEW u \in Record
    PROVE  /\ DeleteContext(u) \in Record /\ NoKeys(DeleteContext(u)) /\ Settings(u, DeleteContext(u))
           /\ DeleteContext(u).rsa = "none" /\ DeleteContext(u).cntx = "none"
           /\ DeleteRSAcntx(u) = DeleteContext(u)
  BY DEF Record, ResetContext, DeleteContext, DeleteRSAcntx, NoKeys, Settings, Secret

LEMMA CreateContextIs ==
    ASSUME NEW u \in Record, NEW t \in {"sim", "rsa"}
    PROVE  LET v == CreateContext(u, t) IN
           /\ v \in Record /\ Settings(u, v)
           /\ v.cntx = IF u.cntx = "none" THEN t ELSE u.cntx
           /\ v.rsa = u.rsa /\ v.keyA = u.keyA /\ v.keyB = u.keyB /\ v.keyX = u.keyX
  BY DEF Record, CreateContext, Settings

LEMMA InitKeyAIs ==
    ASSUME NEW u \in Record, NEW new \in BOOLEAN, drawn \in 0 .. MaxKey, drawn < MaxKey
    PROVE  LET v == InitKeyA(u, new) IN
           /\ v \in Record /\ Settings(u, v)
           /\ v.cntx = IF u.cntx = "none" THEN "sim" ELSE u.cntx
           /\ v.rsa = u.rsa /\ v.keyA = Drawn(new) /\ v.keyB = u.keyB /\ v.keyX = u.keyX
  <1>. DEFINE w == CreateContext(u, "sim")
  <1>1. /\ w \in Record /\ Settings(u, w)
        /\ w.cntx = IF u.cntx = "none" THEN "sim" ELSE u.cntx
        /\ w.rsa = u.rsa /\ w.keyA = u.keyA /\ w.keyB = u.keyB /\ w.keyX = u.keyX
    BY CreateContextIs
  <1>2. Drawn(new) \in KeyPair
    BY KeyPairs
  <1>3. InitKeyA(u, new) = [w EXCEPT !.keyA = Drawn(new)]
    BY DEF InitKeyA
  <1>. HIDE DEF w
  <1>. QED  BY <1>1, <1>2, <1>3 DEF Record, Settings

LEMMA InitKeyBIs ==
    ASSUME NEW u \in Record, NEW k \in KeyPair
    PROVE  LET v == InitKeyB(u, k) IN
           /\ v \in Record /\ Settings(u, v)
           /\ v.cntx = IF u.cntx = "none" THEN "sim" ELSE u.cntx
           /\ v.rsa = u.rsa /\ v.keyA = u.keyA /\ v.keyB = k /\ v.keyX = u.keyX
  <1>. DEFINE w == CreateContext(u, "sim")
  <1>1. /\ w \in Record /\ Settings(u, w)
        /\ w.cntx = IF u.cntx = "none" THEN "sim" ELSE u.cntx
        /\ w.rsa = u.rsa /\ w.keyA = u.keyA /\ w.keyB = u.keyB /\ w.keyX = u.keyX
    BY CreateContextIs
  <1>2. InitKeyB(u, k) = [w EXCEPT !.keyB = k]
    BY DEF InitKeyB
  <1>. HIDE DEF w
  <1>. QED  BY <1>1, <1>2 DEF Record, Settings

LEMMA InitKeyXIs ==
    ASSUME NEW u \in Record, NEW x \in Secret
    PROVE  LET v == InitKeyX(u, x) IN
           IF u.cntx = "rsa" THEN v = u
           ELSE /\ v \in Record /\ Settings(u, v) /\ v.cntx = "sim" /\ v.rsa = "none"
                /\ v.keyA = NoKey /\ v.keyB = NoKey /\ v.keyX = x
  <1>. DEFINE w == CreateContext(u, "sim")
  <1>1. /\ w \in Record /\ Settings(u, w) /\ u.cntx \in {"none", "sim", "rsa"}
        /\ w.cntx = IF u.cntx = "none" THEN "sim" ELSE u.cntx
        /\ u.cntx # "none" => w = u
    BY ZenonT(60), CreateContextIs DEF CreateContext, Record
  <1>2. InitKeyX(u, x) = IF w.cntx = "sim" THEN [ResetContext(w) EXCEPT !.keyX = x] ELSE w
    BY DEF InitKeyX
  <1>3. /\ ResetContext(w) \in Record /\ NoKeys(ResetContext(w)) /\ Settings(w, ResetContext(w))
        /\ ResetContext(w).rsa = "none" /\ ResetContext(w).cntx = w.cntx
    BY <1>1, ResetContextIs
  <1>. HIDE DEF w
  <1>4. CASE u.cntx = "rsa"
    BY <1>1, <1>2, <1>4
  <1>5. CASE u.cntx # "rsa"
    BY ZenonT(60), <1>1, <1>2, <1>3, <1>5 DEF Record, Settings, NoKeys
  <1>. QED  BY <1>4, <1>5

LEMMA WaitIs ==
    ASSUME NEW u \in Record, NEW flag \in 0 .. 3
    PROVE  Wait(u, flag) \in Record /\ Alike(u, Wait(u, flag))
  BY DEF Record, Wait, Alike

LEMMA ConnectIs ==
    ASSUME NEW u \in Record
    PROVE  LET v == Connect(u).u  out == Connect(u).out IN
           /\ v \in Record /\ Settings(u, v)
           /\ v.cntx = IF u.cntx = "none" THEN "rsa" ELSE u.cntx
           /\ v.rsa = IF u.rsa = "none" THEN "connect" ELSE u.rsa
           /\ v.keyA = u.keyA /\ v.keyB = u.keyB /\ v.keyX = u.keyX
           /\ out = IF u.rsa = "none" THEN <<Signature("connect")>> ELSE <<>>
  <1>. DEFINE w == CreateContext(u, "rsa")
  <1>1. /\ w \in Record /\ Settings(u, w)
        /\ w.cntx = IF u.cntx = "none" THEN "rsa" ELSE u.cntx
        /\ w.rsa = u.rsa /\ w.keyA = u.keyA /\ w.keyB = u.keyB /\ w.keyX = u.keyX
    BY CreateContextIs
  <1>2. /\ Connect(u).u = IF w.rsa = "none" THEN [w EXCEPT !.rsa = "connect"] ELSE w
        /\ Connect(u).out = IF w.rsa = "none" THEN <<Signature("connect")>> ELSE <<>>
    BY DEF Connect
  <1>. HIDE DEF w
  <1>3. CASE w.rsa = "none"
    <2>1. Connect(u).u = [w EXCEPT !.rsa = "connect"]
      BY <1>2, <1>3
    <2>. QED  BY <1>1, <1>2, <1>3, <2>1 DEF Record, Settings
  <1>4. CASE w.rsa # "none"
    BY <1>1, <1>2, <1>4 DEF Settings
  <1>. QED  BY <1>3, <1>4

LEMMA NoOfflineKeyIs ==
    ASSUME NEW u \in Record
    PROVE  LET v == NoOfflineKey(u) IN
           /\ v \in Record /\ v.mode = u.mode /\ v.stored = u.stored /\ ~v.offlineKey
           /\ v.cntx = u.cntx /\ v.waitForExchange = u.waitForExchange
           /\ IF u.offlineKey THEN NoKeys(v) /\ v.rsa = "none" ELSE v = u
  <1>. DEFINE w == ResetContext(u)
  <1>1. /\ w \in Record /\ NoKeys(w) /\ Settings(u, w) /\ w.rsa = "none" /\ w.cntx = u.cntx
        /\ w.waitForExchange = u.waitForExchange
    BY ResetContextIs
  <1>2. NoOfflineKey(u) = IF u.offlineKey THEN [w EXCEPT !.offlineKey = FALSE] ELSE u
    BY DEF NoOfflineKey
  <1>. HIDE DEF w
  <1>3. CASE u.offlineKey
    <2>1. NoOfflineKey(u) = [w EXCEPT !.offlineKey = FALSE]
      BY <1>2, <1>3
    <2>. QED  BY ZenonT(60), <1>1, <1>3, <2>1 DEF Record, Settings, NoKeys
  <1>4. CASE ~u.offlineKey
    BY <1>2, <1>4
  <1>. QED  BY <1>3, <1>4

LEMMA ToRSAIs ==
    ASSUME NEW u \in Record
    PROVE  LET v == ToRSA(u) IN
           /\ v \in Record /\ v.mode = "rsa" /\ v.stored = u.stored
           /\ IF u.mode = "native"
              THEN NoKeys(v) /\ v.cntx = "rsa" /\ v.rsa = "none"
              ELSE /\ v.cntx = IF u.cntx = "none" THEN "rsa" ELSE u.cntx
                   /\ v.rsa = u.rsa /\ v.offlineKey = u.offlineKey
                   /\ v.keyA = u.keyA /\ v.keyB = u.keyB /\ v.keyX = u.keyX
  <1>. DEFINE x == IF u.mode = "native" THEN DeleteRSAcntx(u) ELSE u
              w == [x EXCEPT !.mode = "rsa"]
  <1>1. x \in Record /\ x.stored = u.stored
    BY DeleteContextIs DEF Settings
  <1>2. u.mode = "native" => NoKeys(x) /\ x.cntx = "none" /\ x.rsa = "none"
    BY DeleteContextIs
  <1>3. u.mode # "native" => x = u
    OBVIOUS
  <1>4. ToRSA(u) = CreateContext(w, "rsa")
    BY DEF ToRSA
  <1>. HIDE DEF x
  <1>5. /\ w \in Record /\ w.mode = "rsa" /\ w.cntx = x.cntx /\ w.rsa = x.rsa /\ w.keyA = x.keyA
        /\ w.keyB = x.keyB /\ w.keyX = x.keyX /\ w.offlineKey = x.offlineKey /\ w.stored = x.stored
    BY <1>1 DEF Record
  <1>. HIDE DEF w
  <1>6. /\ CreateContext(w, "rsa") \in Record /\ Settings(w, CreateContext(w, "rsa"))
        /\ CreateContext(w, "rsa").cntx = IF w.cntx = "none" THEN "rsa" ELSE w.cntx
        /\ CreateContext(w, "rsa").rsa = w.rsa /\ CreateContext(w, "rsa").keyA = w.keyA
        /\ CreateContext(w, "rsa").keyB = w.keyB /\ CreateContext(w, "rsa").keyX = w.keyX
    BY <1>5, CreateContextIs
  <1>. QED  BY <1>1, <1>2, <1>3, <1>4, <1>5, <1>6 DEF Settings, NoKeys

LEMMA ToNativeIs ==
    ASSUME NEW u \in Record
    PROVE  LET v == ToNative(u) IN
           /\ v \in Record /\ v.mode = "native" /\ v.stored = u.stored
           /\ IF u.mode = "native" THEN v = u
              ELSE NoKeys(v) /\ v.cntx = "none" /\ v.rsa = "none"
  <1>1. /\ DeleteContext(u) \in Record /\ NoKeys(DeleteContext(u)) /\ Settings(u, DeleteContext(u))
        /\ DeleteContext(u).rsa = "none" /\ DeleteContext(u).cntx = "none"
    BY DeleteContextIs
  <1>2. u.mode \in {"native", "rsa"}
    BY DEF Record
  <1>. QED  BY <1>1, <1>2 DEF ToNative, Record, Settings, NoKeys

LEMMA RestartedIs ==
    ASSUME NEW u \in Record
    PROVE  LET v == Restarted(u) IN
           /\ v \in Record /\ v.mode = u.mode /\ v.stored = u.stored
           /\ NoKeys(v) /\ v.cntx = "none" /\ v.rsa = "none"
  <1>. DEFINE w == Fresh(u.mode)
  <1>1. u.mode \in {"native", "rsa"} /\ u.stored \in Secret
    BY DEF Record
  <1>2. <<>> \in Seq(Msg)
    OBVIOUS
  <1>3. w \in Record /\ w.mode = u.mode /\ NoKeys(w) /\ w.cntx = "none" /\ w.rsa = "none"
    BY <1>1, <1>2 DEF Fresh, Record, NoKeys, Secret
  <1>4. Restarted(u) = [w EXCEPT !.stored = u.stored]
    BY DEF Restarted
  <1>. HIDE DEF w
  <1>. QED  BY <1>1, <1>3, <1>4 DEF Record, NoKeys

\* The key of what it is given, or nothing has changed.
LEMMA CalculateIs ==
    ASSUME NEW u \in Record, NEW v \in Calculate(u)
    PROVE  /\ v \in Record
           /\ \/ v = u
              \/ /\ u.keyA # NoKey /\ u.keyB # NoKey /\ u.keyX = {}
                 /\ v.mode = u.mode /\ v.offlineKey = u.offlineKey /\ v.cntx = u.cntx
                 /\ v.rsa = "none" /\ v.keyA = NoKey /\ v.keyB = NoKey
                 /\ v.keyX = {u.keyA.id, u.keyB.id}
           /\ u.keyA # NoKey /\ u.keyB # NoKey /\ u.keyX = {} /\ u.keyA.new = u.keyB.new => v # u
  <1>1. Ready(u) = (u.keyA # NoKey /\ u.keyB # NoKey /\ u.keyX = {})
    BY DEF Ready
  <1>2. CASE ~Ready(u)
    BY <1>1, <1>2 DEF Calculate
  <1>3. CASE Ready(u)
    <2>. DEFINE w == ResetContext(u)
    <2>1. w \in Record /\ NoKeys(w) /\ Settings(u, w) /\ w.rsa = "none" /\ w.cntx = u.cntx
      BY ResetContextIs
    <2>2. u.keyA \in KeyPair /\ u.keyB \in KeyPair
      BY <1>1, <1>3 DEF Record
    <2>3. {u.keyA.id, u.keyB.id} \in Secret
      BY <2>2 DEF KeyPair, Secret
    <2>4. Agreed(u) = [w EXCEPT !.keyX = {u.keyA.id, u.keyB.id}, !.stored = {u.keyA.id, u.keyB.id}]
      BY DEF Agreed
    <2>. HIDE DEF w
    <2>5. /\ Agreed(u) \in Record /\ Agreed(u).mode = u.mode /\ Agreed(u).offlineKey = u.offlineKey
          /\ Agreed(u).cntx = u.cntx /\ Agreed(u).rsa = "none" /\ Agreed(u).keyA = NoKey
          /\ Agreed(u).keyB = NoKey /\ Agreed(u).keyX = {u.keyA.id, u.keyB.id}
      BY ZenonT(60), <2>1, <2>3, <2>4 DEF Record, Settings, NoKeys
    <2>6. v = u \/ v = Agreed(u)
      BY <1>3 DEF Calculate, CalculateKeyX
    <2>7. u.keyA.new = u.keyB.new => v = Agreed(u)
      BY <1>3 DEF Calculate, CalculateKeyX
    <2>. QED  BY <1>1, <1>3, <2>5, <2>6, <2>7
  <1>. QED  BY <1>2, <1>3

LEMMA Messages ==
    /\ \A t \in Signatures \cup {"DEIN"} : Signature(t) \in Message /\ Signature(t).type = t
    /\ \A k \in KeyPair, t \in KeyTypes : (k.new <=> t # "KEYR")
          => /\ KeyMessage(t, k) \in Message
             /\ KeyMessage(t, k).type = t /\ KeyMessage(t, k).key = k
    /\ \A t \in TextTypes, x \in Secret, m \in Msg :
          Cipher(t, x, m) \in Message /\ Cipher(t, x, m).type = t
  <1>1. \A t \in Signatures \cup {"DEIN"} : Signature(t) \in Message /\ Signature(t).type = t
    BY DEF Signature, KeyMessage, Message, Carries, Signatures, KeyTypes, TextTypes, Secret
  <1>2. ASSUME NEW k \in KeyPair, NEW t \in KeyTypes, k.new <=> t # "KEYR"
        PROVE  /\ KeyMessage(t, k) \in Message
               /\ KeyMessage(t, k).type = t /\ KeyMessage(t, k).key = k
    BY <1>2, KeyPairs DEF KeyMessage, Message, Carries, KeyTypes, TextTypes, Secret
  <1>3. ASSUME NEW t \in TextTypes, NEW x \in Secret, NEW m \in Msg
        PROVE  Cipher(t, x, m) \in Message /\ Cipher(t, x, m).type = t
    BY <1>3, KexOK DEF Cipher, Message, Carries, KeyTypes, TextTypes, Msg
  <1>. QED  BY <1>1, <1>2, <1>3

LEMMA SentBackIs ==
    ASSUME NEW c \in Message, c.type = "ENON"
    PROVE  /\ [c EXCEPT !.type = "RSND"] \in Message
           /\ [c EXCEPT !.type = "RSND"].type = "RSND"
           /\ c.msg \in Msg
  BY DEF Message, Carries, KeyTypes, TextTypes

-----------------------------------------------------------------------------
(* What one step does: e reads c, or nothing, leaves the record v behind   *)
(* and sends out.                                                          *)

Unread == [type |-> "none", key |-> NoKey, keyX |-> {}, msg |-> 0]

NoOld == \A e \in Endpoint : build[e] # "old"

Alive(u) == u.keyX # {} /\ ~u.offlineKey

\* A record between two handlers.
RecordOK(u) ==
    /\ u.keyA # NoKey => u.mode = "native" /\ u.keyX = {}
    /\ Alive(u) => u.mode = "native"
    /\ u.keyA.new => u.keyB = NoKey

\* How a session and an own key come about, and what is sent with them.
KeyStep(u, c, v, out) ==
    /\ RecordOK(v)
    /\ Alive(v) =>
          \/ Alive(u) /\ v.keyX = u.keyX /\ ~Ends(c)
          \/ c.type = "KEYA" /\ Pending(out) # {}
          \/ c.type = "KEYB" /\ u.keyA # NoKey /\ v.keyX = {u.keyA.id, c.key.id}
          \/ c = Unread /\ u.keyA # NoKey /\ ~u.keyA.new
    /\ v.keyA # NoKey =>
          \/ /\ v.keyA = u.keyA /\ Pending(out) = {}
             /\ Ends(c) => c.type = "KEYB" /\ ~u.keyA.new
          \/ Pending(out) = {KeyMessage(IF v.keyA.new THEN "KEYA" ELSE "KEYR", v.keyA)}
    /\ \A m \in Pending(out) : m.type = "KEYB" =>
          c.type = "KEYA" /\ v.keyX = {c.key.id, m.key.id}
    /\ c.type = "KEYR" => \E m \in Pending(out) : m.type # "KEYB"

\* Contacts that both know RSA/AES, on their way to it.
Moving(u) == ContextFits(u) /\ u.keyB = NoKey /\ u.keyX = {} /\ u.stored = {}
Moves(s) == Types(s) \subseteq Signatures \cup {"KEYR", "DEIN"}
Signed(s) == Types(s) \cap Signatures # {}

\* Contacts that never leave the native mode, or never RSA/AES.
Native(u) == u.mode = "native" /\ u.cntx # "rsa" /\ u.rsa = "none"
RSA(u) ==
    /\ u.mode = "rsa" /\ u.cntx # "sim" /\ u.rsa # "spoiled"
    /\ u.keyX = {} /\ u.stored = {}

ModeStep(e, c, v, out) ==
    LET u == uin[e] IN
    /\ Native(u) /\ c.type \notin Signatures /\ Known(e) # "rsa" => Native(v) /\ ~Signed(out)
    /\ RSA(u) /\ c.type \in Signatures \cup {"none"} =>
          RSA(v) /\ Types(out) \subseteq Signatures /\ drawn' = drawn
    /\ Moving(u) /\ c.type \in Signatures \cup {"KEYR", "DEIN", "none"} /\ Known(e) = "rsa" =>
          /\ Moving(v) /\ Moves(out)
          /\ u.mode = "rsa" \/ c.type \in Signatures \cup {"KEYR"} <=> v.mode = "rsa"
          /\ c.type = "KEYR" => Signed(out)
          /\ Signed(out) => v.mode = "rsa"
          /\ drawn' # drawn => v.mode = "native" /\ "KEYR" \in Types(out)

Bounded ==
    /\ typed' \in 0 .. MaxMsg
    /\ disturbed \subseteq disturbed' /\ disturbed' \subseteq Disturbances
Typed == fate' \in [Msg -> Fates] /\ drawn' \in 0 .. MaxKey /\ Bounded

Handled(e, c, v, out) ==
    /\ v \in Record /\ out \in Seq(Message) /\ Typed
    /\ \/ c = Unread /\ Sends(e, v, out)
       \/ net[e] # <<>> /\ c = In(e) /\ Replies(e, v, out)
    /\ NoOld /\ RecordOK(uin[e]) => KeyStep(uin[e], c, v, out)
    /\ "mode" \notin disturbed' => ModeStep(e, c, v, out)

\* The keys are kept, nothing that ends a session is read or sent.
LEMMA KeysKept ==
    ASSUME NEW u \in Record, NEW v \in Record, NEW c, NEW out,
           RecordOK(u), v.mode = u.mode, v.keyA = u.keyA, v.keyX = u.keyX, v.keyB = u.keyB,
           v.offlineKey = u.offlineKey, ~Ends(c), Pending(out) = {}
    PROVE  KeyStep(u, c, v, out)
  BY DEF KeyStep, RecordOK, Alive, Ends, KeyTypes

\* There is neither a key nor a session.
LEMMA KeysAbsent ==
    ASSUME NEW u \in Record, NEW v \in Record, NEW c, NEW out,
           v.keyA = NoKey, ~Alive(v),
           \A m \in Pending(out) : m.type # "KEYB",
           c.type = "KEYR" => Pending(out) # {}
    PROVE  KeyStep(u, c, v, out)
  BY KeyPairs DEF KeyStep, RecordOK

\* A key is drawn and sent.
LEMMA KeysDrawn ==
    ASSUME NEW u \in Record, NEW v \in Record, NEW c, NEW out,
           v.mode = "native", v.keyA \in KeyPair, v.keyX = {}, v.keyA.new => v.keyB = NoKey,
           Pending(out) = {KeyMessage(IF v.keyA.new THEN "KEYA" ELSE "KEYR", v.keyA)}
    PROVE  KeyStep(u, c, v, out)
  BY DEF KeyStep, RecordOK, Alive, KeyMessage

\* Nothing is read, or nothing is sent.
LEMMA Nothing ==
    /\ \A t \in TextTypes \cup KeyTypes \cup {"DEIN", "none"} : t \notin Signatures
    /\ ~Ends(Unread) /\ Unread.type = "none"
    /\ Types(<<>>) = {} /\ Pending(<<>>) = {} /\ <<>> \in Seq(Message)
    /\ ~Signed(<<>>) /\ Moves(<<>>)
  BY OutNone DEF TextTypes, KeyTypes, Signatures, Ends, Unread, Signed, Moves

\* One message is sent.
LEMMA OneText ==
    ASSUME NEW m \in Message, m.type \in TextTypes
    PROVE  /\ <<m>> \in Seq(Message)
           /\ Pending(<<m>>) = {} /\ ~Signed(<<m>>)
  BY OutOne DEF Ends, TextTypes, KeyTypes, Signatures, Signed

LEMMA OneSignature ==
    ASSUME NEW t \in Signatures
    PROVE  LET out == <<Signature(t)>> IN
           /\ out \in Seq(Message) /\ Types(out) \subseteq Signatures /\ Moves(out) /\ Signed(out)
           /\ Pending(out) = {Signature(t)} /\ Signature(t).type # "KEYB"
  <1>1. Signature(t) \in Message /\ Signature(t).type = t
    BY Messages
  <1>2. Ends(Signature(t)) /\ t # "KEYB"
    BY <1>1 DEF Ends, Signatures
  <1>. QED  BY <1>1, <1>2, OutOne DEF Signed, Moves

LEMMA OneKey ==
    ASSUME NEW k \in KeyPair, NEW t \in KeyTypes, k.new <=> t # "KEYR"
    PROVE  LET out == <<KeyMessage(t, k)>> IN
           /\ out \in Seq(Message) /\ ~Signed(out) /\ Types(out) = {t}
           /\ t = "KEYR" => Moves(out)
           /\ Pending(out) = {KeyMessage(t, k)}
  <1>1. KeyMessage(t, k) \in Message /\ KeyMessage(t, k).type = t
    BY Messages
  <1>2. Ends(KeyMessage(t, k)) /\ t \notin Signatures
    BY <1>1, Nothing DEF Ends
  <1>. QED  BY <1>1, <1>2, OutOne DEF Signed, Moves

LEMMA BecomesIs ==
    ASSUME fate \in [Msg -> Fates], NEW m \in Msg \cup {0}, NEW f \in Fates, Becomes(m, f)
    PROVE  fate' \in [Msg -> Fates]
  <1>1. CASE m = 0
    BY <1>1 DEF Becomes
  <1>2. CASE m # 0
    <2>1. fate' = [fate EXCEPT ![m] = f]
      BY <1>2 DEF Becomes
    <2>. QED  BY <2>1
  <1>. QED  BY <1>1, <1>2

-----------------------------------------------------------------------------
(* One lemma per action.                                                   *)

\* What is queued, and what is sent for it.
Queued(x, m) == [x EXCEPT !.msgQueue = Append(@, m)]

LEMMA QueuedIs ==
    ASSUME NEW x \in Record, NEW m \in Msg
    PROVE  Queued(x, m) \in Record /\ Alike(x, Queued(x, m))
  <1>1. Append(x.msgQueue, m) \in Seq(Msg)
    BY AppendProperties DEF Record
  <1>2. Queued(x, m) = [x EXCEPT !.msgQueue = Append(x.msgQueue, m)]
    BY DEF Queued
  <1>. QED  BY <1>1, <1>2 DEF Record, Alike

\* m is to be sent with the record w, which is e's but for its queue.
Sending(e, w, m) ==
    /\ TypeOK /\ Bounded
    /\ m \in Msg /\ w \in Record /\ Alike(uin[e], w)

LEMMA SendRSAStep ==
    ASSUME NEW e \in Endpoint, NEW m, NEW w, Sending(e, w, m), uin[e].mode = "rsa",
           SendRSA(e, w, m), NoDraw
    PROVE  \E v, out : Handled(e, Unread, v, out)
  <1>. DEFINE u == uin[e]
  <1>1. /\ u \in Record /\ w \in Record /\ drawn' \in 0 .. MaxKey /\ fate \in [Msg -> Fates]
        /\ Alike(u, w) /\ drawn' = drawn /\ m \in Msg
    BY DEF Sending, TypeOK, NoDraw
  <1>2. \A f \in {"clear", "passed"} : Becomes(m, f) => fate' \in [Msg -> Fates]
    BY <1>1, BecomesIs DEF Fates
  <1>3. w.online \in BOOLEAN /\ u.mode = "rsa"
    BY <1>1 DEF Record
  <1>. HIDE DEF u
  <1>4. CASE ~w.online
    <2>. DEFINE v == CreateContext(DeleteContext(w), "rsa")
    <2>1. /\ v \in Record /\ NoKeys(v) /\ Settings(w, v) /\ v.cntx = "rsa" /\ v.rsa = "none"
      BY <1>1, DeleteContextIs, CreateContextIs DEF NoKeys, Settings
    <2>2. Sends(e, v, <<>>) /\ fate' \in [Msg -> Fates]
      BY <1>2, <1>4 DEF SendRSA
    <2>. HIDE DEF v
    <2>3. KeyStep(u, Unread, v, <<>>)
      BY <1>1, <2>1, KeysAbsent, Nothing DEF NoKeys, Alive
    <2>4. ModeStep(e, Unread, v, <<>>)
      BY <1>1, <1>3, <2>1, Nothing
      DEF ModeStep, Native, RSA, Moving, Settings, NoKeys, ContextFits, Alike, u
    <2>. QED  BY <1>1, <2>1, <2>2, <2>3, <2>4, Nothing DEF Handled, Typed, Sending, u
  <1>5. CASE w.online /\ w.rsa = "open"
    <2>1. Sends(e, w, <<>>) /\ fate' \in [Msg -> Fates]
      BY <1>2, <1>5 DEF SendRSA
    <2>2. RecordOK(u) => KeyStep(u, Unread, w, <<>>)
      BY <1>1, KeysKept, Nothing DEF Alike
    <2>3. ModeStep(e, Unread, w, <<>>)
      BY <1>1, <1>3, Nothing
      DEF ModeStep, Native, RSA, Moving, Settings, NoKeys, ContextFits, Alike, u
    <2>. QED  BY <1>1, <2>1, <2>2, <2>3, Nothing DEF Handled, Typed, Sending, u
  <1>6. CASE w.online /\ w.rsa # "open"
    <2>. DEFINE c == Connect(Queued(w, m))
                x == c.u
                v == Wait(x, 1)
                out == c.out
    <2>1. /\ x \in Record /\ Settings(w, x)
          /\ x.cntx = IF w.cntx = "none" THEN "rsa" ELSE w.cntx
          /\ x.rsa = IF w.rsa = "none" THEN "connect" ELSE w.rsa
          /\ x.keyA = w.keyA /\ x.keyB = w.keyB /\ x.keyX = w.keyX
          /\ out = <<>> \/ out = <<Signature("connect")>>
      BY <1>1, QueuedIs, ConnectIs DEF Alike, Settings
    <2>2. v \in Record /\ Alike(x, v)
      BY <2>1, WaitIs
    <2>3. Sends(e, v, out) /\ fate' = fate
      BY <1>6 DEF SendRSA, NoFate, Queued
    <2>. HIDE DEF x, v, out
    <2>4. /\ out \in Seq(Message) /\ Types(out) \subseteq Signatures /\ Moves(out)
          /\ \A n \in Pending(out) : n.type # "KEYB"
      BY <2>1, OneSignature, Nothing DEF Signatures
    <2>5. RecordOK(u) => KeyStep(u, Unread, v, out)
      BY <1>1, <1>3, <2>1, <2>2, <2>4, KeysAbsent, Nothing DEF Alike, Settings, RecordOK, Alive
    <2>6. ModeStep(e, Unread, v, out)
      BY <1>1, <1>3, <2>1, <2>2, <2>4, Nothing
      DEF ModeStep, Native, RSA, Moving, Settings, NoKeys, ContextFits, Alike, u
    <2>. QED  BY <1>1, <2>2, <2>3, <2>4, <2>5, <2>6 DEF Handled, Typed, Sending, u
  <1>. QED  BY <1>3, <1>4, <1>5, <1>6 DEF SendRSA

LEMMA SendOfflineStep ==
    ASSUME NEW e \in Endpoint, NEW m, NEW w, Sending(e, w, m), uin[e].mode = "native",
           SendOffline(e, w, m), NoDraw
    PROVE  \E v, out : Handled(e, Unread, v, out)
  <1>. DEFINE u == uin[e]
  <1>1. /\ u \in Record /\ w \in Record /\ drawn' \in 0 .. MaxKey /\ fate \in [Msg -> Fates]
        /\ Alike(u, w) /\ drawn' = drawn /\ m \in Msg /\ w.stored \in Secret
    BY DEF Sending, TypeOK, NoDraw, Record
  <1>2. \A f \in {"clear", "refused"} : Becomes(m, f) => fate' \in [Msg -> Fates]
    BY <1>1, BecomesIs DEF Fates
  <1>3. u.mode = "native"
    OBVIOUS
  <1>. HIDE DEF u
  <1>4. ASSUME w.stored # {}, NoFate,
               Sends(e, [InitKeyX(w, w.stored) EXCEPT !.offlineKey = TRUE],
                     <<Cipher("ENOF", w.stored, m)>>)
        PROVE  \E v, out : Handled(e, Unread, v, out)
    <2>. DEFINE x == InitKeyX(w, w.stored)
                v == [x EXCEPT !.offlineKey = TRUE]
                out == <<Cipher("ENOF", w.stored, m)>>
    <2>1. /\ x \in Record
          /\ x = w \/ (x.mode = w.mode /\ x.cntx = "sim" /\ x.rsa = "none" /\ x.keyA = NoKey)
      BY <1>1, InitKeyXIs DEF Settings
    <2>. HIDE DEF x
    <2>2. /\ v \in Record /\ v.offlineKey
          /\ v.mode = x.mode /\ v.cntx = x.cntx /\ v.rsa = x.rsa /\ v.keyA = x.keyA
          /\ v.keyB = x.keyB /\ v.keyX = x.keyX
      BY <2>1 DEF Record
    <2>3. out \in Seq(Message) /\ Pending(out) = {} /\ ~Signed(out)
      BY <1>1, Messages, OneText DEF TextTypes
    <2>4. Sends(e, v, out) /\ fate' \in [Msg -> Fates]
      BY <1>1, <1>4 DEF NoFate, x
    <2>. HIDE DEF v, out
    <2>5. RecordOK(u) => KeyStep(u, Unread, v, out)
      <3>1. CASE x = w
        BY <1>1, <2>2, <2>3, <3>1, KeyPairs, Nothing
        DEF KeyStep, RecordOK, Alive, Alike, Unread
      <3>2. CASE x.keyA = NoKey
        BY <1>1, <2>2, <2>3, <3>2, KeysAbsent, Nothing DEF Alive
      <3>. QED  BY <2>1, <3>1, <3>2
    <2>6. ModeStep(e, Unread, v, out)
      BY <1>1, <1>3, <1>4, <2>1, <2>2, <2>3
      DEF ModeStep, Native, RSA, Moving, Alike, u
    <2>. QED  BY <1>1, <2>2, <2>3, <2>4, <2>5, <2>6 DEF Handled, Typed, Sending, u
  <1>5. ASSUME NEW f \in {"clear", "refused"}, Becomes(m, f), Sends(e, [w EXCEPT !.stored = {}], <<>>)
        PROVE  \E v, out : Handled(e, Unread, v, out)
    <2>. DEFINE v == [w EXCEPT !.stored = {}]
    <2>1. /\ v \in Record /\ v.mode = w.mode /\ v.cntx = w.cntx /\ v.rsa = w.rsa /\ v.keyA = w.keyA
          /\ v.keyB = w.keyB /\ v.keyX = w.keyX /\ v.offlineKey = w.offlineKey /\ v.stored = {}
      BY <1>1 DEF Record, Secret
    <2>2. Sends(e, v, <<>>) /\ fate' \in [Msg -> Fates]
      BY <1>2, <1>5
    <2>. HIDE DEF v
    <2>3. RecordOK(u) => KeyStep(u, Unread, v, <<>>)
      BY <1>1, <2>1, KeysKept, Nothing DEF Alike
    <2>4. ModeStep(e, Unread, v, <<>>)
      BY <1>1, <1>3, <2>1, Nothing DEF ModeStep, Native, RSA, Moving, ContextFits, Alike, u
    <2>. QED  BY <1>1, <2>1, <2>2, <2>3, <2>4, Nothing DEF Handled, Typed, Sending, u
  <1>. QED  BY <1>4, <1>5 DEF SendOffline

LEMMA SendOnlineStep ==
    ASSUME NEW e \in Endpoint, NEW m, NEW w, Sending(e, w, m), uin[e].mode = "native",
           SendOnline(e, w, m), NoFate
    PROVE  \E v, out : Handled(e, Unread, v, out)
  <1>. DEFINE u == uin[e]
              k == NoOfflineKey(w)
  <1>1. /\ u \in Record /\ w \in Record /\ drawn \in 0 .. MaxKey /\ fate' \in [Msg -> Fates]
        /\ Alike(u, w) /\ m \in Msg /\ u.mode = "native"
    BY DEF Sending, TypeOK, NoFate
  <1>2. /\ k \in Record /\ k.mode = w.mode /\ k.stored = w.stored /\ ~k.offlineKey
        /\ k.cntx = w.cntx
        /\ IF w.offlineKey THEN NoKeys(k) /\ k.rsa = "none" ELSE k = w
    BY <1>1, NoOfflineKeyIs
  <1>3. PICK x \in Calculate(k) :
          \/ /\ x.keyX # {} /\ Sends(e, x, <<Cipher("ENON", x.keyX, m)>>) /\ NoDraw
          \/ /\ x.keyX = {} /\ Sends(e, Queued(x, m), <<>>) /\ NoDraw
          \/ /\ x.keyX = {} /\ Draw
             /\ Sends(e, Wait(InitKeyA(Queued(x, m), FALSE), 1), <<KeyMessage("KEYR", Drawn(FALSE))>>)
    BY DEF SendOnline, Queued
  <1>. HIDE DEF k
  <1>4. /\ x \in Record /\ ~x.offlineKey /\ x.mode = "native" /\ x.cntx = w.cntx
        /\ \/ x = k
           \/ /\ k.keyA # NoKey /\ k.keyB # NoKey /\ k.keyX = {}
              /\ x.rsa = "none" /\ x.keyA = NoKey /\ x.keyB = NoKey /\ x.keyX # {}
    BY SMTT(30), <1>1, <1>2, CalculateIs DEF Alike
  <1>. HIDE DEF u
  <1>5. CASE x.keyX # {} /\ Sends(e, x, <<Cipher("ENON", x.keyX, m)>>) /\ NoDraw
    <2>. DEFINE out == <<Cipher("ENON", x.keyX, m)>>
    <2>1. out \in Seq(Message) /\ Pending(out) = {} /\ ~Signed(out)
      <3>1. x.keyX \in Secret
        BY <1>4 DEF Record
      <3>2. Cipher("ENON", x.keyX, m) \in Message /\ Cipher("ENON", x.keyX, m).type = "ENON"
        BY <1>1, <3>1, Messages DEF TextTypes
      <3>. QED  BY <3>2, OneText DEF TextTypes
    <2>. HIDE DEF out
    <2>2. ASSUME RecordOK(u) PROVE KeyStep(u, Unread, x, out)
      <3>1. CASE x = k
        <4>1. k = w
          BY <1>2, <1>5, <3>1 DEF NoKeys
        <4>. QED  BY <1>1, <2>1, <2>2, <3>1, <4>1, KeysKept, Nothing DEF Alike
      <3>2. CASE x # k
        <4>1. k = w
          BY <1>2, <1>4, <3>2 DEF NoKeys
        <4>2. u.keyA # NoKey /\ u.keyB # NoKey
          BY <1>1, <1>4, <3>2, <4>1 DEF Alike
        <4>. QED  BY <1>4, <2>1, <2>2, <3>2, <4>2, KeyPairs, Nothing
                  DEF KeyStep, RecordOK, Unread
      <3>. QED  BY <3>1, <3>2
    <2>3. ModeStep(e, Unread, x, out)
      BY <1>1, <1>2, <1>4, <1>5, <2>1 DEF ModeStep, Native, RSA, Moving, NoKeys, Alike, u
    <2>4. drawn' \in 0 .. MaxKey
      BY <1>1, <1>5 DEF NoDraw
    <2>. QED  BY <1>1, <1>4, <1>5, <2>1, <2>2, <2>3, <2>4 DEF Handled, Typed, Sending, u, out
  <1>6. CASE x.keyX = {} /\ Sends(e, Queued(x, m), <<>>) /\ NoDraw
    <2>. DEFINE v == Queued(x, m)
    <2>1. v \in Record /\ Alike(x, v) /\ x = k /\ drawn' = drawn
      BY <1>1, <1>4, <1>6, QueuedIs DEF NoDraw
    <2>. HIDE DEF v
    <2>2. RecordOK(u) => KeyStep(u, Unread, v, <<>>)
      <3>1. CASE w.offlineKey
        BY <1>1, <1>2, <2>1, <3>1, KeysAbsent, Nothing DEF Alike, NoKeys, Alive
      <3>2. CASE ~w.offlineKey
        BY <1>1, <1>2, <2>1, <3>2, KeysKept, Nothing DEF Alike
      <3>. QED  BY <3>1, <3>2
    <2>3. ModeStep(e, Unread, v, <<>>)
      BY <1>1, <1>2, <2>1, Nothing
      DEF ModeStep, Native, RSA, Moving, ContextFits, NoKeys, Alike, u
    <2>. QED  BY <1>1, <1>6, <2>1, <2>2, <2>3, Nothing DEF Handled, Typed, Sending, u, v
  <1>7. CASE x.keyX = {} /\ Draw /\ Sends(e, Wait(InitKeyA(Queued(x, m), FALSE), 1),
                                          <<KeyMessage("KEYR", Drawn(FALSE))>>)
    <2>. DEFINE q == Queued(x, m)
                y == InitKeyA(q, FALSE)
                v == Wait(y, 1)
                out == <<KeyMessage("KEYR", Drawn(FALSE))>>
    <2>1. /\ drawn < MaxKey /\ drawn' # drawn /\ drawn' \in 0 .. MaxKey
          /\ Drawn(FALSE) \in KeyPair /\ Drawn(FALSE).new = FALSE
      BY <1>1, <1>7, DrawIs
    <2>2. /\ y \in Record /\ Settings(x, y) /\ y.cntx = IF x.cntx = "none" THEN "sim" ELSE x.cntx
          /\ y.rsa = x.rsa /\ y.keyA = Drawn(FALSE) /\ y.keyB = x.keyB /\ y.keyX = {}
      <3>1. q \in Record /\ Alike(x, q)
        BY <1>1, <1>4, QueuedIs
      <3>. HIDE DEF q
      <3>2. /\ y \in Record /\ Settings(q, y) /\ y.cntx = IF q.cntx = "none" THEN "sim" ELSE q.cntx
            /\ y.rsa = q.rsa /\ y.keyA = Drawn(FALSE) /\ y.keyB = q.keyB /\ y.keyX = q.keyX
        BY <1>1, <2>1, <3>1, InitKeyAIs
      <3>. QED  BY <1>7, <3>1, <3>2 DEF Alike, Settings
    <2>3. v \in Record /\ Alike(y, v)
      <3>. HIDE DEF y
      <3>. QED  BY <2>2, WaitIs
    <2>4. x = k
      BY <1>4, <1>7
    <2>5. /\ out \in Seq(Message) /\ ~Signed(out) /\ Types(out) = {"KEYR"} /\ Moves(out)
          /\ Pending(out) = {KeyMessage("KEYR", Drawn(FALSE))}
      BY <2>1, OneKey DEF KeyTypes
    <2>6. Sends(e, v, out)
      BY <1>7
    <2>. HIDE DEF y, v, out
    <2>7. KeyStep(u, Unread, v, out)
      BY ZenonT(60), <1>1, <1>4, <2>1, <2>2, <2>3, <2>5, KeysDrawn DEF Alike, Settings
    <2>8. ModeStep(e, Unread, v, out)
      BY <1>1, <1>2, <2>1, <2>2, <2>3, <2>4, <2>5, Nothing
      DEF ModeStep, Native, RSA, Moving, ContextFits, NoKeys, Alike, Settings, Signatures, Unread, u
    <2>. QED  BY <1>1, <2>1, <2>3, <2>5, <2>6, <2>7, <2>8 DEF Handled, Typed, Sending, u
  <1>. QED  BY <1>3, <1>5, <1>6, <1>7

LEMMA SendMsgStep ==
    ASSUME NEW e \in Endpoint, NEW m, NEW w, Sending(e, w, m), SendMsg(e, w, m)
    PROVE  \E v, out : Handled(e, Unread, v, out)
  <1>1. Alike(uin[e], w)
    BY DEF Sending
  <1>. QED  BY <1>1, SendRSAStep, SendOfflineStep, SendOnlineStep DEF SendMsg, Alike

LEMMA Bounds ==
    /\ TypeOK /\ UNCHANGED given => Bounded
    /\ \A d : TypeOK /\ Disturb(d) => Bounded /\ d \in disturbed'
  BY DEF TypeOK, Bounded, Disturb, given

LEMMA TypeStep ==
    ASSUME TypeOK, NEW e \in Endpoint, Type(e)
    PROVE  \E c, v, out : Handled(e, c, v, out)
  <1>1. typed \in 0 .. MaxMsg /\ typed' = typed + 1 /\ typed < MaxMsg
    BY DEF Type, TypeOK
  <1>2. typed' \in 0 .. MaxMsg /\ typed' \in Msg
    BY <1>1, KexOK DEF Msg
  <1>3. Sending(e, uin[e], typed')
    BY <1>2 DEF Sending, Bounded, Alike, Type, TypeOK
  <1>. QED  BY <1>3, SendMsgStep DEF Type

\* The contact is as before, or its context is reset or deleted; nothing is sent.
LEMMA AlikeStep ==
    ASSUME TypeOK, NEW e \in Endpoint, NEW c, NEW v \in Record, Alike(uin[e], v), NoDraw,
           c.type \in TextTypes \cup {"none"}
    PROVE  /\ RecordOK(uin[e]) => KeyStep(uin[e], c, v, <<>>)
           /\ ModeStep(e, c, v, <<>>)
  <1>. DEFINE u == uin[e]
  <1>1. u \in Record /\ drawn' = drawn
    BY DEF TypeOK, NoDraw
  <1>2. ~Ends(c) /\ c.type \notin Signatures \cup {"KEYR", "DEIN"}
    BY DEF Ends, TextTypes, Signatures, KeyTypes
  <1>3. RecordOK(u) => KeyStep(u, c, v, <<>>)
    BY <1>1, <1>2, KeysKept, Nothing DEF Alike
  <1>4. ModeStep(e, c, v, <<>>)
    BY <1>1, <1>2, Nothing DEF ModeStep, Native, RSA, Moving, ContextFits, Alike
  <1>. QED  BY <1>3, <1>4

LEMMA DroppedStep ==
    ASSUME TypeOK, NEW e \in Endpoint, NEW c, NEW v \in Record, NoKeys(v), v.mode = uin[e].mode,
           v.stored = uin[e].stored, v.rsa = "none", v.cntx \in {"none", uin[e].cntx}, NoDraw,
           c.type \notin Signatures \cup {"KEYR"}
    PROVE  KeyStep(uin[e], c, v, <<>>) /\ ModeStep(e, c, v, <<>>)
  <1>. DEFINE u == uin[e]
  <1>1. u \in Record /\ drawn' = drawn
    BY DEF TypeOK, NoDraw
  <1>2. KeyStep(u, c, v, <<>>)
    BY <1>1, KeysAbsent, Nothing DEF NoKeys, Alive
  <1>3. ModeStep(e, c, v, <<>>)
    BY <1>1, Nothing DEF ModeStep, Native, RSA, Moving, ContextFits, NoKeys
  <1>. QED  BY <1>2, <1>3

LEMMA BeginStep ==
    ASSUME TypeOK, NEW e \in Endpoint, Begin(e)
    PROVE  \E c, v, out : Handled(e, c, v, out)
  <1>. DEFINE u == uin[e]
              z == NoOfflineKey(u)
              k == [ResetContext(z) EXCEPT !.offlineKey = FALSE]
  <1>1. /\ u \in Record /\ drawn \in 0 .. MaxKey /\ fate' \in [Msg -> Fates] /\ Bounded
    BY Bounds DEF TypeOK, Begin, NoFate
  <1>2. /\ k \in Record /\ NoKeys(k) /\ k.mode = u.mode /\ k.stored = u.stored /\ k.cntx = u.cntx
        /\ k.rsa = "none"
    <2>1. z \in Record /\ z.mode = u.mode /\ z.stored = u.stored /\ z.cntx = u.cntx
      BY <1>1, NoOfflineKeyIs
    <2>. HIDE DEF z
    <2>2. /\ ResetContext(z) \in Record /\ NoKeys(ResetContext(z)) /\ Settings(z, ResetContext(z))
          /\ ResetContext(z).rsa = "none" /\ ResetContext(z).cntx = z.cntx
      BY <2>1, ResetContextIs
    <2>. QED  BY <2>1, <2>2 DEF Record, NoKeys, Settings
  <1>3. ASSUME u.mode = "rsa", NoDraw, Sends(e, Connect(u).u, Connect(u).out)
        PROVE  \E v, out : Handled(e, Unread, v, out)
    <2>. DEFINE v == Connect(u).u
                out == Connect(u).out
    <2>1. /\ v \in Record /\ Settings(u, v)
          /\ v.cntx = IF u.cntx = "none" THEN "rsa" ELSE u.cntx
          /\ v.rsa = IF u.rsa = "none" THEN "connect" ELSE u.rsa
          /\ v.keyA = u.keyA /\ v.keyB = u.keyB /\ v.keyX = u.keyX
          /\ out = <<>> \/ out = <<Signature("connect")>>
      BY <1>1, ConnectIs
    <2>2. Sends(e, v, out) /\ drawn' = drawn
      BY <1>3 DEF NoDraw
    <2>. HIDE DEF v, out
    <2>3. /\ out \in Seq(Message) /\ Types(out) \subseteq Signatures /\ Moves(out)
          /\ \A n \in Pending(out) : n.type # "KEYB"
      BY <2>1, OneSignature, Nothing DEF Signatures
    <2>4. RecordOK(u) => KeyStep(u, Unread, v, out)
      BY <1>1, <1>3, <2>1, <2>3, KeysAbsent, Nothing DEF Settings, RecordOK, Alive
    <2>5. ModeStep(e, Unread, v, out)
      BY <1>3, <2>1, <2>2, <2>3, Nothing DEF ModeStep, Native, RSA, Moving, Settings, ContextFits
    <2>. QED  BY <1>1, <2>1, <2>2, <2>3, <2>4, <2>5 DEF Handled, Typed
  <1>4. ASSUME NoDraw, Sends(e, k, <<>>)
        PROVE  \E v, out : Handled(e, Unread, v, out)
    <2>. HIDE DEF k
    <2>1. KeyStep(u, Unread, k, <<>>) /\ ModeStep(e, Unread, k, <<>>) /\ drawn' = drawn
      BY <1>2, <1>4, DroppedStep, Nothing DEF Unread, Signatures, NoDraw
    <2>. QED  BY <1>1, <1>2, <1>4, <2>1, Nothing DEF Handled, Typed
  <1>5. ASSUME u.mode = "native", Draw,
               Sends(e, Wait(InitKeyA(k, FALSE), 1), <<KeyMessage("KEYR", Drawn(FALSE))>>)
        PROVE  \E v, out : Handled(e, Unread, v, out)
    <2>. DEFINE y == InitKeyA(k, FALSE)
                v == Wait(y, 1)
                out == <<KeyMessage("KEYR", Drawn(FALSE))>>
    <2>. HIDE DEF k
    <2>1. /\ drawn < MaxKey /\ drawn' # drawn /\ drawn' \in 0 .. MaxKey
          /\ Drawn(FALSE) \in KeyPair /\ Drawn(FALSE).new = FALSE
      BY <1>1, <1>5, DrawIs
    <2>2. /\ y \in Record /\ Settings(k, y) /\ y.cntx = IF k.cntx = "none" THEN "sim" ELSE k.cntx
          /\ y.rsa = k.rsa /\ y.keyA = Drawn(FALSE) /\ y.keyB = k.keyB /\ y.keyX = k.keyX
      BY <1>1, <1>2, <2>1, InitKeyAIs
    <2>3. Sends(e, v, out)
      BY <1>5
    <2>. HIDE DEF y
    <2>4. v \in Record /\ Alike(y, v)
      BY <2>2, WaitIs
    <2>5. /\ out \in Seq(Message) /\ ~Signed(out) /\ Types(out) = {"KEYR"} /\ Moves(out)
          /\ Pending(out) = {KeyMessage("KEYR", Drawn(FALSE))}
      BY <2>1, OneKey DEF KeyTypes
    <2>. HIDE DEF v, out
    <2>6. KeyStep(u, Unread, v, out)
      BY ZenonT(60), <1>1, <1>2, <1>5, <2>1, <2>2, <2>4, <2>5, KeysDrawn DEF Alike, Settings, NoKeys
    <2>7. ModeStep(e, Unread, v, out)
      BY <1>1, <1>2, <1>5, <2>1, <2>2, <2>4, <2>5, Nothing
      DEF ModeStep, Native, RSA, Moving, ContextFits, NoKeys, Alike, Settings, Signatures, Unread
    <2>. QED  BY <1>1, <2>1, <2>3, <2>4, <2>5, <2>6, <2>7 DEF Handled, Typed
  <1>. QED  BY <1>3, <1>4, <1>5 DEF Begin

LEMMA EndStep ==
    ASSUME TypeOK, NEW e \in Endpoint, End(e)
    PROVE  \E c, v, out : Handled(e, c, v, out)
  <1>. DEFINE u == uin[e]
              x == DeleteContext(u)
  <1>1. /\ u \in Record /\ drawn' \in 0 .. MaxKey /\ fate' \in [Msg -> Fates] /\ Bounded
        /\ drawn' = drawn
    BY Bounds DEF TypeOK, End, NoFate, NoDraw
  <1>2. /\ x \in Record /\ NoKeys(x) /\ Settings(u, x) /\ x.rsa = "none" /\ x.cntx = "none"
    BY <1>1, DeleteContextIs
  <1>. HIDE DEF x
  <1>3. ASSUME u.mode = "rsa", NEW out \in {<<>>, <<Signature("bye")>>}, Sends(e, Wait(x, 3), out)
        PROVE  \E v, o : Handled(e, Unread, v, o)
    <2>. DEFINE v == Wait(x, 3)
    <2>1. v \in Record /\ Alike(x, v)
      BY <1>2, WaitIs
    <2>2. /\ out \in Seq(Message) /\ Types(out) \subseteq Signatures /\ Moves(out)
          /\ \A n \in Pending(out) : n.type # "KEYB"
      BY OneSignature, Nothing DEF Signatures
    <2>3. Sends(e, v, out)
      BY <1>3
    <2>. HIDE DEF v
    <2>4. KeyStep(u, Unread, v, out)
      BY <1>1, <1>2, <2>1, <2>2, KeysAbsent, Nothing DEF Alike, NoKeys, Alive
    <2>5. ModeStep(e, Unread, v, out)
      BY <1>1, <1>2, <1>3, <2>1, <2>2, Nothing
      DEF ModeStep, Native, RSA, Moving, ContextFits, NoKeys, Alike, Settings
    <2>. QED  BY <1>1, <2>1, <2>2, <2>3, <2>4, <2>5 DEF Handled, Typed
  <1>4. ASSUME u.mode = "native", Sends(e, [x EXCEPT !.offlineKey = FALSE], <<Signature("DEIN")>>)
        PROVE  \E v, o : Handled(e, Unread, v, o)
    <2>. DEFINE v == [x EXCEPT !.offlineKey = FALSE]
                out == <<Signature("DEIN")>>
    <2>1. /\ v \in Record /\ NoKeys(v) /\ v.mode = u.mode /\ v.stored = u.stored /\ v.rsa = "none"
          /\ v.cntx = "none"
      BY <1>2 DEF Record, NoKeys, Settings
    <2>2. Sends(e, v, out)
      BY <1>4
    <2>3. /\ out \in Seq(Message) /\ Types(out) = {"DEIN"} /\ Moves(out) /\ ~Signed(out)
          /\ \A n \in Pending(out) : n.type # "KEYB"
      <3>1. Signature("DEIN") \in Message /\ Signature("DEIN").type = "DEIN"
        BY Messages
      <3>2. Pending(out) \subseteq {Signature("DEIN")} /\ Types(out) = {"DEIN"} /\ out \in Seq(Message)
        BY <3>1, OutOne
      <3>. QED  BY <3>1, <3>2, Nothing DEF Moves, Signed
    <2>. HIDE DEF v, out
    <2>4. KeyStep(u, Unread, v, out)
      BY <1>1, <2>1, <2>3, KeysAbsent, Nothing DEF NoKeys, Alive
    <2>5. ModeStep(e, Unread, v, out)
      BY <1>1, <1>4, <2>1, <2>3, Nothing
      DEF ModeStep, Native, RSA, Moving, ContextFits, NoKeys, Signatures, Unread
    <2>. QED  BY <1>1, <2>1, <2>2, <2>3, <2>4, <2>5 DEF Handled, Typed
  <1>. QED  BY <1>3, <1>4 DEF End, x

LEMMA ModeActionStep ==
    ASSUME TypeOK, NEW e \in Endpoint, Mode(e)
    PROVE  \E c, v, out : Handled(e, c, v, out)
  <1>. DEFINE u == uin[e]
              x == DeleteContext(u)
  <1>1. /\ u \in Record /\ drawn' \in 0 .. MaxKey /\ fate' \in [Msg -> Fates] /\ Bounded
        /\ "mode" \in disturbed'
    BY Bounds DEF TypeOK, Mode, NoFate, NoDraw
  <1>2. PICK mode \in {"native", "rsa"} : Sends(e, [x EXCEPT !.mode = mode], <<>>)
    BY DEF Mode
  <1>3. x \in Record /\ NoKeys(x)
    BY <1>1, DeleteContextIs
  <1>. HIDE DEF x
  <1>. DEFINE v == [x EXCEPT !.mode = mode]
  <1>4. v \in Record /\ NoKeys(v)
    BY <1>3 DEF Record, NoKeys
  <1>5. Sends(e, v, <<>>)
    BY <1>2
  <1>. HIDE DEF v
  <1>6. KeyStep(u, Unread, v, <<>>)
    BY <1>1, <1>4, KeysAbsent, Nothing DEF NoKeys, Alive
  <1>. QED  BY <1>1, <1>4, <1>5, <1>6, Nothing DEF Handled, Typed

LEMMA StatusStep ==
    ASSUME TypeOK, NEW e \in Endpoint, Status(e)
    PROVE  \E c, v, out : Handled(e, c, v, out)
  <1>. DEFINE u == uin[e]
  <1>1. /\ u \in Record /\ drawn' \in 0 .. MaxKey /\ fate' \in [Msg -> Fates] /\ Bounded /\ NoDraw
    BY Bounds DEF TypeOK, Status, NoFate, NoDraw
  <1>2. ASSUME NEW x \in {u, DeleteContext(u), NoOfflineKey(u)}, NEW on \in BOOLEAN,
               Sends(e, [x EXCEPT !.online = on], <<>>)
        PROVE  \E v, out : Handled(e, Unread, v, out)
    <2>. DEFINE v == [x EXCEPT !.online = on]
    <2>1. /\ x \in Record
          /\ \/ x = u
             \/ /\ NoKeys(x) /\ x.mode = u.mode /\ x.stored = u.stored /\ x.rsa = "none"
                /\ x.cntx \in {"none", u.cntx}
      BY <1>1, DeleteContextIs, NoOfflineKeyIs DEF Settings
    <2>2. v \in Record /\ Alike(x, v)
      BY <2>1 DEF Record, Alike
    <2>3. Sends(e, v, <<>>)
      BY <1>2
    <2>. HIDE DEF v
    <2>4. (RecordOK(u) => KeyStep(u, Unread, v, <<>>)) /\ ModeStep(e, Unread, v, <<>>)
      <3>1. CASE x = u
        BY <1>1, <2>2, <3>1, AlikeStep, Nothing
      <3>2. CASE x # u
        BY <1>1, <2>1, <2>2, <3>2, DroppedStep, Nothing DEF Alike, NoKeys, Unread, Signatures
      <3>. QED  BY <3>1, <3>2
    <2>. QED  BY <1>1, <2>2, <2>3, <2>4, Nothing DEF Handled, Typed
  <1>. QED  BY <1>2 DEF Status

LEMMA RestartStep ==
    ASSUME TypeOK, NEW e \in Endpoint, Restart(e)
    PROVE  \E c, v, out : Handled(e, c, v, out)
  <1>. DEFINE v == Restarted(uin[e])
  <1>1. uin[e] \in Record /\ drawn' \in 0 .. MaxKey /\ Bounded /\ NoDraw /\ Sends(e, v, <<>>)
    BY Bounds DEF TypeOK, Restart, NoDraw
  <1>2. fate' \in [Msg -> Fates]
    BY DEF Restart, Forgets, TypeOK, Fates
  <1>3. /\ v \in Record /\ v.mode = uin[e].mode /\ v.stored = uin[e].stored
        /\ NoKeys(v) /\ v.cntx = "none" /\ v.rsa = "none"
    BY <1>1, RestartedIs
  <1>. HIDE DEF v
  <1>4. KeyStep(uin[e], Unread, v, <<>>) /\ ModeStep(e, Unread, v, <<>>)
    BY <1>1, <1>3, DroppedStep, Nothing DEF Unread, Signatures
  <1>. QED  BY <1>1, <1>2, <1>3, <1>4, Nothing DEF Handled, Typed

LEMMA GiveUpStep ==
    ASSUME TypeOK, NEW e \in Endpoint, GiveUp(e)
    PROVE  \E c, v, out : Handled(e, c, v, out)
  <1>. DEFINE u == uin[e]
  <1>1. u \in Record /\ drawn' \in 0 .. MaxKey /\ Bounded /\ NoDraw /\ fate' \in [Msg -> Fates]
    BY Bounds DEF TypeOK, GiveUp, NoDraw, NoFate, Fates
  <1>2. PICK v : /\ Sends(e, v, <<>>)
                 /\ \/ v = [u EXCEPT !.waitForExchange = 0]
                    \/ v = [u EXCEPT !.waitForExchange = 0, !.msgQueue = <<>>]
    BY DEF GiveUp
  <1>3. <<>> \in Seq(Msg)
    OBVIOUS
  <1>4. v \in Record /\ Alike(u, v)
    <2>1. CASE v = [u EXCEPT !.waitForExchange = 0]
      BY <1>1, <2>1 DEF Record, Alike
    <2>2. CASE v = [u EXCEPT !.waitForExchange = 0, !.msgQueue = <<>>]
      <3>. DEFINE y == [u EXCEPT !.waitForExchange = 0]
      <3>1. y \in Record /\ Alike(u, y) /\ v = [y EXCEPT !.msgQueue = <<>>]
        BY <1>1, <2>2 DEF Record, Alike
      <3>. HIDE DEF y
      <3>. QED  BY <1>3, <3>1 DEF Record, Alike
    <2>. QED  BY <1>2, <2>1, <2>2
  <1>5. (RecordOK(u) => KeyStep(u, Unread, v, <<>>)) /\ ModeStep(e, Unread, v, <<>>)
    BY <1>1, <1>4, AlikeStep, Nothing
  <1>. QED  BY <1>1, <1>2, <1>4, <1>5, Nothing DEF Handled, Typed

LEMMA ResendStep ==
    ASSUME TypeOK, NEW e \in Endpoint, Resend(e)
    PROVE  \E c, v, out : Handled(e, c, v, out)
  <1>. DEFINE u == uin[e]
  <1>1. u \in Record /\ Bounded /\ u.msgQueue \in Seq(Msg)
    BY Bounds DEF TypeOK, Resend, Record
  <1>2. CASE u.msgQueue = <<>>
    <2>. DEFINE v == [u EXCEPT !.waitForExchange = 0]
    <2>1. drawn' \in 0 .. MaxKey /\ NoDraw /\ fate' \in [Msg -> Fates] /\ Sends(e, v, <<>>)
      BY <1>2 DEF Resend, NoDraw, NoFate, TypeOK
    <2>2. v \in Record /\ Alike(u, v)
      BY <1>1 DEF Record, Alike
    <2>. HIDE DEF v
    <2>3. (RecordOK(u) => KeyStep(u, Unread, v, <<>>)) /\ ModeStep(e, Unread, v, <<>>)
      BY <2>1, <2>2, AlikeStep, Nothing
    <2>. QED  BY <1>1, <2>1, <2>2, <2>3, Nothing DEF Handled, Typed
  <1>3. CASE u.msgQueue # <<>>
    <2>. DEFINE m == Head(u.msgQueue)
                w == [u EXCEPT !.msgQueue = Tail(@)]
    <2>1. SendMsg(e, w, m)
      BY <1>3 DEF Resend
    <2>2. m \in Msg /\ Tail(u.msgQueue) \in Seq(Msg)
      BY <1>1, <1>3, HeadTailProperties
    <2>3. w \in Record /\ Alike(u, w)
      BY <1>1, <2>2 DEF Record, Alike
    <2>. HIDE DEF m, w
    <2>4. Sending(e, w, m)
      BY <1>1, <2>2, <2>3 DEF Sending
    <2>. QED  BY <2>1, <2>4, SendMsgStep
  <1>. QED  BY <1>2, <1>3

LEMMA RsaTimeoutStep ==
    ASSUME TypeOK, NEW e \in Endpoint, RsaTimeout(e)
    PROVE  \E c, v, out : Handled(e, c, v, out)
  <1>. DEFINE u == uin[e]
              x == DeleteRSAcntx(u)
              v == Wait(x, 3)
  <1>1. /\ u \in Record /\ drawn' \in 0 .. MaxKey /\ Bounded /\ NoDraw /\ fate' \in [Msg -> Fates]
        /\ Sends(e, v, <<>>)
    BY Bounds DEF TypeOK, RsaTimeout, NoDraw
  <1>2. x \in Record /\ NoKeys(x) /\ Settings(u, x) /\ x.rsa = "none" /\ x.cntx = "none"
    BY <1>1, DeleteContextIs
  <1>. HIDE DEF x
  <1>3. v \in Record /\ Alike(x, v)
    BY <1>2, WaitIs
  <1>. HIDE DEF v
  <1>4. KeyStep(u, Unread, v, <<>>) /\ ModeStep(e, Unread, v, <<>>)
    BY <1>1, <1>2, <1>3, DroppedStep, Nothing DEF Alike, Settings, NoKeys, Unread, Signatures
  <1>. QED  BY <1>1, <1>3, <1>4, Nothing DEF Handled, Typed

\* What e reads.
LEMMA Reads ==
    ASSUME TypeOK, NEW e \in Endpoint, NEW t, Got(e, t)
    PROVE  /\ net[e] # <<>> /\ In(e) \in Message /\ In(e).type = t
           /\ In(e).key \in KeyPair \cup {NoKey} /\ In(e).msg \in Msg \cup {0}
           /\ t \in TextTypes => In(e).msg \in Msg
           /\ t \in KeyTypes => In(e).key \in KeyPair /\ (In(e).key.new <=> t # "KEYR")
  <1>1. net[e] # <<>> /\ In(e).type = t
    BY DEF Got, In
  <1>2. net[e] \in Seq(Message)
    BY DEF TypeOK
  <1>3. In(e) \in Message
    BY <1>1, <1>2, HeadTailProperties DEF In
  <1>. HIDE DEF In
  <1>. QED  BY <1>1, <1>3 DEF Message, Carries

LEMMA RecvSECUStep ==
    ASSUME TypeOK, NEW e \in Endpoint, RecvSECU(e)
    PROVE  \E c, v, out : Handled(e, c, v, out)
  <1>. DEFINE u == uin[e]
              x == ToRSA(u)
              c == In(e)
              y == [x EXCEPT !.rsa = "open"]
              z == DeleteRSAcntx(x)
  <1>1. /\ u \in Record /\ drawn' \in 0 .. MaxKey /\ drawn' = drawn /\ Bounded
        /\ fate' \in [Msg -> Fates]
    BY Bounds DEF TypeOK, RecvSECU
  <1>2. /\ x \in Record /\ x.mode = "rsa" /\ x.stored = u.stored
        /\ IF u.mode = "native"
           THEN NoKeys(x) /\ x.cntx = "rsa" /\ x.rsa = "none"
           ELSE /\ x.cntx = IF u.cntx = "none" THEN "rsa" ELSE u.cntx
                /\ x.rsa = u.rsa /\ x.offlineKey = u.offlineKey
                /\ x.keyA = u.keyA /\ x.keyB = u.keyB /\ x.keyX = u.keyX
    BY <1>1, ToRSAIs
  <1>3. PICK v, out :
          /\ net[e] # <<>> /\ c.type \in Signatures /\ Replies(e, v, out)
          /\ \/ v = x
             \/ v = Wait(y, 2)
             \/ v = Wait(z, 3)
          /\ out \in {<<>>, <<Signature("accept")>>}
    <2>1. /\ Got(e, "connect") => net[e] # <<>> /\ c.type = "connect"
          /\ Got(e, "accept") => net[e] # <<>> /\ c.type = "accept"
          /\ Got(e, "bye") => net[e] # <<>> /\ c.type = "bye"
      BY DEF Got, In
    <2>. HIDE DEF c
    <2>2. {"connect", "accept", "bye"} \subseteq Signatures
      BY DEF Signatures
    <2>3. CASE Got(e, "connect") /\ Replies(e, Wait(y, 2), <<Signature("accept")>>)
      BY <2>1, <2>2, <2>3
    <2>4. CASE Got(e, "accept") /\ Replies(e, IF x.rsa = "connect" THEN Wait(y, 2) ELSE x, <<>>)
      <3>. HIDE DEF x, y, z
      <3>. QED  BY <2>1, <2>2, <2>4
    <2>5. CASE Got(e, "bye") /\ Replies(e, IF x.rsa = "open" THEN Wait(z, 3) ELSE x, <<>>)
      <3>. HIDE DEF x, y, z
      <3>. QED  BY <2>1, <2>2, <2>5
    <2>. QED  BY <2>3, <2>4, <2>5 DEF RecvSECU
  <1>. HIDE DEF x, c
  <1>4. /\ y \in Record /\ y.mode = x.mode /\ y.stored = x.stored /\ y.cntx = x.cntx /\ y.rsa = "open"
        /\ y.offlineKey = x.offlineKey /\ y.keyA = x.keyA /\ y.keyB = x.keyB /\ y.keyX = x.keyX
    BY <1>2 DEF Record
  <1>5. z \in Record /\ NoKeys(z) /\ Settings(x, z) /\ z.rsa = "none" /\ z.cntx = "none"
    BY <1>2, DeleteContextIs
  <1>. HIDE DEF y, z
  <1>6. /\ v \in Record
        /\ Alike(x, v) \/ Alike(y, v) \/ Alike(z, v)
    BY <1>2, <1>3, <1>4, <1>5, WaitIs DEF Alike
  <1>7. /\ out \in Seq(Message) /\ Types(out) \subseteq Signatures /\ Moves(out)
        /\ \A m \in Pending(out) : m.type # "KEYB"
    BY <1>3, OneSignature, Nothing DEF Signatures
  <1>8. c.type \notin KeyTypes \cup {"DEIN", "none"}
    BY <1>3, Nothing
  <1>9. RecordOK(u) => KeyStep(u, c, v, out)
    <2>1. RecordOK(u) => v.keyA = NoKey /\ ~Alive(v)
      <3>1. u.mode \in {"native", "rsa"}
        BY <1>1 DEF Record
      <3>. QED  BY <1>2, <1>4, <1>5, <1>6, <3>1 DEF Alike, Settings, NoKeys, RecordOK, Alive
    <2>. QED  BY <1>1, <1>6, <1>7, <1>8, <2>1, KeysAbsent DEF KeyTypes
  <1>10. ModeStep(e, c, v, out)
    <2>1. v.mode = "rsa" /\ v.stored = u.stored
      BY <1>2, <1>4, <1>5, <1>6 DEF Alike, Settings
    <2>2. RSA(u) => RSA(v)
      BY <1>2, <1>4, <1>5, <1>6, <2>1 DEF Alike, Settings, NoKeys, RSA
    <2>3. Moving(u) => Moving(v)
      <3>1. CASE u.mode = "native"
        BY <1>2, <1>4, <1>5, <1>6, <2>1, <3>1 DEF Alike, Settings, NoKeys, Moving, ContextFits
      <3>2. CASE u.mode # "native"
        BY <1>2, <1>4, <1>5, <1>6, <2>1, <3>2 DEF Alike, Settings, NoKeys, Moving, ContextFits
      <3>. QED  BY <3>1, <3>2
    <2>. QED  BY <1>1, <1>3, <1>7, <1>8, <2>1, <2>2, <2>3 DEF ModeStep, KeyTypes
  <1>. QED  BY <1>1, <1>3, <1>6, <1>7, <1>9, <1>10 DEF Handled, Typed, c

LEMMA SpoilsStep ==
    ASSUME TypeOK, NEW e \in Endpoint, Got(e, "ENON"), uin[e].mode = "rsa", Spoils(e, In(e)),
           Draw, UNCHANGED given
    PROVE  \E c, v, out : Handled(e, c, v, out)
  <1>. DEFINE u == uin[e]
              c == In(e)
              m == [c EXCEPT !.type = "RSND"]
              k == KeyMessage("KEYR", Drawn(FALSE))
  <1>1. /\ u \in Record /\ drawn \in 0 .. MaxKey /\ drawn' \in 0 .. MaxKey /\ Bounded
        /\ net[e] # <<>> /\ c \in Message /\ c.type = "ENON" /\ Drawn(FALSE) \in KeyPair
        /\ Drawn(FALSE).new = FALSE
    BY Bounds, DrawIs, Reads DEF TypeOK
  <1>. HIDE DEF c
  <1>2. m \in Message /\ m.type = "RSND" /\ k \in Message /\ k.type = "KEYR"
    BY <1>1, SentBackIs, Messages DEF KeyTypes
  <1>3. SentBack(c) = <<m, k>> /\ Head(SentBack(c)) = m
    BY DEF SentBack
  <1>. HIDE DEF m, k
  <1>4. /\ <<m, k>> \in Seq(Message) /\ Pending(<<m, k>>) = {k}
        /\ <<m>> \in Seq(Message) /\ Pending(<<m>>) = {}
    BY <1>2, OutTwo, OneText DEF TextTypes, Ends, KeyTypes
  <1>5. PICK v, out :
          /\ Replies(e, v, out) /\ fate' \in [Msg -> Fates] /\ v \in Record /\ NoKeys(v)
          /\ out \in {<<m>>, <<m, k>>}
    <2>1. CASE Replies(e, Restarted(u), <<Head(SentBack(c))>>) /\ Forgets(u)
      <3>1. fate' \in [Msg -> Fates]
        BY <2>1 DEF Forgets, TypeOK, Fates
      <3>. QED  BY <1>1, <1>3, <2>1, <3>1, RestartedIs
    <2>2. ASSUME NEW state \in {"none", "spoiled"}, NoFate,
                 Replies(e, [CreateContext(ResetContext(u), "rsa") EXCEPT !.rsa = state], SentBack(c))
          PROVE  \E v, out : /\ Replies(e, v, out) /\ fate' \in [Msg -> Fates]
                             /\ v \in Record /\ NoKeys(v) /\ out \in {<<m>>, <<m, k>>}
      <3>. DEFINE x == CreateContext(ResetContext(u), "rsa")
      <3>1. x \in Record /\ NoKeys(x)
        BY <1>1, ResetContextIs, CreateContextIs DEF NoKeys
      <3>2. Replies(e, [x EXCEPT !.rsa = state], <<m, k>>) /\ fate' \in [Msg -> Fates]
        BY <1>3, <2>2 DEF NoFate, TypeOK
      <3>. HIDE DEF x
      <3>3. [x EXCEPT !.rsa = state] \in Record /\ NoKeys([x EXCEPT !.rsa = state])
        BY <3>1 DEF Record, NoKeys
      <3>. QED  BY <3>2, <3>3
    <2>. QED  BY <2>1, <2>2 DEF Spoils, c
  <1>6. KeyStep(u, c, v, out)
    BY <1>1, <1>2, <1>4, <1>5, KeysAbsent DEF NoKeys, Alive
  <1>7. ModeStep(e, c, v, out)
    BY <1>1, Nothing DEF ModeStep, Native, Signatures
  <1>. QED  BY <1>1, <1>4, <1>5, <1>6, <1>7 DEF Handled, Typed, c

LEMMA RecvENONStep ==
    ASSUME TypeOK, NEW e \in Endpoint, RecvENON(e)
    PROVE  \E c, v, out : Handled(e, c, v, out)
  <1>. DEFINE u == uin[e]
              c == In(e)
  <1>1. /\ u \in Record /\ drawn \in 0 .. MaxKey /\ fate \in [Msg -> Fates] /\ Bounded
        /\ net[e] # <<>> /\ c \in Message /\ c.type = "ENON" /\ c.msg \in Msg \cup {0}
    BY Bounds, Reads DEF TypeOK, RecvENON
  <1>. HIDE DEF c
  <1>2. CASE Replies(e, u, <<>>) /\ Decoded(u, c) /\ NoDraw
    <2>1. drawn' \in 0 .. MaxKey /\ Alike(u, u)
      BY <1>1, <1>2 DEF NoDraw, Alike
    <2>2. fate' \in [Msg -> Fates]
      BY <1>1, <1>2, BecomesIs DEF Decoded, Fates
    <2>3. (RecordOK(u) => KeyStep(u, c, u, <<>>)) /\ ModeStep(e, c, u, <<>>)
      BY <1>1, <1>2, <2>1, AlikeStep DEF TextTypes
    <2>. QED  BY <1>1, <1>2, <2>1, <2>2, <2>3, Nothing DEF Handled, Typed, c
  <1>3. CASE u.mode = "native" /\ Replies(e, InitKeyA(ResetContext(u), FALSE), SentBack(c))
             /\ NoFate /\ Draw
    <2>. DEFINE m == [c EXCEPT !.type = "RSND"]
                k == KeyMessage("KEYR", Drawn(FALSE))
                x == ResetContext(u)
                v == InitKeyA(x, FALSE)
                out == <<m, k>>
    <2>1. /\ drawn < MaxKey /\ drawn' \in 0 .. MaxKey /\ fate' \in [Msg -> Fates]
          /\ Drawn(FALSE) \in KeyPair /\ Drawn(FALSE).new = FALSE
      BY <1>1, <1>3, DrawIs DEF NoFate
    <2>2. /\ x \in Record /\ NoKeys(x) /\ Settings(u, x) /\ x.rsa = "none" /\ x.cntx = u.cntx
      BY <1>1, ResetContextIs
    <2>. HIDE DEF x
    <2>3. /\ v \in Record /\ Settings(x, v) /\ v.cntx = IF x.cntx = "none" THEN "sim" ELSE x.cntx
          /\ v.rsa = x.rsa /\ v.keyA = Drawn(FALSE) /\ v.keyB = x.keyB /\ v.keyX = x.keyX
      BY <1>1, <2>1, <2>2, InitKeyAIs
    <2>4. m \in Message /\ m.type = "RSND" /\ k \in Message /\ k.type = "KEYR"
      BY <1>1, <2>1, SentBackIs, Messages DEF KeyTypes
    <2>5. Replies(e, v, out)
      BY <1>3 DEF SentBack, x
    <2>. HIDE DEF m, v
    <2>6. out \in Seq(Message) /\ Types(out) = {"RSND", "KEYR"} /\ Pending(out) = {k}
      <3>. HIDE DEF k
      <3>. QED  BY <2>4, OutTwo DEF Ends, KeyTypes
    <2>7. ~Signed(out)
      BY <2>6 DEF Signed, Signatures
    <2>. HIDE DEF out
    <2>8. KeyStep(u, c, v, out)
      BY <1>1, <1>3, <2>1, <2>2, <2>3, <2>6, KeysDrawn DEF Settings, NoKeys
    <2>9. ModeStep(e, c, v, out)
      BY <1>1, <1>3, <2>2, <2>3, <2>7 DEF ModeStep, Native, RSA, Settings, NoKeys, Signatures
    <2>. QED  BY <1>1, <2>1, <2>3, <2>5, <2>6, <2>8, <2>9 DEF Handled, Typed, c
  <1>4. CASE u.mode = "rsa" /\ Spoils(e, c) /\ Draw
    BY <1>4, SpoilsStep DEF RecvENON, c
  <1>. QED  BY <1>2, <1>3, <1>4 DEF RecvENON, c

LEMMA RecvENOFStep ==
    ASSUME TypeOK, NEW e \in Endpoint, RecvENOF(e)
    PROVE  \E c, v, out : Handled(e, c, v, out)
  <1>. DEFINE u == uin[e]
              c == In(e)
              x == IF u.keyX = {} THEN u ELSE NoOfflineKey(u)
              y == InitKeyX(x, x.stored)
              v == [y EXCEPT !.offlineKey = TRUE]
  <1>1. /\ u \in Record /\ drawn' \in 0 .. MaxKey /\ NoDraw /\ drawn' = drawn
        /\ fate \in [Msg -> Fates] /\ Bounded
        /\ net[e] # <<>> /\ c \in Message /\ c.type = "ENOF" /\ c.msg \in Msg \cup {0}
    BY Bounds, Reads DEF TypeOK, RecvENOF, NoDraw
  <1>. HIDE DEF c
  <1>2. /\ x \in Record /\ x.mode = u.mode /\ x.stored = u.stored /\ x.cntx = u.cntx
        /\ x = u \/ (NoKeys(x) /\ x.rsa = "none")
    BY <1>1, NoOfflineKeyIs
  <1>3. CASE Replies(e, v, <<>>) /\ Decoded(v, c) /\ u.stored # {}
    <2>1. /\ y \in Record
          /\ \/ y = x
             \/ y.mode = x.mode /\ y.cntx = "sim" /\ y.rsa = "none" /\ y.keyA = NoKey
      <3>1. x.stored \in Secret
        BY <1>2 DEF Record
      <3>. HIDE DEF x
      <3>. QED  BY <1>2, <3>1, InitKeyXIs DEF Settings
    <2>2. Replies(e, v, <<>>) /\ fate' \in [Msg -> Fates]
      BY <1>1, <1>3, BecomesIs DEF Decoded, Fates
    <2>. HIDE DEF x, y
    <2>3. /\ v \in Record /\ v.offlineKey
          /\ v.mode = y.mode /\ v.cntx = y.cntx /\ v.rsa = y.rsa /\ v.keyA = y.keyA
          /\ v.keyB = y.keyB /\ v.keyX = y.keyX
      BY <2>1 DEF Record
    <2>. HIDE DEF v
    <2>4. ~Ends(c) /\ c.type \notin Signatures \cup KeyTypes
      BY <1>1, Nothing DEF Ends, TextTypes, KeyTypes, Signatures
    <2>5. RecordOK(u) => KeyStep(u, c, v, <<>>)
      <3>1. CASE y.keyA = NoKey
        BY <1>1, <2>3, <2>4, <3>1, KeysAbsent, Nothing DEF Alive, KeyTypes
      <3>2. CASE y = u
        BY <1>1, <2>3, <2>4, <3>2, KeyPairs, Nothing DEF KeyStep, RecordOK, Alive, KeyTypes
      <3>. QED  BY <1>2, <2>1, <3>1, <3>2 DEF NoKeys
    <2>6. ModeStep(e, c, v, <<>>)
      BY <1>1, <1>2, <1>3, <2>1, <2>3, <2>4, Nothing DEF ModeStep, Native, RSA, Moving, NoKeys
    <2>. QED  BY <1>1, <2>2, <2>3, <2>5, <2>6, Nothing DEF Handled, Typed, c
  <1>4. CASE Replies(e, x, <<>>) /\ Becomes(c.msg, "unread")
    <2>1. fate' \in [Msg -> Fates]
      BY <1>1, <1>4, BecomesIs DEF Fates
    <2>2. (RecordOK(u) => KeyStep(u, c, x, <<>>)) /\ ModeStep(e, c, x, <<>>)
      <3>1. CASE x = u
        BY <1>1, <3>1, AlikeStep DEF TextTypes, Alike
      <3>2. CASE NoKeys(x) /\ x.rsa = "none"
        <4>. HIDE DEF x
        <4>. QED  BY <1>1, <1>2, <3>2, DroppedStep DEF Signatures
      <3>. QED  BY <1>2, <3>1, <3>2
    <2>. QED  BY <1>1, <1>2, <1>4, <2>1, <2>2, Nothing DEF Handled, Typed, c
  <1>. QED  BY <1>2, <1>3, <1>4 DEF RecvENOF, c

LEMMA RecvRSNDStep ==
    ASSUME TypeOK, NEW e \in Endpoint, RecvRSND(e)
    PROVE  \E c, v, out : Handled(e, c, v, out)
  <1>. DEFINE u == uin[e]
              c == In(e)
  <1>1. /\ u \in Record /\ drawn' \in 0 .. MaxKey /\ NoDraw /\ fate \in [Msg -> Fates] /\ Bounded
        /\ net[e] # <<>> /\ c \in Message /\ c.type = "RSND" /\ c.msg \in Msg
    BY Bounds, Reads DEF TypeOK, RecvRSND, NoDraw, TextTypes
  <1>2. fate' \in [Msg -> Fates]
    BY <1>1, BecomesIs DEF RecvRSND, NoFate, Fates
  <1>. HIDE DEF c
  <1>3. PICK v \in {Queued(u, c.msg), u} : Replies(e, v, <<>>)
    BY DEF RecvRSND, Queued, c
  <1>4. v \in Record /\ Alike(u, v)
    BY <1>1, QueuedIs DEF Alike
  <1>5. (RecordOK(u) => KeyStep(u, c, v, <<>>)) /\ ModeStep(e, c, v, <<>>)
    BY <1>1, <1>4, AlikeStep DEF TextTypes
  <1>. QED  BY <1>1, <1>2, <1>3, <1>4, <1>5, Nothing DEF Handled, Typed, c

LEMMA RecvDEINStep ==
    ASSUME TypeOK, NEW e \in Endpoint, RecvDEIN(e)
    PROVE  \E c, v, out : Handled(e, c, v, out)
  <1>. DEFINE u == uin[e]
              c == In(e)
              x == DeleteContext(u)
              v == Wait(x, 3)
  <1>1. /\ u \in Record /\ drawn' \in 0 .. MaxKey /\ NoDraw /\ fate' \in [Msg -> Fates] /\ Bounded
        /\ net[e] # <<>> /\ c.type = "DEIN" /\ Replies(e, v, <<>>)
    BY Bounds, Reads DEF TypeOK, RecvDEIN, NoDraw
  <1>. HIDE DEF c
  <1>2. x \in Record /\ NoKeys(x) /\ Settings(u, x) /\ x.rsa = "none" /\ x.cntx = "none"
    BY <1>1, DeleteContextIs
  <1>. HIDE DEF x
  <1>3. v \in Record /\ Alike(x, v)
    BY <1>2, WaitIs
  <1>. HIDE DEF v
  <1>4. KeyStep(u, c, v, <<>>) /\ ModeStep(e, c, v, <<>>)
    BY <1>1, <1>2, <1>3, DroppedStep DEF Alike, Settings, NoKeys, Signatures
  <1>. QED  BY <1>1, <1>3, <1>4, Nothing DEF Handled, Typed, c

LEMMA RecvKEYRStep ==
    ASSUME TypeOK, NEW e \in Endpoint, RecvKEYR(e)
    PROVE  \E c, v, out : Handled(e, c, v, out)
  <1>. DEFINE u == uin[e]
              c == In(e)
              t == ToNative(u)
              r == IF t.keyB # NoKey THEN ResetContext(t) ELSE t
              w == InitKeyB(r, c.key)
  <1>1. /\ u \in Record /\ drawn \in 0 .. MaxKey /\ fate' \in [Msg -> Fates] /\ Bounded
        /\ net[e] # <<>> /\ c.type = "KEYR" /\ c.key \in KeyPair
    BY Bounds, Reads DEF TypeOK, RecvKEYR, KeyTypes
  <1>2. \/ /\ Known(e) = "rsa" /\ NoDraw
           /\ LET d == Connect(CreateContext([DeleteContext(w) EXCEPT !.mode = "rsa"], "rsa"))
              IN  Replies(e, d.u, d.out)
        \/ /\ Known(e) = "newpg" /\ Draw
           /\ Replies(e, Wait(InitKeyA(ResetContext(w), TRUE), 1), <<KeyMessage("KEYA", Drawn(TRUE))>>)
        \/ /\ Known(e) = "old" /\ Draw
           /\ Establish(e, InitKeyA(w, FALSE), <<KeyMessage("KEYR", Drawn(FALSE))>>)
        \/ Known(e) = "old" /\ NoDraw /\ Establish(e, w, <<>>)
    BY DEF RecvKEYR
  <1>. HIDE DEF c
  <1>3. /\ t \in Record /\ t.mode = "native" /\ t.stored = u.stored
        /\ Native(u) => t = u
    BY <1>1, ToNativeIs DEF Native
  <1>. HIDE DEF t
  <1>4. /\ r \in Record /\ r.mode = "native" /\ r.stored = u.stored
        /\ Native(u) => Native(r)
    BY <1>3, ResetContextIs DEF Settings, Native
  <1>. HIDE DEF r
  <1>5. /\ w \in Record /\ w.mode = "native" /\ w.stored = u.stored
        /\ Native(u) => Native(w)
    BY <1>1, <1>4, InitKeyBIs DEF Settings, Native
  <1>. HIDE DEF w
  <1>6. c.type \notin Signatures \cup {"DEIN", "none"}
    BY <1>1, Nothing DEF KeyTypes
  <1>7. ASSUME Known(e) = "rsa", NoDraw,
               LET d == Connect(CreateContext([DeleteContext(w) EXCEPT !.mode = "rsa"], "rsa"))
               IN  Replies(e, d.u, d.out)
        PROVE  \E v, out : Handled(e, c, v, out)
    <2>. DEFINE x == DeleteContext(w)
                y == [x EXCEPT !.mode = "rsa"]
                z == CreateContext(y, "rsa")
                v == Connect(z).u
                out == Connect(z).out
    <2>1. x \in Record /\ NoKeys(x) /\ Settings(w, x) /\ x.rsa = "none" /\ x.cntx = "none"
      BY <1>5, DeleteContextIs
    <2>2. Replies(e, v, out) /\ drawn' = drawn
      BY <1>7 DEF NoDraw
    <2>. HIDE DEF x
    <2>3. /\ y \in Record /\ NoKeys(y) /\ y.mode = "rsa" /\ y.stored = u.stored /\ y.rsa = "none"
          /\ y.cntx = "none"
      BY <1>5, <2>1 DEF Record, NoKeys, Settings
    <2>. HIDE DEF y
    <2>4. /\ z \in Record /\ NoKeys(z) /\ z.mode = "rsa" /\ z.stored = u.stored /\ z.rsa = "none"
          /\ z.cntx = "rsa"
      BY <2>3, CreateContextIs DEF NoKeys, Settings
    <2>. HIDE DEF z
    <2>5. /\ v \in Record /\ NoKeys(v) /\ v.mode = "rsa" /\ v.stored = u.stored /\ v.rsa = "connect"
          /\ v.cntx = "rsa" /\ out = <<Signature("connect")>>
      BY <2>4, ConnectIs DEF NoKeys, Settings
    <2>. HIDE DEF v, out
    <2>6. /\ out \in Seq(Message) /\ Moves(out) /\ Signed(out) /\ Pending(out) # {}
          /\ \A m \in Pending(out) : m.type # "KEYB"
      BY <2>5, OneSignature DEF Signatures
    <2>7. KeyStep(u, c, v, out)
      BY <1>1, <2>5, <2>6, KeysAbsent DEF NoKeys, Alive
    <2>8. ModeStep(e, c, v, out)
      BY <1>1, <1>6, <1>7, <2>2, <2>5, <2>6 DEF ModeStep, Moving, ContextFits, NoKeys
    <2>. QED  BY <1>1, <2>2, <2>5, <2>6, <2>7, <2>8 DEF Handled, Typed, c
  <1>8. ASSUME Known(e) = "newpg", Draw,
               Replies(e, Wait(InitKeyA(ResetContext(w), TRUE), 1), <<KeyMessage("KEYA", Drawn(TRUE))>>)
        PROVE  \E v, out : Handled(e, c, v, out)
    <2>. DEFINE x == ResetContext(w)
                y == InitKeyA(x, TRUE)
                v == Wait(y, 1)
                out == <<KeyMessage("KEYA", Drawn(TRUE))>>
    <2>1. /\ drawn < MaxKey /\ drawn' \in 0 .. MaxKey /\ Drawn(TRUE) \in KeyPair
          /\ Drawn(TRUE).new = TRUE
      BY <1>1, <1>8, DrawIs
    <2>2. x \in Record /\ NoKeys(x) /\ Settings(w, x) /\ x.rsa = "none" /\ x.cntx = w.cntx
      BY <1>5, ResetContextIs
    <2>3. Replies(e, v, out)
      BY <1>8
    <2>. HIDE DEF x
    <2>4. /\ y \in Record /\ Settings(x, y) /\ y.cntx = IF x.cntx = "none" THEN "sim" ELSE x.cntx
          /\ y.rsa = x.rsa /\ y.keyA = Drawn(TRUE) /\ y.keyB = x.keyB /\ y.keyX = x.keyX
      BY <1>1, <2>1, <2>2, InitKeyAIs
    <2>. HIDE DEF y
    <2>5. v \in Record /\ Alike(y, v)
      BY <2>4, WaitIs
    <2>6. out \in Seq(Message) /\ ~Signed(out) /\ Pending(out) = {KeyMessage("KEYA", Drawn(TRUE))}
      BY <2>1, OneKey DEF KeyTypes
    <2>. HIDE DEF v, out
    <2>7. KeyStep(u, c, v, out)
      BY ZenonT(60), <1>1, <1>5, <2>1, <2>2, <2>4, <2>5, <2>6, KeysDrawn DEF Settings, NoKeys, Alike
    <2>8. ModeStep(e, c, v, out)
      BY <1>1, <1>5, <1>6, <1>8, <2>2, <2>4, <2>5, <2>6 DEF ModeStep, Native, Settings, Alike
    <2>. QED  BY <1>1, <2>1, <2>3, <2>5, <2>6, <2>7, <2>8 DEF Handled, Typed, c
  <1>9. ASSUME Known(e) = "old", drawn' \in 0 .. MaxKey, NEW y \in Record, NEW out \in Seq(Message),
               ~Signed(out), Native(u) => Native(y), Establish(e, y, out)
        PROVE  \E v, o : Handled(e, c, v, o)
    <2>1. PICK x \in Calculate(y) : Replies(e, Wait(x, 2), out)
      BY <1>9 DEF Establish
    <2>2. x \in Record /\ (Native(y) => Native(x))
      BY <1>9, CalculateIs DEF Native
    <2>. DEFINE v == Wait(x, 2)
    <2>3. v \in Record /\ Alike(x, v)
      BY <2>2, WaitIs
    <2>4. Replies(e, v, out)
      BY <2>1
    <2>. HIDE DEF v
    <2>5. ~NoOld
      BY <1>9, Peers DEF NoOld, Known
    <2>6. ModeStep(e, c, v, out)
      BY <1>1, <1>6, <1>9, <2>2, <2>3 DEF ModeStep, Native, Alike
    <2>. QED  BY <1>1, <1>9, <2>3, <2>4, <2>5, <2>6 DEF Handled, Typed, c
  <1>10. ASSUME Known(e) = "old", Draw,
                Establish(e, InitKeyA(w, FALSE), <<KeyMessage("KEYR", Drawn(FALSE))>>)
         PROVE  \E v, out : Handled(e, c, v, out)
    <2>. DEFINE y == InitKeyA(w, FALSE)
                out == <<KeyMessage("KEYR", Drawn(FALSE))>>
    <2>1. /\ drawn < MaxKey /\ drawn' \in 0 .. MaxKey /\ Drawn(FALSE) \in KeyPair
          /\ Drawn(FALSE).new = FALSE
      BY <1>1, <1>10, DrawIs
    <2>2. y \in Record /\ (Native(w) => Native(y))
      BY <1>1, <1>5, <2>1, InitKeyAIs DEF Settings, Native
    <2>3. out \in Seq(Message) /\ ~Signed(out)
      BY <2>1, OneKey DEF KeyTypes
    <2>4. Establish(e, y, out)
      BY <1>10
    <2>. HIDE DEF y, out
    <2>. QED  BY <1>5, <1>9, <1>10, <2>1, <2>2, <2>3, <2>4
  <1>11. ASSUME Known(e) = "old", NoDraw, Establish(e, w, <<>>)
         PROVE  \E v, out : Handled(e, c, v, out)
    <2>1. drawn' \in 0 .. MaxKey
      BY <1>1, <1>11 DEF NoDraw
    <2>. QED  BY <1>5, <1>9, <1>11, <2>1, Nothing
  <1>. QED  BY <1>2, <1>7, <1>8, <1>10, <1>11

LEMMA RecvKEYAStep ==
    ASSUME TypeOK, NEW e \in Endpoint, RecvKEYA(e)
    PROVE  \E c, v, out : Handled(e, c, v, out)
  <1>. DEFINE u == uin[e]
              c == In(e)
              t == ToNative(u)
              r == ResetContext(t)
              w == InitKeyB(r, c.key)
              y == InitKeyA(w, TRUE)
              k == Drawn(TRUE)
              out == <<KeyMessage("KEYB", k)>>
  <1>1. /\ u \in Record /\ drawn \in 0 .. MaxKey /\ fate' \in [Msg -> Fates] /\ Bounded
        /\ net[e] # <<>> /\ c.type = "KEYA" /\ c.key \in KeyPair /\ c.key.new = TRUE
    <2>1. Got(e, "KEYA") /\ c.key.new \in BOOLEAN
      BY Reads DEF RecvKEYA, KeyTypes, KeyPair
    <2>. QED  BY <2>1, Bounds, Reads DEF TypeOK, RecvKEYA, KeyTypes
  <1>2. PICK x \in Calculate(y) : Replies(e, Wait(x, 2), out)
    BY DEF RecvKEYA, Establish
  <1>3. /\ drawn < MaxKey /\ drawn' \in 0 .. MaxKey /\ k \in KeyPair /\ k.new = TRUE /\ k # NoKey
    BY <1>1, DrawIs, KeyPairs DEF RecvKEYA
  <1>. HIDE DEF c
  <1>4. t \in Record /\ t.mode = "native" /\ (Native(u) => t = u)
    BY <1>1, ToNativeIs DEF Native
  <1>. HIDE DEF t
  <1>5. r \in Record /\ NoKeys(r) /\ Settings(t, r) /\ r.rsa = "none" /\ r.cntx = t.cntx
    BY <1>4, ResetContextIs
  <1>. HIDE DEF r
  <1>6. /\ w \in Record /\ Settings(r, w) /\ w.cntx = IF r.cntx = "none" THEN "sim" ELSE r.cntx
        /\ w.rsa = r.rsa /\ w.keyA = r.keyA /\ w.keyB = c.key /\ w.keyX = r.keyX
    BY <1>1, <1>5, InitKeyBIs
  <1>. HIDE DEF w
  <1>7. /\ y \in Record /\ Settings(w, y) /\ y.cntx = IF w.cntx = "none" THEN "sim" ELSE w.cntx
        /\ y.rsa = w.rsa /\ y.keyA = k /\ y.keyB = w.keyB /\ y.keyX = w.keyX
    BY <1>1, <1>3, <1>6, InitKeyAIs
  <1>. HIDE DEF y
  <1>8. y.keyB # NoKey /\ y.keyX = {} /\ y.keyA.new = y.keyB.new
    BY <1>1, <1>3, <1>5, <1>6, <1>7, KeyPairs DEF NoKeys
  <1>9. /\ x \in Record /\ x.mode = "native" /\ x.cntx = y.cntx /\ x.rsa = "none"
        /\ x.keyA = NoKey /\ x.keyB = NoKey /\ x.keyX = {k.id, c.key.id}
    <2>1. /\ x \in Record /\ x # y
          /\ x = y \/ (/\ x.mode = y.mode /\ x.cntx = y.cntx /\ x.rsa = "none" /\ x.keyA = NoKey
                      /\ x.keyB = NoKey /\ x.keyX = {y.keyA.id, y.keyB.id})
      BY <1>2, <1>3, <1>7, <1>8, CalculateIs
    <2>. QED  BY <1>4, <1>5, <1>6, <1>7, <2>1 DEF Settings
  <1>. DEFINE v == Wait(x, 2)
  <1>10. v \in Record /\ Alike(x, v)
    BY <1>9, WaitIs
  <1>11. Replies(e, v, out)
    BY <1>2
  <1>. HIDE DEF v
  <1>12. KeyMessage("KEYB", k).type = "KEYB" /\ KeyMessage("KEYB", k).key = k
    BY DEF KeyMessage
  <1>13. out \in Seq(Message) /\ ~Signed(out) /\ Pending(out) = {KeyMessage("KEYB", k)}
    <2>. HIDE DEF k
    <2>. QED  BY <1>3, OneKey DEF KeyTypes
  <1>. HIDE DEF k, out
  <1>14. KeyStep(u, c, v, out)
    <2>1. v.keyA = NoKey /\ v.mode = "native" /\ v.keyX = {k.id, c.key.id} /\ ~v.keyA.new
      BY <1>9, <1>10, KeyPairs DEF Alike
    <2>. QED  BY <1>1, <1>12, <1>13, <2>1 DEF KeyStep, RecordOK
  <1>15. ModeStep(e, c, v, out)
    <2>1. Native(u) => Native(v)
      BY <1>4, <1>5, <1>6, <1>7, <1>9, <1>10 DEF Native, Alike, Settings
    <2>. QED  BY <1>1, <1>13, <2>1 DEF ModeStep, Signatures
  <1>. QED  BY <1>1, <1>3, <1>10, <1>11, <1>13, <1>14, <1>15 DEF Handled, Typed, c

LEMMA RecvKEYBStep ==
    ASSUME TypeOK, NEW e \in Endpoint, RecvKEYB(e)
    PROVE  \E c, v, out : Handled(e, c, v, out)
  <1>. DEFINE u == uin[e]
              c == In(e)
              t == ToNative(u)
              y == InitKeyB(t, c.key)
  <1>1. /\ u \in Record /\ drawn' \in 0 .. MaxKey /\ fate' \in [Msg -> Fates] /\ Bounded
        /\ net[e] # <<>> /\ c.type = "KEYB" /\ c.key \in KeyPair /\ c.key.new = TRUE
    <2>1. Got(e, "KEYB") /\ c.key.new \in BOOLEAN
      BY Reads DEF RecvKEYB, KeyTypes, KeyPair
    <2>. QED  BY <2>1, Bounds, Reads DEF TypeOK, RecvKEYB, KeyTypes
  <1>2. \/ t.keyA = NoKey /\ Replies(e, Wait(ResetContext(t), 3), <<>>)
        \/ t.keyA # NoKey /\ Establish(e, y, <<>>)
    BY DEF RecvKEYB
  <1>. HIDE DEF c
  <1>3. /\ t \in Record /\ t.mode = "native" /\ (Native(u) => t = u)
        /\ t = u \/ NoKeys(t)
    BY <1>1, ToNativeIs DEF Native
  <1>. HIDE DEF t
  <1>4. CASE t.keyA = NoKey /\ Replies(e, Wait(ResetContext(t), 3), <<>>)
    <2>. DEFINE x == ResetContext(t)
                v == Wait(x, 3)
    <2>1. x \in Record /\ NoKeys(x) /\ Settings(t, x) /\ x.rsa = "none" /\ x.cntx = t.cntx
      BY <1>3, ResetContextIs
    <2>2. Replies(e, v, <<>>)
      BY <1>4
    <2>. HIDE DEF x
    <2>3. v \in Record /\ Alike(x, v)
      BY <2>1, WaitIs
    <2>. HIDE DEF v
    <2>4. KeyStep(u, c, v, <<>>)
      BY <1>1, <2>1, <2>3, KeysAbsent, Nothing DEF NoKeys, Alike, Alive
    <2>5. ModeStep(e, c, v, <<>>)
      BY <1>1, <1>3, <2>1, <2>3, Nothing DEF ModeStep, Native, NoKeys, Alike, Settings, Signatures
    <2>. QED  BY <1>1, <2>2, <2>3, <2>4, <2>5, Nothing DEF Handled, Typed, c
  <1>5. CASE t.keyA # NoKey /\ Establish(e, y, <<>>)
    <2>1. PICK x \in Calculate(y) : Replies(e, Wait(x, 2), <<>>)
      BY <1>5 DEF Establish
    <2>2. /\ y \in Record /\ Settings(t, y) /\ y.cntx = IF t.cntx = "none" THEN "sim" ELSE t.cntx
          /\ y.rsa = t.rsa /\ y.keyA = t.keyA /\ y.keyB = c.key /\ y.keyX = t.keyX
      BY <1>1, <1>3, InitKeyBIs
    <2>3. t = u
      BY <1>3, <1>5 DEF NoKeys
    <2>. HIDE DEF y
    <2>4. /\ x \in Record
          /\ \/ x = y
             \/ /\ x.mode = y.mode /\ x.offlineKey = y.offlineKey /\ x.cntx = y.cntx
                /\ x.rsa = "none" /\ x.keyA = NoKey /\ x.keyB = NoKey
                /\ x.keyX = {y.keyA.id, y.keyB.id}
          /\ y.keyA # NoKey /\ y.keyB # NoKey /\ y.keyX = {} /\ y.keyA.new = y.keyB.new => x # y
      BY <2>1, <2>2, CalculateIs
    <2>. DEFINE v == Wait(x, 2)
    <2>5. v \in Record /\ Alike(x, v)
      BY <2>4, WaitIs
    <2>6. Replies(e, v, <<>>)
      BY <2>1
    <2>. HIDE DEF v
    <2>7. ASSUME RecordOK(u) PROVE KeyStep(u, c, v, <<>>)
      <3>1. u.keyA # NoKey /\ u.keyX = {} /\ u.mode = "native"
        BY <1>5, <2>3, <2>7 DEF RecordOK
      <3>2. CASE x = y
        <4>1. ~u.keyA.new
          <5>1. u.keyA \in KeyPair /\ u.keyA.new \in BOOLEAN
            BY <1>1, <3>1 DEF Record, KeyPair
          <5>. QED  BY <1>1, <2>2, <2>3, <2>4, <3>1, <3>2, <5>1, KeyPairs
        <4>. QED  BY <1>1, <2>2, <2>3, <2>5, <3>1, <3>2, <4>1, Nothing
                  DEF KeyStep, RecordOK, Alive, Alike, Settings
      <3>3. CASE x # y
        <4>1. /\ v.keyA = NoKey /\ v.mode = "native" /\ v.keyX = {u.keyA.id, c.key.id}
              /\ ~v.keyA.new
          BY <2>2, <2>3, <2>4, <2>5, <3>1, <3>3, KeyPairs DEF Alike, Settings
        <4>. QED  BY <1>1, <3>1, <4>1, Nothing DEF KeyStep, RecordOK
      <3>. QED  BY <3>2, <3>3
    <2>8. ModeStep(e, c, v, <<>>)
      BY <1>1, <2>2, <2>3, <2>4, <2>5, Nothing DEF ModeStep, Native, Alike, Settings, Signatures
    <2>. QED  BY <1>1, <2>5, <2>6, <2>7, <2>8, Nothing DEF Handled, Typed, c
  <1>. QED  BY <1>2, <1>4, <1>5

LEMMA NextStep ==
    ASSUME TypeOK, Next
    PROVE  \E e \in Endpoint : \E c, v, out : Handled(e, c, v, out)
  <1>1. PICK e \in Endpoint :
          User(e) \/ Status(e) \/ Restart(e) \/ Waiter(e) \/ RsaTimeout(e) \/ Recv(e)
    BY DEF Next
  <1>2. User(e) => \E c, v, out : Handled(e, c, v, out)
    BY TypeStep, BeginStep, EndStep, ModeActionStep DEF User
  <1>3. Waiter(e) => \E c, v, out : Handled(e, c, v, out)
    BY GiveUpStep, ResendStep DEF Waiter
  <1>4. Recv(e) => \E c, v, out : Handled(e, c, v, out)
    BY RecvSECUStep, RecvENONStep, RecvENOFStep, RecvRSNDStep, RecvDEINStep, RecvKEYRStep,
       RecvKEYAStep, RecvKEYBStep DEF Recv
  <1>. QED  BY <1>1, <1>2, <1>3, <1>4, StatusStep, RestartStep, RsaTimeoutStep

-----------------------------------------------------------------------------
(* The types.                                                              *)

LEMMA InitTypes == Init => TypeOK
  <1>. SUFFICES ASSUME Init PROVE TypeOK
    OBVIOUS
  <1>1. PICK mode \in [Endpoint -> Modes] : uin = [e \in Endpoint |-> Fresh(mode[e])]
    BY DEF Init
  <1>2. \A e \in Endpoint : mode[e] \in {"native", "rsa"}
    BY KexOK
  <1>3. ASSUME NEW m \in {"native", "rsa"} PROVE Fresh(m) \in Record
    <2>1. <<>> \in Seq(Msg)
      OBVIOUS
    <2>. QED  BY <2>1 DEF Fresh, Record, Secret
  <1>4. uin \in [Endpoint -> Record]
    BY <1>1, <1>2, <1>3
  <1>5. net \in [Endpoint -> Seq(Message)]
    BY DEF Init
  <1>. QED  BY <1>4, <1>5, KexOK DEF Init, TypeOK, Fates

\* What a step does to the two records and to what is on its way.
LEMMA Effect ==
    ASSUME TypeOK, NEW e \in Endpoint, NEW c, NEW v, NEW out, Handled(e, c, v, out)
    PROVE  LET p == Peer(e) IN
           /\ uin'[e] = v /\ uin'[p] = uin[p] /\ build' = build /\ TypeOK'
           /\ Types(net'[p]) = Types(net[p]) \cup Types(out)
           /\ Pending(net'[p]) = IF Pending(out) = {} THEN Pending(net[p]) ELSE Pending(out)
           /\ Stirred(net'[p]) <=> Stirred(net[p]) \/ Stirred(out)
           /\ Types(net'[e]) \subseteq Types(net[e])
           /\ Types(net[e]) \subseteq Types(net'[e]) \cup {c.type}
           /\ c.type \in Types(net[e]) \cup {"none"}
           /\ Pending(net'[e]) # {} => Pending(net'[e]) = Pending(net[e])
           /\ Ends(c) /\ Pending(net'[e]) = {} => Pending(net[e]) = {c}
           /\ ~Ends(c) => Pending(net'[e]) = Pending(net[e])
  <1>. DEFINE p == Peer(e)
  <1>1. p \in Endpoint /\ p # e /\ (\A x \in Endpoint : x = e \/ x = p)
    BY Peers
  <1>2. /\ v \in Record /\ out \in Seq(Message) /\ Typed
        /\ uin \in [Endpoint -> Record] /\ net \in [Endpoint -> Seq(Message)]
        /\ uin' = [uin EXCEPT ![e] = v] /\ build' = build
    BY DEF Handled, TypeOK, Sends, Replies
  <1>. DEFINE s == net[p]
              r == net[e]
  <1>3. s \in Seq(Message) /\ r \in Seq(Message) /\ s \o out \in Seq(Message)
    BY <1>1, <1>2, ConcatProperties
  <1>4. \/ /\ c = Unread /\ net' = [net EXCEPT ![p] = s \o out]
        \/ /\ r # <<>> /\ c = Head(r) /\ net' = [net EXCEPT ![e] = Tail(r), ![p] = s \o out]
    BY <1>1, <1>2 DEF Handled, Sends, Replies, In
  <1>5. /\ net'[p] = s \o out
        /\ \/ c = Unread /\ net'[e] = r
           \/ r # <<>> /\ c = Head(r) /\ net'[e] = Tail(r)
    BY <1>1, <1>2, <1>4
  <1>6. TypeOK'
    <2>1. r # <<>> => Tail(r) \in Seq(Message)
      BY <1>3, HeadTailProperties
    <2>2. net' \in [Endpoint -> Seq(Message)]
      BY <1>1, <1>2, <1>3, <1>4, <2>1
    <2>3. uin' \in [Endpoint -> Record]
      BY <1>2
    <2>. QED  BY <1>2, <2>2, <2>3 DEF TypeOK, Typed, Bounded
  <1>7. uin'[e] = v /\ uin'[p] = uin[p]
    BY <1>1, <1>2
  <1>. HIDE DEF p, s, r
  <1>8. /\ Types(net'[p]) = Types(s) \cup Types(out)
        /\ Pending(net'[p]) = IF Pending(out) = {} THEN Pending(s) ELSE Pending(out)
        /\ Stirred(net'[p]) <=> Stirred(s) \/ Stirred(out)
    BY <1>2, <1>3, <1>5, Sent
  <1>9. CASE c = Unread /\ net'[e] = r
    BY <1>2, <1>6, <1>7, <1>8, <1>9, Nothing DEF p, s, r
  <1>10. CASE r # <<>> /\ c = Head(r) /\ net'[e] = Tail(r)
    <2>1. /\ Types(r) = Types(Tail(r)) \cup {Head(r).type}
          /\ IF Ends(Head(r))
             THEN /\ Pending(r) # {}
                  /\ Pending(Tail(r)) = {} => Pending(r) = {Head(r)}
             ELSE Pending(Tail(r)) = Pending(r)
          /\ Pending(Tail(r)) # {} => Pending(Tail(r)) = Pending(r)
      BY <1>3, <1>10, Received
    <2>. QED  BY <1>2, <1>6, <1>7, <1>8, <1>10, <2>1 DEF p, s, r
  <1>. QED  BY <1>5, <1>9, <1>10

LEMMA TypesStep == TypeOK /\ [Next]_vars => TypeOK'
  <1>1. TypeOK /\ Next => TypeOK'
    BY NextStep, Effect
  <1>2. TypeOK /\ UNCHANGED vars => TypeOK'
    BY DEF TypeOK, vars
  <1>. QED  BY <1>1, <1>2

\* Every key, secret and message on its way is one that can have been drawn,
\* calculated and sent; only the first key message has the old parameters
\* (RecvKEYR, RecvKEYA), and only ciphers carry a text.
THEOREM TypeCorrect == Spec => []TypeOK
  BY InitTypes, TypesStep, PTL DEF Spec

-----------------------------------------------------------------------------
(* The keys.  A contact that has drawn a key has sent it, and what it sent *)
(* last says which: the answer to it, the third message, belongs to it.    *)

SentLast(e) ==
    uin[e].keyA # NoKey => \A c \in Pending(net[Peer(e)]) :
        c.key = uin[e].keyA /\ c.type = IF uin[e].keyA.new THEN "KEYA" ELSE "KEYR"

\* A first key message is on its way, or something its receiver sent meanwhile.
OldStirs(e) ==
    uin[e].keyA # NoKey /\ ~uin[e].keyA.new => Pending(net[Peer(e)]) # {} \/ Stirred(net[e])

\* The third message completes the key of the one it comes from.
Completes(e) ==
    \A c \in Pending(net[e]) :
        /\ c.type = "KEYB" /\ uin[e].keyA # NoKey
        /\ Alive(uin[Peer(e)]) /\ Pending(net[Peer(e)]) = {}
        => uin[Peer(e)].keyX = {uin[e].keyA.id, c.key.id}

Agree(e) ==
    /\ Alive(uin[e]) /\ Pending(net[e]) = {}
    /\ Alive(uin[Peer(e)]) /\ Pending(net[Peer(e)]) = {}
    => uin[e].keyX = uin[Peer(e)].keyX

KeyInv == NoOld =>
    \A e \in Endpoint : RecordOK(uin[e]) /\ SentLast(e) /\ OldStirs(e) /\ Completes(e) /\ Agree(e)

LEMMA InitKeys == Init => KeyInv
  <1>. SUFFICES ASSUME Init, NEW e \in Endpoint
                PROVE  RecordOK(uin[e]) /\ SentLast(e) /\ OldStirs(e) /\ Completes(e) /\ Agree(e)
    BY DEF KeyInv
  <1>1. uin[e].keyA = NoKey /\ uin[e].keyX = {} /\ net[e] = <<>>
    BY DEF Init, Fresh
  <1>2. net[Peer(e)] = <<>>
    BY Peers DEF Init
  <1>. QED  BY <1>1, <1>2, KeyPairs, Nothing
            DEF RecordOK, Alive, SentLast, OldStirs, Completes, Agree

LEMMA OfPending ==
    ASSUME NEW S, NEW s \in Seq(S)
    PROVE  /\ \A c \in Pending(s) : Ends(c) /\ c.type \in Types(s)
           /\ Pending(s) = {} => ~Stirred(s)
  <1>1. \A c \in Pending(s) : Ends(c) /\ c.type \in Types(s)
    BY DEF Pending, Types
  <1>2. ASSUME Pending(s) = {} PROVE ~Stirred(s)
    <2>1. \A i \in DOMAIN s : ~Ends(s[i])
      BY <1>2, PendingLast
    <2>. QED  BY <2>1 DEF Stirred, Types, Ends, Signatures, KeyTypes
  <1>. QED  BY <1>1, <1>2

LEMMA KeysStep ==
    ASSUME TypeOK, KeyInv, NEW e \in Endpoint, NEW c, NEW v, NEW out, Handled(e, c, v, out)
    PROVE  KeyInv'
  <1>. DEFINE p == Peer(e)
              u == uin[e]
              w == uin[p]
  <1>1. p \in Endpoint /\ p # e /\ Peer(p) = e /\ (\A x \in Endpoint : x = e \/ x = p)
    BY Peers
  <1>2. /\ uin'[e] = v /\ uin'[p] = w /\ build' = build
        /\ Pending(net'[p]) = IF Pending(out) = {} THEN Pending(net[p]) ELSE Pending(out)
        /\ Stirred(net'[p]) <=> Stirred(net[p]) \/ Stirred(out)
        /\ Types(net[e]) \subseteq Types(net'[e]) \cup {c.type}
        /\ Pending(net'[e]) # {} => Pending(net'[e]) = Pending(net[e])
        /\ Ends(c) /\ Pending(net'[e]) = {} => Pending(net[e]) = {c}
        /\ ~Ends(c) => Pending(net'[e]) = Pending(net[e])
    BY Effect
  <1>. SUFFICES ASSUME NoOld
                PROVE  \A x \in Endpoint : /\ RecordOK(uin'[x]) /\ SentLast(x)' /\ OldStirs(x)'
                                           /\ Completes(x)' /\ Agree(x)'
    BY <1>2 DEF KeyInv, NoOld
  <1>3. /\ RecordOK(u) /\ SentLast(e) /\ OldStirs(e) /\ Completes(e) /\ Agree(e)
        /\ RecordOK(w) /\ SentLast(p) /\ OldStirs(p) /\ Completes(p)
    BY <1>1 DEF KeyInv
  <1>4. KeyStep(u, c, v, out)
    BY <1>3 DEF Handled
  <1>5. net[e] \in Seq(Message) /\ net[p] \in Seq(Message) /\ out \in Seq(Message)
    BY <1>1 DEF TypeOK, Handled
  <1>. HIDE DEF p, u, w
  <1>6. RecordOK(v)
    BY <1>4 DEF KeyStep
  <1>7. SentLast(e)'
    <2>1. ASSUME v.keyA # NoKey, NEW m \in Pending(net'[p])
          PROVE  m.key = v.keyA /\ m.type = IF v.keyA.new THEN "KEYA" ELSE "KEYR"
      <3>1. CASE v.keyA = u.keyA /\ Pending(out) = {}
        BY <1>2, <1>3, <2>1, <3>1 DEF SentLast, p, u
      <3>2. CASE Pending(out) = {KeyMessage(IF v.keyA.new THEN "KEYA" ELSE "KEYR", v.keyA)}
        <4>. DEFINE t == IF v.keyA.new THEN "KEYA" ELSE "KEYR"
        <4>1. m = KeyMessage(t, v.keyA)
          BY <1>2, <2>1, <3>2
        <4>2. KeyMessage(t, v.keyA).key = v.keyA /\ KeyMessage(t, v.keyA).type = t
          BY DEF KeyMessage
        <4>. QED  BY <4>1, <4>2
      <3>. QED  BY <1>4, <2>1, <3>1, <3>2 DEF KeyStep
    <2>. QED  BY <1>2, <2>1 DEF SentLast, p
  <1>8. SentLast(p)'
    BY <1>1, <1>2, <1>3 DEF SentLast, w
  <1>9. OldStirs(e)'
    <2>1. ASSUME v.keyA # NoKey, ~v.keyA.new
          PROVE  Pending(net'[p]) # {} \/ Stirred(net'[e])
      <3>1. CASE /\ v.keyA = u.keyA /\ Pending(out) = {}
                 /\ Ends(c) => c.type = "KEYB"
        <4>1. Pending(net[p]) # {} \/ Stirred(net[e])
          BY <1>3, <2>1, <3>1 DEF OldStirs, p, u
        <4>2. c.type \notin Signatures \cup {"KEYR", "KEYA", "DEIN"}
          BY <3>1 DEF Ends, Signatures, KeyTypes
        <4>3. Stirred(net[e]) => Stirred(net'[e])
          BY <1>2, <4>2 DEF Stirred
        <4>. QED  BY <1>2, <3>1, <4>1, <4>3
      <3>2. CASE Pending(out) # {}
        BY <1>2, <3>2
      <3>. QED  BY <1>4, <2>1, <3>1, <3>2 DEF KeyStep
    <2>. QED  BY <1>2, <2>1 DEF OldStirs, p
  <1>10. OldStirs(p)'
    <2>1. ASSUME w.keyA # NoKey, ~w.keyA.new, Pending(net'[e]) = {}
          PROVE  Stirred(net'[p])
      <3>1. CASE Pending(net[e]) = {}
        BY <1>1, <1>2, <1>3, <2>1, <3>1 DEF OldStirs, w
      <3>2. CASE Pending(net[e]) # {}
        <4>1. Pending(net[e]) = {c}
          BY <1>2, <2>1, <3>2
        <4>2. c.type = "KEYR"
          BY <1>1, <1>3, <2>1, <4>1 DEF SentLast, w
        <4>3. PICK m \in Pending(out) : m.type # "KEYB"
          BY <1>4, <4>2 DEF KeyStep
        <4>4. Ends(m) /\ m.type \in Types(out)
          BY <1>5, OfPending
        <4>5. Stirred(out)
          BY <4>3, <4>4 DEF Stirred, Ends, KeyTypes
        <4>. QED  BY <1>2, <4>5
      <3>. QED  BY <3>1, <3>2
    <2>. QED  BY <1>1, <1>2, <2>1 DEF OldStirs
  <1>11. Completes(e)'
    <2>1. ASSUME NEW m \in Pending(net'[e]), m.type = "KEYB", v.keyA # NoKey, Alive(w),
                 Pending(net'[p]) = {}
          PROVE  w.keyX = {v.keyA.id, m.key.id}
      <3>1. Pending(out) = {} /\ Pending(net[p]) = {} /\ m \in Pending(net[e])
        BY <1>2, <2>1
      <3>2. v.keyA = u.keyA
        BY <1>4, <2>1, <3>1 DEF KeyStep
      <3>. QED  BY <1>3, <2>1, <3>1, <3>2 DEF Completes, u, w, p
    <2>. QED  BY <1>2, <2>1 DEF Completes, p
  <1>12. Completes(p)'
    <2>1. ASSUME NEW m \in Pending(net'[p]), m.type = "KEYB", w.keyA # NoKey, Alive(v),
                 Pending(net'[e]) = {}
          PROVE  v.keyX = {w.keyA.id, m.key.id}
      <3>1. \A x \in Pending(net[e]) : x.key = w.keyA /\ x.type \in {"KEYA", "KEYR"}
        BY <1>1, <1>3, <2>1 DEF SentLast, w
      <3>2. CASE Pending(out) # {}
        <4>1. m \in Pending(out)
          BY <1>2, <2>1, <3>2
        <4>2. c.type = "KEYA" /\ v.keyX = {c.key.id, m.key.id}
          BY <1>4, <2>1, <4>1 DEF KeyStep
        <4>3. Pending(net[e]) = {c}
          BY <1>2, <2>1, <4>2 DEF Ends, KeyTypes
        <4>. QED  BY <3>1, <4>2, <4>3
      <3>3. CASE Pending(out) = {}
        <4>1. m \in Pending(net[p])
          BY <1>2, <2>1, <3>3
        <4>2. CASE Alive(u) /\ v.keyX = u.keyX /\ ~Ends(c)
          BY <1>1, <1>2, <1>3, <2>1, <4>1, <4>2 DEF Completes, u, w
        <4>3. CASE c.type = "KEYB"
          <5>1. Pending(net[e]) = {c}
            BY <1>2, <2>1, <4>3 DEF Ends, KeyTypes
          <5>. QED  BY <3>1, <4>3, <5>1
        <4>4. CASE c = Unread /\ u.keyA # NoKey /\ ~u.keyA.new
          BY <1>3, <2>1, <4>1, <4>4 DEF SentLast, u, p
        <4>. QED  BY <1>4, <2>1, <3>3, <4>2, <4>3, <4>4 DEF KeyStep
      <3>. QED  BY <3>2, <3>3
    <2>. QED  BY <1>1, <1>2, <2>1 DEF Completes
  <1>13. ASSUME Alive(v), Pending(net'[e]) = {}, Alive(w), Pending(net'[p]) = {}
         PROVE  v.keyX = w.keyX
    <2>1. Pending(out) = {} /\ Pending(net[p]) = {}
      BY <1>2, <1>13
    <2>2. CASE Alive(u) /\ v.keyX = u.keyX /\ ~Ends(c)
      BY <1>2, <1>3, <1>13, <2>1, <2>2 DEF Agree, u, w, p
    <2>3. CASE c.type = "KEYB" /\ u.keyA # NoKey /\ v.keyX = {u.keyA.id, c.key.id}
      <3>1. Pending(net[e]) = {c}
        BY <1>2, <1>13, <2>3 DEF Ends, KeyTypes
      <3>. QED  BY <1>3, <1>13, <2>1, <2>3, <3>1 DEF Completes, u, w, p
    <2>4. CASE c = Unread /\ u.keyA # NoKey /\ ~u.keyA.new
      <3>1. Pending(net[e]) = {}
        BY <1>2, <1>13, <2>4, Nothing
      <3>2. ~Stirred(net[e])
        BY <1>5, <3>1, OfPending
      <3>. QED  BY <1>3, <2>1, <2>4, <3>2 DEF OldStirs, u, p
    <2>. QED  BY <1>4, <1>13, <2>1, <2>2, <2>3, <2>4 DEF KeyStep
  <1>14. Agree(e)' /\ Agree(p)'
    BY <1>1, <1>2, <1>13 DEF Agree, p
  <1>15. RecordOK(uin'[e]) /\ RecordOK(uin'[p])
    BY <1>2, <1>3, <1>6
  <1>. QED  BY <1>1, <1>7, <1>8, <1>9, <1>10, <1>11, <1>12, <1>14, <1>15

LEMMA KeyInvStep == TypeOK /\ KeyInv /\ [Next]_vars => KeyInv'
  <1>1. TypeOK /\ KeyInv /\ Next => KeyInv'
    BY NextStep, KeysStep
  <1>2. KeyInv /\ UNCHANGED vars => KeyInv'
    BY DEF KeyInv, NoOld, SentLast, OldStirs, Completes, Agree, vars
  <1>. QED  BY <1>1, <1>2

LEMMA KeysOfInv == KeyInv => KeysAgree
  <1>. SUFFICES ASSUME KeyInv, Quiet, NoOld, \A e \in Endpoint : InSession(e)
                PROVE  uin[Alice].keyX = uin[Bob].keyX
    BY DEF KeysAgree, NoOld
  <1>1. Alice \in Endpoint /\ Peer(Alice) = Bob /\ Bob \in Endpoint
    BY DEF Endpoint, Peer
  <1>2. Agree(Alice)
    BY <1>1 DEF KeyInv
  <1>3. Pending(net[Alice]) = {} /\ Pending(net[Bob]) = {}
    BY <1>1, Nothing DEF Quiet
  <1>. QED  BY <1>1, <1>2, <1>3 DEF Agree, InSession, Alive

\* Once nothing is on its way, two contacts in a session have one key: for any
\* number of messages and key pairs, whatever crossed, was reset, came back or
\* was restarted, in any mode, of all versions that run the three messages.
THEOREM KeysAlwaysAgree == Spec => []KeysAgree
  <1>1. Spec => [](TypeOK /\ KeyInv)
    BY InitTypes, InitKeys, TypesStep, KeyInvStep, PTL DEF Spec
  <1>. QED  BY <1>1, KeysOfInv, PTL

-----------------------------------------------------------------------------
(* The modes.                                                              *)

OneMode == \A m, n \in Modes : m = n

\* Both contacts are release builds; or they start in one mode, and are of one
\* version or run the exchange of an older one.
Settled ==
    \A b \in Versions :
        \/ \A e \in Endpoint : b[e] = "rsa"
        \/ OneMode /\ (b[Alice] = b[Bob] \/ "old" \in {b[Alice], b[Bob]})

\* Both know RSA/AES: the mode of a contact changes once, to RSA/AES.  Where
\* the modes differ after a key was sent, what changes the other is on its way.
Converging ==
    \A e \in Endpoint :
        /\ Known(e) = "rsa" /\ Moving(uin[e]) /\ Moves(net[e])
        /\ Signed(net[e]) => uin[Peer(e)].mode = "rsa"
        /\ uin[e].mode = "rsa" /\ uin[Peer(e)].mode = "native" /\ drawn # 0
              => Signed(net[Peer(e)]) \/ "KEYR" \in Types(net[e])

\* Otherwise it never changes.
NativeOnly == \A e \in Endpoint : Known(e) # "rsa" /\ Native(uin[e]) /\ ~Signed(net[e])
RSAOnly == drawn = 0 /\ \A e \in Endpoint : RSA(uin[e]) /\ Types(net[e]) \subseteq Signatures

ModeInv == "mode" \notin disturbed => Converging \/ NativeOnly \/ RSAOnly

LEMMA InitModes == Settled /\ Init => ModeInv
  <1>. SUFFICES ASSUME Settled, Init PROVE Converging \/ NativeOnly \/ RSAOnly
    BY DEF ModeInv
  <1>1. PICK mode \in [Endpoint -> Modes] : uin = [e \in Endpoint |-> Fresh(mode[e])]
    BY DEF Init
  <1>2. /\ build \in Versions /\ drawn = 0 /\ build \in [Endpoint -> {"old", "newpg", "rsa"}]
        /\ Alice \in Endpoint /\ Bob \in Endpoint /\ \A e \in Endpoint : e = Alice \/ e = Bob
    BY KexOK DEF Init, Endpoint
  <1>3. \A e \in Endpoint : net[e] = <<>> /\ Peer(e) \in Endpoint
    BY Peers DEF Init
  <1>4. \A e \in Endpoint : /\ uin[e].mode = mode[e] /\ mode[e] \in Modes
                            /\ mode[e] \in {"native", "rsa"}
                            /\ uin[e].cntx = "none" /\ uin[e].rsa = "none"
                            /\ uin[e].keyB = NoKey /\ uin[e].keyX = {} /\ uin[e].stored = {}
    BY <1>1, KexOK DEF Fresh
  <1>5. CASE \A e \in Endpoint : build[e] = "rsa"
    <2>1. \A e \in Endpoint : Known(e) = "rsa"
      BY <1>3, <1>5 DEF Known
    <2>. QED  BY <1>2, <1>3, <1>4, <2>1, Nothing DEF Converging, Moving, ContextFits
  <1>6. CASE ~(\A e \in Endpoint : build[e] = "rsa")
    <2>1. OneMode /\ (build[Alice] = build[Bob] \/ "old" \in {build[Alice], build[Bob]})
      BY <1>2, <1>6 DEF Settled
    <2>2. mode[Alice] = mode[Bob]
      BY <1>2, <1>4, <2>1 DEF OneMode
    <2>3. CASE mode[Alice] = "native"
      <3>1. ASSUME NEW e \in Endpoint PROVE Known(e) # "rsa"
        <4>1. Peer(Alice) = Bob /\ Peer(Bob) = Alice
          BY KexOK DEF Peer
        <4>. QED  BY <1>2, <1>6, <2>1, <4>1 DEF Known
      <3>. QED  BY ZenonT(60), <1>2, <1>3, <1>4, <2>2, <2>3, <3>1, Nothing DEF NativeOnly, Native
    <2>4. CASE mode[Alice] = "rsa"
      BY ZenonT(60), <1>2, <1>3, <1>4, <2>2, <2>4, Nothing DEF RSAOnly, RSA
    <2>. QED  BY <1>2, <1>4, <2>3, <2>4
  <1>. QED  BY <1>5, <1>6

LEMMA ModesStep ==
    ASSUME TypeOK, ModeInv, NEW e \in Endpoint, NEW c, NEW v, NEW out, Handled(e, c, v, out)
    PROVE  ModeInv'
  <1>. SUFFICES ASSUME "mode" \notin disturbed' PROVE (Converging \/ NativeOnly \/ RSAOnly)'
    BY DEF ModeInv
  <1>. DEFINE p == Peer(e)
              u == uin[e]
              w == uin[p]
  <1>1. p \in Endpoint /\ p # e /\ Peer(p) = e /\ (\A x \in Endpoint : x = e \/ x = p)
    BY Peers
  <1>2. /\ uin'[e] = v /\ uin'[p] = w /\ build' = build
        /\ Types(net'[p]) = Types(net[p]) \cup Types(out)
        /\ Types(net'[e]) \subseteq Types(net[e])
        /\ Types(net[e]) \subseteq Types(net'[e]) \cup {c.type}
        /\ c.type \in Types(net[e]) \cup {"none"}
    BY Effect
  <1>3. (Converging \/ NativeOnly \/ RSAOnly) /\ ModeStep(e, c, v, out)
    BY DEF ModeInv, Handled, Typed, Bounded
  <1>4. \A x \in Endpoint : Known(x)' = Known(x)
    BY <1>2 DEF Known
  <1>5. /\ u \in Record /\ v \in Record /\ w \in Record /\ drawn \in Nat /\ drawn' \in Nat
    BY <1>1, KexOK DEF TypeOK, Handled, Typed
  <1>. HIDE DEF p, u, w
  <1>6. CASE NativeOnly
    <2>1. Known(e) # "rsa" /\ Native(u) /\ ~Signed(net[e]) /\ ~Signed(net[p]) /\ Native(w)
      BY <1>1, <1>6 DEF NativeOnly, u, w
    <2>2. c.type \notin Signatures
      BY <1>2, <2>1, Nothing DEF Signed
    <2>3. Native(v) /\ ~Signed(out)
      BY <1>3, <2>1, <2>2 DEF ModeStep, u
    <2>4. ~Signed(net'[e]) /\ ~Signed(net'[p])
      BY <1>2, <2>1, <2>3 DEF Signed
    <2>5. NativeOnly'
      BY <1>1, <1>2, <1>4, <1>6, <2>1, <2>3, <2>4 DEF NativeOnly
    <2>. QED  BY <2>5
  <1>7. CASE RSAOnly
    <2>1. /\ RSA(u) /\ Types(net[e]) \subseteq Signatures /\ drawn = 0
          /\ RSA(w) /\ Types(net[p]) \subseteq Signatures
      BY <1>1, <1>7 DEF RSAOnly, u, w
    <2>2. RSA(v) /\ Types(out) \subseteq Signatures /\ drawn' = drawn
      BY <1>2, <1>3, <2>1 DEF ModeStep, u
    <2>3. RSAOnly'
      BY <1>1, <1>2, <2>1, <2>2 DEF RSAOnly
    <2>. QED  BY <2>3
  <1>8. CASE Converging
    <2>1. /\ Known(e) = "rsa" /\ Moving(u) /\ Moves(net[e]) /\ Moving(w) /\ Moves(net[p])
          /\ Signed(net[e]) => w.mode = "rsa"
          /\ Signed(net[p]) => u.mode = "rsa"
          /\ u.mode = "rsa" /\ w.mode = "native" /\ drawn # 0
                => Signed(net[p]) \/ "KEYR" \in Types(net[e])
          /\ w.mode = "rsa" /\ u.mode = "native" /\ drawn # 0
                => Signed(net[e]) \/ "KEYR" \in Types(net[p])
      BY <1>1, <1>8 DEF Converging, u, w, p
    <2>2. c.type \in Signatures \cup {"KEYR", "DEIN", "none"}
      BY <1>2, <2>1 DEF Moves
    <2>3. /\ Moving(v) /\ Moves(out)
          /\ u.mode = "rsa" \/ c.type \in Signatures \cup {"KEYR"} <=> v.mode = "rsa"
          /\ c.type = "KEYR" => Signed(out)
          /\ Signed(out) => v.mode = "rsa"
          /\ drawn' # drawn => v.mode = "native" /\ "KEYR" \in Types(out)
      BY <1>3, <2>1, <2>2 DEF ModeStep, u
    <2>4. /\ Signed(net'[e]) => Signed(net[e])
          /\ Signed(net[e]) => Signed(net'[e]) \/ c.type \in Signatures
          /\ Signed(net'[p]) <=> Signed(net[p]) \/ Signed(out)
          /\ c.type \in Signatures => Signed(net[e])
      <3>1. "none" \notin Signatures
        BY Nothing
      <3>. QED  BY <1>2, <3>1 DEF Signed
    <2>5. Moves(net'[e]) /\ Moves(net'[p])
      BY <1>2, <2>1, <2>3 DEF Moves
    <2>6. u.mode \in {"native", "rsa"} /\ v.mode \in {"native", "rsa"}
      BY <1>5 DEF Record
    <2>7. Signed(net'[e]) => w.mode = "rsa"
      BY <2>1, <2>4
    <2>8. Signed(net'[p]) => v.mode = "rsa"
      BY <2>1, <2>3, <2>4
    <2>9. v.mode = "rsa" /\ w.mode = "native" /\ drawn' # 0
             => Signed(net'[p]) \/ "KEYR" \in Types(net'[e])
      <3>. SUFFICES ASSUME v.mode = "rsa", w.mode = "native", drawn' # 0
                    PROVE  Signed(net'[p]) \/ "KEYR" \in Types(net'[e])
        OBVIOUS
      <3>1. drawn' = drawn
        BY <2>3
      <3>2. c.type \notin Signatures
        BY <2>1, <2>4
      <3>3. CASE c.type = "KEYR"
        BY <2>3, <2>4, <3>3
      <3>4. CASE c.type # "KEYR"
        <4>1. u.mode = "rsa"
          BY <2>3, <3>2, <3>4
        <4>2. Signed(net[p]) \/ "KEYR" \in Types(net[e])
          BY <2>1, <3>1, <4>1
        <4>. QED  BY <1>2, <2>4, <3>4, <4>2
      <3>. QED  BY <3>3, <3>4
    <2>10. w.mode = "rsa" /\ v.mode = "native" /\ drawn' # 0
              => Signed(net'[e]) \/ "KEYR" \in Types(net'[p])
      <3>. SUFFICES ASSUME w.mode = "rsa", v.mode = "native", drawn' # 0
                    PROVE  Signed(net'[e]) \/ "KEYR" \in Types(net'[p])
        OBVIOUS
      <3>1. CASE drawn' # drawn
        BY <1>2, <2>3, <3>1
      <3>2. CASE drawn' = drawn
        <4>1. u.mode = "native" /\ c.type \notin Signatures
          BY <2>3, <2>6
        <4>. QED  BY <1>2, <2>1, <2>4, <3>2, <4>1
      <3>. QED  BY <3>1, <3>2
    <2>11. Known(p) = "rsa"
      BY <1>1, <1>8 DEF Converging
    <2>. DEFINE At(x) == /\ Known(x)' = "rsa" /\ Moving(uin'[x]) /\ Moves(net'[x])
                         /\ Signed(net'[x]) => uin'[Peer(x)].mode = "rsa"
                         /\ uin'[x].mode = "rsa" /\ uin'[Peer(x)].mode = "native" /\ drawn' # 0
                               => Signed(net'[Peer(x)]) \/ "KEYR" \in Types(net'[x])
    <2>12. At(e)
      BY <1>1, <1>2, <1>4, <2>1, <2>3, <2>5, <2>7, <2>9 DEF p
    <2>13. At(p)
      BY <1>1, <1>2, <1>4, <2>1, <2>5, <2>8, <2>10, <2>11
    <2>14. \A x \in Endpoint : At(x)
      BY <1>1, <2>12, <2>13
    <2>15. Converging'
      BY <2>14 DEF Converging
    <2>. QED  BY <2>15
  <1>. QED  BY <1>3, <1>6, <1>7, <1>8

LEMMA ModeInvStep == TypeOK /\ ModeInv /\ [Next]_vars => ModeInv'
  <1>1. TypeOK /\ ModeInv /\ Next => ModeInv'
    BY NextStep, ModesStep
  <1>2. ModeInv /\ UNCHANGED vars => ModeInv'
    BY DEF ModeInv, Converging, NativeOnly, RSAOnly, Known, vars
  <1>. QED  BY <1>1, <1>2

LEMMA ModesOfInv == TypeOK /\ ModeInv => ContextFitsMode /\ ModesAgree
  <1>. SUFFICES ASSUME TypeOK, ModeInv, "mode" \notin disturbed
                PROVE  /\ \A e \in Endpoint : ContextFits(uin[e])
                       /\ Quiet /\ drawn > 0 => uin[Alice].mode = uin[Bob].mode
    BY DEF ContextFitsMode, ModesAgree
  <1>1. /\ Alice \in Endpoint /\ Bob \in Endpoint /\ Peer(Alice) = Bob /\ Peer(Bob) = Alice
    BY KexOK DEF Endpoint, Peer
  <1>2. \A e \in Endpoint : ContextFits(uin[e])
    BY DEF ModeInv, Converging, NativeOnly, RSAOnly, Moving, Native, RSA, ContextFits
  <1>3. ASSUME Quiet, drawn > 0 PROVE uin[Alice].mode = uin[Bob].mode
    <2>1. \A e \in Endpoint : uin[e].mode \in {"native", "rsa"}
      BY DEF TypeOK, Record
    <2>2. \A e \in Endpoint : Types(net[e]) = {} /\ ~Signed(net[e])
      BY <1>3, Nothing DEF Quiet
    <2>3. drawn # 0
      BY <1>3 DEF TypeOK
    <2>4. CASE Converging
      BY <1>1, <2>1, <2>2, <2>3, <2>4 DEF Converging
    <2>5. CASE NativeOnly
      BY <1>1, <2>5 DEF NativeOnly, Native
    <2>6. CASE RSAOnly
      BY <2>3, <2>6 DEF RSAOnly
    <2>. QED  BY <2>4, <2>5, <2>6 DEF ModeInv
  <1>. QED  BY <1>2, <1>3

LEMMA ModesInvariant == ASSUME Settled PROVE Spec => [](TypeOK /\ ModeInv)
  <1>1. Init => TypeOK /\ ModeInv
    BY InitTypes, InitModes
  <1>. QED  BY <1>1, TypesStep, ModeInvStep, PTL DEF Spec

\* A context is of the mode of its contact through every switch between the two
\* (RecvSECU, RecvKEYR, ToNative), and never written as one of the other: for
\* contacts that are Settled, the user not changing the mode.
THEOREM ContextAlwaysFitsMode == ASSUME Settled PROVE Spec => []ContextFitsMode
  BY ModesInvariant, ModesOfInv, PTL

\* Two such contacts that have exchanged keys end in the same mode.
THEOREM ModesAlwaysAgree == ASSUME Settled PROVE Spec => []ModesAgree
  BY ModesInvariant, ModesOfInv, PTL

=============================================================================
