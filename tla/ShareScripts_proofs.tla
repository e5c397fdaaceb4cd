------------------------- MODULE ShareScripts_proofs -------------------------
(***************************************************************************)
(* The scripts of the two ranks fit, for all sizes: step by step, what one *)
(* sends the other receives, what one calls the other calls the other half *)
(* of, and what one enters into a check buffer so does the other.          *)
(***************************************************************************)
EXTENDS ShareScripts, DataLemmas

-----------------------------------------------------------------------------
\* Functions both ranks call, and those of which each calls a half.

Whole ==
  {"RandomAuth", "BeaverTriple", "ProductTree", "Inv", "NMul", "RandA", "MulAA",
   "InvA", "ZeroOneA", "A2P", "A2P_delay", "NMulA", "ShuffleA", "ShuffleA_2k",
   "SShuffleA", "Prg", "RandP", "P2A", "DivPA", "DivAA", "RandFairA", "FairA2P",
   "OptSShuffleA"}
Halves ==
  {<<"ShuffleSet", "ShuffleGet">>, <<"ASTSend", "ASTRecv">>,
   <<"ASTSet", "ASTGet">>, <<"SetA", "GetA">>,
   <<"BatchShuffleSet", "BatchShuffleGet">>,
   <<"_BatchShuffleSet", "_BatchShuffleGet">>,
   <<"DoubleASTSetRound", "DoubleASTGetRound">>,
   <<"DoubleASTSet", "DoubleASTGet">>,
   <<"DoubleSetRound_2k", "DoubleGetRound_2k">>, <<"SetRound", "GetRound">>,
   <<"_DoubleSetMerge", "_DoubleGetMerge">>,
   <<"_DoubleSetLayer", "_DoubleGetLayer">>,
   <<"ASTSet_batch_basic_2k", "ASTGet_batch_basic_2k">>,
   <<"DoubleASTSet_batch_basic_2k", "DoubleASTGet_batch_basic_2k">>,
   <<"_DoubleASTSet_batch_basic_2k", "_DoubleASTGet_batch_basic_2k">>,
   <<"ASTSet_2k", "ASTGet_2k">>, <<"DoubleASTSet_2k", "DoubleASTGet_2k">>,
   <<"_DoubleASTSet_2k", "_DoubleASTGet_2k">>,
   <<"cr.BatchShuffleSet", "cr.BatchShuffleGet">>,
   <<"cr._BatchShuffleSet", "cr._BatchShuffleGet">>,
   <<"cr.ASTSet_2k", "cr.ASTGet_2k">>,
   <<"cr.DoubleASTSet_2k", "cr.DoubleASTGet_2k">>,
   <<"cr._DoubleASTSet_2k", "cr._DoubleASTGet_2k">>}

\* The calls that have no script: what they do depends on a rank's state.
WholeStateful ==
  {"SetKey", "SetVoleKey", "cr.DelayCheck", "prot.DelayCheck", "NdssDelayCheck",
   "AShareLineCombineDelayCheck"}
HalvesStateful ==
  {<<"RandomSet", "RandomGet">>, <<"RandomVoleSet", "RandomVoleGet">>}

Twins ==
  {<<f, f>> : f \in Whole \cup WholeStateful}
  \cup Halves \cup {<<h[2], h[1]>> : h \in Halves}
  \cup HalvesStateful \cup {<<h[2], h[1]>> : h \in HalvesStateful}
Functions == {pair[1] : pair \in Twins}

\* A double translation is of at least two elements: the sizes of its
\* messages are divided by the number of its OTs.
OfTwo == {"DoubleASTSet", "DoubleASTGet", "OptSShuffleA"}

CheckBuffers == {"line", "delay", "double", "check", "ndss", "now"}
Messages == {"send", "recv"}
OnBuffers == {"push", "digest", "compare", "combine", "enforce"}

\* The messages, by purpose.
Purposes ==
  {"commitment", "seed", "choices", "messages", "GGM_tree", "MpVole", "MalVole",
   "MalVoleHash", "BaseVole", "MalBaseVole", "AuthSet", "opening", "MulPP",
   "product", "consistency_check", "check_hash", "r_sub_b", "BatchShuffle",
   "BatchAST", "MulHelper", "SetA", "a+x_val", "a+x_mac", "OptSS_first_vole",
   "OptSS_second_vole", "combination", "digest"}

Legal(s) ==
  /\ s.do \in Messages => s.tag \in Purposes
  /\ s.do = "call" => /\ s.tag \in Functions /\ s.num \in Nat
                      /\ s.tag \in OfTwo => s.num >= 2
  /\ s.do \in OnBuffers => s.tag \in CheckBuffers
Tags == Purposes \cup Functions \cup CheckBuffers
Steps ==
  {s \in [do : Messages \cup OnBuffers \cup {"call", "throw"}, ch : Channels,
          tag : Tags, num : Int] : Legal(s)}

\* A step of a rank and the one its peer is at meanwhile.
StepsFit(s, t) ==
  /\ s.ch = t.ch /\ s.num = t.num
  /\ \/ s.do = "send" /\ t.do = "recv" /\ s.tag = t.tag
     \/ s.do = "recv" /\ t.do = "send" /\ s.tag = t.tag
     \/ s.do = "call" /\ t.do = "call" /\ <<s.tag, t.tag>> \in Twins
     \/ s.do \notin Messages \cup {"call"} /\ t.do = s.do /\ t.tag = s.tag

\* The last messages before a comparison are the digests, rank 0's first.
IsDigest(s, do) == s.do = do /\ s.tag = "digest"
FirstDigest(p, s) == IsDigest(s, IF p = 0 THEN "send" ELSE "recv")
SecondDigest(p, s) == IsDigest(s, IF p = 0 THEN "recv" ELSE "send")
Formed(p, s) ==
  \A i \in 1 .. Len(s) :
    s[i].do = "compare" =>
      i >= 3 /\ SecondDigest(p, s[i - 1]) /\ FirstDigest(p, s[i - 2])

\* A digest of a buffer and its comparison: four messages are between them.
Linked(s, i) ==
  /\ i + 5 \in 1 .. Len(s)
  /\ s[i].do = "digest" /\ s[i + 5].do = "compare" /\ s[i + 5].tag = s[i].tag
  /\ \A j \in i + 1 .. i + 4 : s[j].do \in Messages

\* From position m on every digest is compared and nothing else is, and what
\* is entered to be checked at once is digested next.
PushesNow(s, i) == s[i].do = "push" /\ s[i].tag = "now"
ClosedAt(s, m, i) ==
  /\ s[i].do = "digest" => Linked(s, i)
  /\ s[i].do = "compare" => i - 5 > m /\ Linked(s, i - 5)
  /\ PushesNow(s, i) => i < Len(s) /\ s[i + 1].do = "digest" /\ s[i + 1].tag = "now"
ClosedFrom(s, m) == \A i \in 1 .. Len(s) : i > m => ClosedAt(s, m, i)
Closed(s) == ClosedFrom(s, 0)

Match(p, s, t) ==
  /\ s \in Seq(Steps) /\ t \in Seq(Steps) /\ Len(s) = Len(t)
  /\ \A i \in 1 .. Len(s) : StepsFit(s[i], t[i])
  /\ Formed(p, s) /\ Formed(Peer(p), t)
Fit(p, s, t) == Match(p, s, t) /\ Closed(s) /\ Closed(t)

-----------------------------------------------------------------------------

\* There are two ranks.
LEMMA PeerFacts ==
  /\ Peer(0) = 1 /\ Peer(1) = 0
  /\ \A p \in Ranks : Peer(p) \in Ranks /\ Peer(Peer(p)) = p /\ Peer(p) # p
  BY DEF Peer, Ranks

\* Fitting goes both ways.
LEMMA FitBack ==
  ASSUME NEW p \in Ranks, NEW s, NEW t, Fit(p, s, t)
  PROVE  Fit(Peer(p), t, s)
<1>1. \A f, g : <<f, g>> \in Twins => <<g, f>> \in Twins
  BY DEF Twins, Whole, WholeStateful, Halves, HalvesStateful
<1>2. \A a, b : StepsFit(a, b) => StepsFit(b, a)
  BY <1>1 DEF StepsFit
<1>3. QED
  BY <1>2, PeerFacts DEF Fit, Match

\* Nothing fits nothing.
LEMMA FitEmpty ==
  ASSUME NEW p \in Ranks
  PROVE  Fit(p, <<>>, <<>>)
<1>1. Len(<<>>) = 0 /\ 1 .. 0 = {}
  OBVIOUS
<1>2. Match(p, <<>>, <<>>)
  BY DEF Match, Formed
<1>3. Closed(<<>>)
  BY <1>1 DEF Closed, ClosedFrom
<1>4. QED
  BY <1>2, <1>3 DEF Fit

\* A step matches a step, except a comparison: its digests come before it.
LEMMA MatchOne ==
  ASSUME NEW p \in Ranks, NEW s \in Steps, NEW t \in Steps, StepsFit(s, t),
         s.do # "compare"
  PROVE  Match(p, <<s>>, <<t>>)
<1>1. t.do # "compare"
  BY DEF StepsFit, Messages
<1>2. /\ <<s>> \in Seq(Steps) /\ <<t>> \in Seq(Steps)
      /\ Len(<<s>>) = 1 /\ Len(<<t>>) = 1 /\ <<s>>[1] = s /\ <<t>>[1] = t
  OBVIOUS
<1>3. \A i \in 1 .. 1 : i = 1
  OBVIOUS
<1>4. Formed(p, <<s>>) /\ Formed(Peer(p), <<t>>)
  BY <1>1, <1>2, <1>3 DEF Formed
<1>5. QED
  BY <1>2, <1>3, <1>4 DEF Match

\* A step fits a step, except those that go together: a digest and its
\* comparison, and what is checked at once.
LEMMA FitOne ==
  ASSUME NEW p \in Ranks, NEW s \in Steps, NEW t \in Steps, StepsFit(s, t),
         s.do \notin {"compare", "digest"}, s.do = "push" => s.tag # "now"
  PROVE  Fit(p, <<s>>, <<t>>)
<1>1. \A u : u.do \notin {"compare", "digest"} /\ (u.do = "push" => u.tag # "now") =>
              Closed(<<u>>)
  <2>1. SUFFICES ASSUME NEW u, u.do \notin {"compare", "digest"},
                        u.do = "push" => u.tag # "now"
                 PROVE  Closed(<<u>>)
    OBVIOUS
  <2>2. Len(<<u>>) = 1 /\ <<u>>[1] = u /\ \A i \in 1 .. 1 : i = 1
    OBVIOUS
  <2>3. QED
    BY <2>1, <2>2 DEF Closed, ClosedFrom, ClosedAt, PushesNow
<1>2. t.do \notin {"compare", "digest"} /\ (t.do = "push" => t.tag # "now")
  BY DEF StepsFit, Messages
<1>3. Match(p, <<s>>, <<t>>)
  BY MatchOne
<1>4. QED
  BY <1>1, <1>2, <1>3 DEF Fit

\* What is formed stays formed with more before or after it.
LEMMA FormedConcat ==
  ASSUME NEW p \in Ranks, NEW s \in Seq(Steps), NEW t \in Seq(Steps),
         Formed(p, s), Formed(p, t)
  PROVE  Formed(p, s \o t)
<1>1. /\ Len(s) \in Nat /\ Len(t) \in Nat /\ Len(s \o t) = Len(s) + Len(t)
      /\ \A i \in 1 .. Len(s) + Len(t) :
           (s \o t)[i] = IF i <= Len(s) THEN s[i] ELSE t[i - Len(s)]
  BY ConcatProperties
<1> DEFINE u == s \o t
<1> HIDE DEF u
<1>2. ASSUME NEW i \in 1 .. Len(s) + Len(t), u[i].do = "compare"
      PROVE  i >= 3 /\ SecondDigest(p, u[i - 1]) /\ FirstDigest(p, u[i - 2])
  <2>1. CASE i <= Len(s)
    <3>1. i \in 1 .. Len(s) /\ u[i] = s[i]
      BY <1>1, <2>1 DEF u
    <3>2. i >= 3 /\ SecondDigest(p, s[i - 1]) /\ FirstDigest(p, s[i - 2])
      BY <1>2, <3>1 DEF Formed
    <3>3. u[i - 1] = s[i - 1] /\ u[i - 2] = s[i - 2]
      BY <1>1, <2>1, <3>2 DEF u
    <3>4. QED
      BY <3>2, <3>3
  <2>2. CASE ~(i <= Len(s))
    <3> DEFINE j == i - Len(s)
    <3>1. j \in 1 .. Len(t) /\ u[i] = t[j]
      BY <1>1, <2>2 DEF u
    <3>2. j >= 3 /\ SecondDigest(p, t[j - 1]) /\ FirstDigest(p, t[j - 2])
      BY <1>2, <3>1 DEF Formed
    <3>3. /\ i - 1 \in 1 .. Len(s) + Len(t) /\ i - 2 \in 1 .. Len(s) + Len(t)
          /\ ~(i - 1 <= Len(s)) /\ ~(i - 2 <= Len(s)) /\ i >= 3
          /\ i - 1 - Len(s) = j - 1 /\ i - 2 - Len(s) = j - 2
      BY <1>1, <3>1, <3>2
    <3>4. u[i - 1] = t[j - 1] /\ u[i - 2] = t[j - 2]
      BY <1>1, <3>3 DEF u
    <3>5. QED
      BY <3>2, <3>3, <3>4
  <2>3. QED
    BY <2>1, <2>2
<1>3. QED
  BY <1>1, <1>2 DEF Formed, u

\* Scripts that match, one after another, match.
LEMMA MatchConcat ==
  ASSUME NEW p \in Ranks, NEW s, NEW t, NEW u, NEW v, Match(p, s, t), Match(p, u, v)
  PROVE  Match(p, s \o u, t \o v)
<1>1. /\ s \in Seq(Steps) /\ t \in Seq(Steps) /\ u \in Seq(Steps) /\ v \in Seq(Steps)
      /\ Len(s) \in Nat /\ Len(u) \in Nat
      /\ Len(t) = Len(s) /\ Len(v) = Len(u)
      /\ \A i \in 1 .. Len(s) : StepsFit(s[i], t[i])
      /\ \A i \in 1 .. Len(u) : StepsFit(u[i], v[i])
  BY DEF Match
<1>2. Formed(p, s \o u) /\ Formed(Peer(p), t \o v)
  BY <1>1, FormedConcat, PeerFacts DEF Match
<1>3. /\ s \o u \in Seq(Steps) /\ Len(s \o u) = Len(s) + Len(u)
      /\ \A i \in 1 .. Len(s) + Len(u) :
           (s \o u)[i] = IF i <= Len(s) THEN s[i] ELSE u[i - Len(s)]
  BY <1>1, ConcatProperties
<1>4. /\ t \o v \in Seq(Steps) /\ Len(t \o v) = Len(s) + Len(u)
      /\ \A i \in 1 .. Len(s) + Len(u) :
           (t \o v)[i] = IF i <= Len(s) THEN t[i] ELSE v[i - Len(s)]
  <2>1. /\ t \o v \in Seq(Steps) /\ Len(t \o v) = Len(t) + Len(v)
        /\ \A i \in 1 .. Len(t) + Len(v) :
             (t \o v)[i] = IF i <= Len(t) THEN t[i] ELSE v[i - Len(t)]
    BY <1>1, ConcatProperties
  <2>2. QED
    BY <1>1, <2>1
<1>5. ASSUME NEW i \in 1 .. Len(s) + Len(u)
      PROVE  StepsFit((s \o u)[i], (t \o v)[i])
  <2>1. CASE i <= Len(s)
    BY <1>1, <1>3, <1>4, <2>1
  <2>2. CASE ~(i <= Len(s))
    <3>1. i - Len(s) \in 1 .. Len(u)
      BY <1>1, <2>2
    <3>2. QED
      BY <1>1, <1>3, <1>4, <2>2, <3>1
  <2>3. QED
    BY <2>1, <2>2
<1>6. QED
  BY <1>2, <1>3, <1>4, <1>5 DEF Match

\* What is closed stays closed with more before or after it.
LEMMA ClosedConcat ==
  ASSUME NEW s \in Seq(Steps), NEW t \in Seq(Steps), Closed(s), Closed(t)
  PROVE  Closed(s \o t)
<1> DEFINE u == s \o t
           a == Len(s)
           b == Len(t)
<1>1. /\ a \in Nat /\ b \in Nat /\ Len(u) = a + b
      /\ \A i \in 1 .. a : u[i] = s[i]
      /\ \A i \in 1 .. b : u[a + i] = t[i]
  <2>1. /\ a \in Nat /\ b \in Nat /\ Len(u) = a + b
        /\ \A i \in 1 .. a + b : u[i] = IF i <= a THEN s[i] ELSE t[i - a]
    BY ConcatProperties
  <2> HIDE DEF u, a, b
  <2>2. \A i \in 1 .. a : i \in 1 .. a + b /\ i <= a
    BY <2>1
  <2>3. \A i \in 1 .. b : a + i \in 1 .. a + b /\ ~(a + i <= a) /\ a + i - a = i
    BY <2>1
  <2>4. QED
    BY <2>1, <2>2, <2>3
<1> HIDE DEF u
<1>2. ASSUME NEW i \in 1 .. a, Linked(s, i)
      PROVE  Linked(u, i)
  <2>1. /\ i + 5 \in 1 .. a /\ s[i].do = "digest" /\ s[i + 5].do = "compare"
        /\ s[i + 5].tag = s[i].tag /\ \A j \in i + 1 .. i + 4 : s[j].do \in Messages
    BY <1>2 DEF Linked
  <2>2. u[i] = s[i] /\ u[i + 5] = s[i + 5] /\ i + 5 \in 1 .. a + b
    BY <1>1, <2>1
  <2>3. \A j \in i + 1 .. i + 4 : j \in 1 .. a
    BY <1>1, <2>1
  <2>4. \A j \in i + 1 .. i + 4 : u[j] = s[j]
    BY <1>1, <2>3
  <2>5. QED
    BY <1>1, <2>1, <2>2, <2>4 DEF Linked
<1>3. ASSUME NEW i \in 1 .. b, Linked(t, i)
      PROVE  Linked(u, a + i)
  <2>1. /\ i + 5 \in 1 .. b /\ t[i].do = "digest" /\ t[i + 5].do = "compare"
        /\ t[i + 5].tag = t[i].tag /\ \A j \in i + 1 .. i + 4 : t[j].do \in Messages
    BY <1>3 DEF Linked
  <2>2. /\ u[a + i] = t[i] /\ u[a + (i + 5)] = t[i + 5]
        /\ a + (i + 5) = (a + i) + 5 /\ (a + i) + 5 \in 1 .. a + b
    BY <1>1, <2>1
  <2>3. ASSUME NEW j \in (a + i) + 1 .. (a + i) + 4
        PROVE  u[j].do \in Messages
    <3>1. j - a \in i + 1 .. i + 4 /\ j - a \in 1 .. b /\ a + (j - a) = j
      BY <1>1, <2>1
    <3>2. u[j] = t[j - a]
      BY <1>1, <3>1
    <3>3. QED
      BY <2>1, <3>1, <3>2
  <2>4. QED
    BY <1>1, <2>1, <2>2, <2>3 DEF Linked
<1>4. ASSUME NEW i \in 1 .. a
      PROVE  ClosedAt(u, 0, i)
  <2>1. ClosedAt(s, 0, i) /\ u[i] = s[i]
    BY <1>1 DEF Closed, ClosedFrom
  <2>2. s[i].do = "digest" => Linked(u, i)
    BY <1>2, <2>1 DEF ClosedAt
  <2>3. s[i].do = "compare" => i - 5 > 0 /\ Linked(u, i - 5)
    <3>1. ASSUME s[i].do = "compare"
          PROVE  i - 5 > 0 /\ Linked(u, i - 5)
      <4>1. i - 5 > 0 /\ Linked(s, i - 5)
        BY <2>1, <3>1 DEF ClosedAt
      <4>2. i - 5 \in 1 .. a
        BY <1>1, <4>1
      <4>3. QED
        BY <1>2, <4>1, <4>2
    <3>2. QED
      BY <3>1
  <2>4. PushesNow(u, i) =>
          i < Len(u) /\ u[i + 1].do = "digest" /\ u[i + 1].tag = "now"
    <3>1. ASSUME PushesNow(u, i)
          PROVE  i < Len(u) /\ u[i + 1].do = "digest" /\ u[i + 1].tag = "now"
      <4>1. i < a /\ s[i + 1].do = "digest" /\ s[i + 1].tag = "now"
        BY <2>1, <3>1 DEF ClosedAt, PushesNow
      <4>2. i + 1 \in 1 .. a /\ i < a + b
        BY <1>1, <4>1
      <4>3. QED
        BY <1>1, <4>1, <4>2
    <3>2. QED
      BY <3>1
  <2>5. QED
    BY <2>1, <2>2, <2>3, <2>4 DEF ClosedAt
<1>5. ASSUME NEW i \in 1 .. b
      PROVE  ClosedAt(u, 0, a + i)
  <2>1. ClosedAt(t, 0, i) /\ u[a + i] = t[i]
    BY <1>1 DEF Closed, ClosedFrom
  <2>2. t[i].do = "digest" => Linked(u, a + i)
    BY <1>3, <2>1 DEF ClosedAt
  <2>3. t[i].do = "compare" => a + i - 5 > 0 /\ Linked(u, a + i - 5)
    <3>1. ASSUME t[i].do = "compare"
          PROVE  a + i - 5 > 0 /\ Linked(u, a + i - 5)
      <4>1. i - 5 > 0 /\ Linked(t, i - 5)
        BY <2>1, <3>1 DEF ClosedAt
      <4>2. i - 5 \in 1 .. b /\ a + (i - 5) = a + i - 5
        BY <1>1, <4>1
      <4>3. Linked(u, a + (i - 5))
        BY <1>3, <4>1, <4>2
      <4>4. QED
        BY <1>1, <4>2, <4>3
    <3>2. QED
      BY <3>1
  <2>4. PushesNow(u, a + i) =>
          a + i < Len(u) /\ u[a + i + 1].do = "digest" /\ u[a + i + 1].tag = "now"
    <3>1. ASSUME PushesNow(u, a + i)
          PROVE  a + i < Len(u) /\ u[a + i + 1].do = "digest"
                 /\ u[a + i + 1].tag = "now"
      <4>1. i < b /\ t[i + 1].do = "digest" /\ t[i + 1].tag = "now"
        BY <2>1, <3>1 DEF ClosedAt, PushesNow
      <4>2. i + 1 \in 1 .. b /\ a + i < a + b /\ a + (i + 1) = a + i + 1
        BY <1>1, <4>1
      <4>3. u[a + i + 1] = t[i + 1]
        BY <1>1, <4>2
      <4>4. QED
        BY <1>1, <4>1, <4>2, <4>3
    <3>2. QED
      BY <3>1
  <2>5. QED
    BY <2>1, <2>2, <2>3, <2>4 DEF ClosedAt
<1>6. ASSUME NEW i \in 1 .. Len(u)
      PROVE  ClosedAt(u, 0, i)
  <2>1. CASE i <= a
    <3>1. i \in 1 .. a
      BY <1>1, <2>1
    <3>2. QED
      BY <1>4, <3>1
  <2>2. CASE ~(i <= a)
    <3>1. i - a \in 1 .. b /\ a + (i - a) = i
      BY <1>1, <2>2
    <3>2. ClosedAt(u, 0, a + (i - a))
      BY <1>5, <3>1
    <3>3. QED
      BY <3>1, <3>2
  <2>3. QED
    BY <2>1, <2>2
<1>7. QED
  BY <1>6 DEF Closed, ClosedFrom, u

\* Scripts that fit, one after another, fit.
LEMMA FitConcat ==
  ASSUME NEW p \in Ranks, NEW s, NEW t, NEW u, NEW v, Fit(p, s, t), Fit(p, u, v)
  PROVE  Fit(p, s \o u, t \o v)
<1>1. /\ s \in Seq(Steps) /\ t \in Seq(Steps) /\ u \in Seq(Steps) /\ v \in Seq(Steps)
      /\ Match(p, s, t) /\ Match(p, u, v)
      /\ Closed(s) /\ Closed(t) /\ Closed(u) /\ Closed(v)
  BY DEF Fit, Match
<1>2. Match(p, s \o u, t \o v)
  BY <1>1, MatchConcat
<1>3. Closed(s \o u) /\ Closed(t \o v)
  BY <1>1, ClosedConcat
<1>4. QED
  BY <1>2, <1>3 DEF Fit

\* So do as many as one likes.
LEMMA FitFlatten ==
  ASSUME NEW p \in Ranks, NEW F \in Seq(Seq(Steps)), NEW G \in Seq(Seq(Steps)),
         Len(F) = Len(G), \A i \in 1 .. Len(F) : Fit(p, F[i], G[i])
  PROVE  Fit(p, FlattenSeq(F), FlattenSeq(G))
<1> DEFINE Good(n) ==
      \A A, B \in Seq(Seq(Steps)) :
        /\ Len(A) = n /\ Len(B) = n
        /\ \A i \in 1 .. n : Fit(p, A[i], B[i])
        => Fit(p, FlattenSeq(A), FlattenSeq(B))
    S == {n \in Nat : Good(n)}
<1>1. 0 \in S
  <2>1. \A A \in Seq(Seq(Steps)) : Len(A) = 0 => A = <<>>
    OBVIOUS
  <2>2. Fit(p, FlattenSeq(<<>>), FlattenSeq(<<>>))
    BY FlattenFacts, FitEmpty
  <2>3. QED
    BY <2>1, <2>2
<1>2. ASSUME NEW n \in Nat, n \in S
      PROVE  n + 1 \in S
  <2>1. SUFFICES ASSUME NEW A \in Seq(Seq(Steps)), NEW B \in Seq(Seq(Steps)),
                        Len(A) = n + 1, Len(B) = n + 1,
                        \A i \in 1 .. n + 1 : Fit(p, A[i], B[i])
                 PROVE  Fit(p, FlattenSeq(A), FlattenSeq(B))
    OBVIOUS
  <2> DEFINE A1 == [i \in 1 .. n |-> A[i]]
             B1 == [i \in 1 .. n |-> B[i]]
  <2>2. /\ A1 \in Seq(Seq(Steps)) /\ Len(A1) = n
        /\ \A i \in 1 .. n : A1[i] = A[i]
        /\ FlattenSeq(A) = FlattenSeq(A1) \o A[n + 1]
    BY <2>1, FlattenLast
  <2>3. /\ B1 \in Seq(Seq(Steps)) /\ Len(B1) = n
        /\ \A i \in 1 .. n : B1[i] = B[i]
        /\ FlattenSeq(B) = FlattenSeq(B1) \o B[n + 1]
    BY <2>1, FlattenLast
  <2> HIDE DEF A1, B1
  <2>4. Fit(p, FlattenSeq(A1), FlattenSeq(B1))
    <3>1. Good(n) /\ \A i \in 1 .. n : Fit(p, A1[i], B1[i])
      BY <1>2, <2>1, <2>2, <2>3
    <3>2. QED
      BY <2>2, <2>3, <3>1
  <2>5. Fit(p, A[n + 1], B[n + 1])
    BY <2>1
  <2>6. QED
    BY <2>2, <2>3, <2>4, <2>5, FitConcat
<1> HIDE DEF S
<1>3. Nat \subseteq S
  BY <1>1, <1>2, NatSetInduction
<1>4. Len(F) \in S /\ Len(F) \in Nat
  BY <1>3
<1>5. Good(Len(F))
  BY <1>4 DEF S
<1>6. QED
  BY <1>5

\* In particular the same number of times the same.
LEMMA FitTimes ==
  ASSUME NEW p \in Ranks, NEW k \in Int, NEW s, NEW t, Fit(p, s, t)
  PROVE  Fit(p, Times(k, s), Times(k, t))
<1> DEFINE F == [i \in 1 .. k |-> s]
           G == [i \in 1 .. k |-> t]
<1>1. s \in Seq(Steps) /\ t \in Seq(Steps)
  BY DEF Fit, Match
<1>2. CASE k <= 0
  <2>1. F = <<>> /\ G = <<>>
    BY <1>2
  <2>2. Fit(p, FlattenSeq(<<>>), FlattenSeq(<<>>))
    BY FlattenFacts, FitEmpty
  <2>3. QED
    BY <2>1, <2>2 DEF Times
<1>3. CASE k > 0
  <2>1. /\ F \in Seq(Seq(Steps)) /\ G \in Seq(Seq(Steps)) /\ Len(F) = k /\ Len(G) = k
        /\ \A i \in 1 .. k : F[i] = s /\ G[i] = t
    BY <1>1, <1>3
  <2> HIDE DEF F, G
  <2>2. Len(F) = Len(G) /\ \A i \in 1 .. Len(F) : Fit(p, F[i], G[i])
    BY <2>1
  <2>3. Fit(p, FlattenSeq(F), FlattenSeq(G))
    BY <2>1, <2>2, FitFlatten
  <2>4. QED
    BY <2>3 DEF Times, F, G
<1>4. QED
  BY <1>2, <1>3

-----------------------------------------------------------------------------
\* The steps and scripts the others are made of.


\* Each purpose is one.
LEMMA PurposeFacts ==
  /\ "commitment" \in Purposes /\ "seed" \in Purposes /\ "choices" \in Purposes
  /\ "messages" \in Purposes /\ "GGM_tree" \in Purposes /\ "MpVole" \in Purposes
  /\ "MalVole" \in Purposes /\ "MalVoleHash" \in Purposes /\ "BaseVole" \in Purposes
  /\ "MalBaseVole" \in Purposes /\ "AuthSet" \in Purposes /\ "opening" \in Purposes
  /\ "MulPP" \in Purposes /\ "product" \in Purposes /\ "consistency_check" \in Purposes
  /\ "check_hash" \in Purposes /\ "r_sub_b" \in Purposes /\ "BatchShuffle" \in Purposes
  /\ "BatchAST" \in Purposes /\ "MulHelper" \in Purposes /\ "SetA" \in Purposes
  /\ "a+x_val" \in Purposes /\ "a+x_mac" \in Purposes /\ "OptSS_first_vole" \in Purposes
  /\ "OptSS_second_vole" \in Purposes /\ "combination" \in Purposes
  /\ "digest" \in Purposes
BY DEF Purposes

\* The steps of a rank.
LEMMA StepTypes ==
  ASSUME NEW do \in Messages \cup OnBuffers \cup {"call", "throw"},
         NEW c \in Channels, NEW tag \in Tags, NEW n \in Int,
         Legal(Step(do, c, tag, n))
  PROVE  Step(do, c, tag, n) \in Steps
BY DEF Steps, Step

\* What one rank sends the other receives.
LEMMA FitMessage ==
  ASSUME NEW p \in Ranks, NEW c \in Channels, NEW tag \in Purposes, NEW n \in Int
  PROVE  /\ Fit(p, <<Step("send", c, tag, n)>>, <<Step("recv", c, tag, n)>>)
         /\ Fit(p, <<Step("recv", c, tag, n)>>, <<Step("send", c, tag, n)>>)
<1> DEFINE s == Step("send", c, tag, n)
           r == Step("recv", c, tag, n)
<1>1. s \in Steps /\ r \in Steps /\ s.do \in Messages /\ r.do \in Messages
  <2>1. Legal(s) /\ Legal(r) /\ s.do \in Messages /\ r.do \in Messages
    BY DEF Legal, Step, Messages, OnBuffers
  <2>2. tag \in Tags /\ "send" \in Messages /\ "recv" \in Messages
    BY DEF Tags, Messages
  <2>3. QED
    BY <2>1, <2>2, StepTypes
<1>2. StepsFit(s, r) /\ StepsFit(r, s)
  BY DEF StepsFit, Step
<1> HIDE DEF s, r
<1>3. Fit(p, <<s>>, <<r>>) /\ Fit(p, <<r>>, <<s>>)
  BY <1>1, <1>2, FitOne DEF Messages
<1>4. QED
  BY <1>3 DEF s, r

\* The same on the main channel.
LEMMA FitSend ==
  ASSUME NEW p \in Ranks, NEW tag \in Purposes, NEW n \in Int
  PROVE  /\ Fit(p, Send(tag, n), Recv(tag, n))
         /\ Fit(p, Recv(tag, n), Send(tag, n))
<1>1. "main" \in Channels
  BY DEF Channels
<1>2. QED
  BY <1>1, FitMessage DEF Send, Recv

\* Functions that fit are called together.
LEMMA FitCall ==
  ASSUME NEW p \in Ranks, NEW f, NEW g, <<f, g>> \in Twins, NEW n \in Nat,
         f \in OfTwo => n >= 2
  PROVE  Fit(p, Call(f, n), Call(g, n))
<1> DEFINE s == Step("call", "main", f, n)
           t == Step("call", "main", g, n)
<1>1. /\ f \in Functions /\ g \in Functions
      /\ g \in OfTwo => f \in OfTwo
  <2>1. /\ <<g, f>> \in Twins
        /\ g \in OfTwo => f \in OfTwo
    BY DEF Twins, Whole, WholeStateful, Halves, HalvesStateful, OfTwo
  <2>2. QED
    BY <2>1 DEF Functions
<1>2. s \in Steps /\ t \in Steps /\ s.do = "call"
  <2>1. Legal(s) /\ Legal(t) /\ s.do = "call"
    BY <1>1 DEF Legal, Step, Messages, OnBuffers
  <2>2. f \in Tags /\ g \in Tags /\ "main" \in Channels
    BY <1>1 DEF Tags, Channels
  <2>3. QED
    BY <2>1, <2>2, StepTypes
<1>3. StepsFit(s, t)
  BY DEF StepsFit, Step
<1> HIDE DEF s, t
<1>4. Fit(p, <<s>>, <<t>>)
  BY <1>2, <1>3, FitOne
<1>5. QED
  BY <1>4 DEF s, t, Call

\* What is done to a buffer is done at both ranks.
LEMMA FitLocal ==
  ASSUME NEW p \in Ranks, NEW do \in {"push", "combine", "enforce"},
         NEW b \in CheckBuffers, NEW n \in Int, do = "push" => b # "now"
  PROVE  Fit(p, Local(do, b, n), Local(do, b, n))
<1> DEFINE s == Step(do, "main", b, n)
<1>1. /\ s \in Steps /\ s.do \notin {"compare", "digest"}
      /\ s.do = "push" => s.tag # "now"
  <2>1. /\ Legal(s) /\ s.do \notin {"compare", "digest"} /\ do \in OnBuffers
        /\ s.do = "push" => s.tag # "now"
    BY DEF Legal, Step, Messages, OnBuffers
  <2>2. b \in Tags /\ "main" \in Channels
    BY DEF Tags, Channels
  <2>3. QED
    BY <2>1, <2>2, StepTypes
<1>2. StepsFit(s, s)
  BY DEF StepsFit, Step, Messages
<1> HIDE DEF s
<1>3. Fit(p, <<s>>, <<s>>)
  BY <1>1, <1>2, FitOne
<1>4. QED
  BY <1>3 DEF s, Local

\* Both ranks throw.
LEMMA FitThrow ==
  ASSUME NEW p \in Ranks
  PROVE  Fit(p, Local("throw", "product", 0), Local("throw", "product", 0))
<1> DEFINE s == Step("throw", "main", "product", 0)
<1>1. s \in Steps /\ s.do = "throw"
  <2>1. Legal(s) /\ s.do = "throw"
    BY DEF Legal, Step, Messages, OnBuffers
  <2>2. "product" \in Tags /\ "main" \in Channels
    BY DEF Tags, Purposes, Channels
  <2>3. QED
    BY <2>1, <2>2, StepTypes
<1>2. StepsFit(s, s)
  BY DEF StepsFit, Step, Messages
<1> HIDE DEF s
<1>3. Fit(p, <<s>>, <<s>>)
  BY <1>1, <1>2, FitOne
<1>4. QED
  BY <1>3 DEF s, Local

\* Rank 0 sends first and rank 1 receives first.
LEMMA FitExchange ==
  ASSUME NEW p \in Ranks, NEW tag \in Purposes, NEW n \in Int
  PROVE  /\ Fit(p, Exchange(p, tag, n), Exchange(Peer(p), tag, n))
         /\ Fit(p, ExchangeWithCommit(p, tag, n), ExchangeWithCommit(Peer(p), tag, n))
<1>1. \A t \in Purposes, m \in Int : Fit(p, Exchange(p, t, m), Exchange(Peer(p), t, m))
  <2> SUFFICES ASSUME NEW t \in Purposes, NEW m \in Int
               PROVE  Fit(p, Exchange(p, t, m), Exchange(Peer(p), t, m))
    OBVIOUS
  <2>1. Fit(p, Send(t, m), Recv(t, m)) /\ Fit(p, Recv(t, m), Send(t, m))
    BY FitSend
  <2>2. CASE p = 0
    <3>1. p = 0 /\ Peer(p) = 1
      BY <2>2, PeerFacts
    <3>2. Fit(p, Send(t, m) \o Recv(t, m), Recv(t, m) \o Send(t, m))
      BY <2>1, FitConcat
    <3>3. QED
      BY <3>1, <3>2 DEF Exchange
  <2>3. CASE p # 0
    <3>1. p = 1 /\ Peer(p) = 0
      BY <2>3, PeerFacts DEF Ranks
    <3>2. Fit(p, Recv(t, m) \o Send(t, m), Send(t, m) \o Recv(t, m))
      BY <2>1, FitConcat
    <3>3. QED
      BY <3>1, <3>2 DEF Exchange
  <2>4. QED
    BY <2>2, <2>3
<1>2. Fit(p, Exchange(p, "commitment", 1), Exchange(Peer(p), "commitment", 1))
  BY <1>1, PurposeFacts
<1>3. QED
  BY <1>1, <1>2, FitConcat DEF ExchangeWithCommit

\* And so they agree on a seed.
LEMMA FitSyncSeed ==
  ASSUME NEW p \in Ranks
  PROVE  Fit(p, SyncSeed(p), SyncSeed(Peer(p)))
BY FitExchange, PurposeFacts DEF SyncSeed

\* The adapters of a call of one OT meet on one channel.
LEMMA FitOtCall ==
  ASSUME NEW p \in Ranks, NEW s \in Ranks, NEW n \in Int
  PROVE  Fit(p, OtCall(p, s, n), OtCall(Peer(p), s, n))
<1> DEFINE c == Spawned[s + 1]
           first == <<Step("recv", c, "choices", n)>>
           firstBack == <<Step("send", c, "choices", n)>>
           last == <<Step("send", c, "messages", n)>>
           lastBack == <<Step("recv", c, "messages", n)>>
<1>1. \A q \in Ranks : OtChannel(q, s) = c
  <2> SUFFICES ASSUME NEW q \in Ranks
               PROVE  OtChannel(q, s) = c
    OBVIOUS
  <2>1. s + 1 \in {1, 2} /\ Adapters(q)[s + 1] = s
    BY DEF Ranks, Adapters, Peer
  <2>2. \A i \in {1, 2} : Adapters(q)[i] = s => i = s + 1
    BY DEF Ranks, Adapters, Peer
  <2>3. (CHOOSE i \in {1, 2} : Adapters(q)[i] = s) = s + 1
    BY <2>1, <2>2
  <2>4. QED
    BY <2>3 DEF OtChannel
<1>2. c \in Channels
  BY DEF Channels, Ranks
<1> HIDE DEF c
<1>3. OtCall(s, s, n) = first \o last
  BY <1>1 DEF OtCall, Step
<1>4. OtCall(Peer(s), s, n) = firstBack \o lastBack
  BY <1>1, PeerFacts DEF OtCall, Step
<1>5. /\ Fit(p, first, firstBack) /\ Fit(p, firstBack, first)
      /\ Fit(p, last, lastBack) /\ Fit(p, lastBack, last)
  BY <1>2, FitMessage, PurposeFacts
<1> HIDE DEF first, firstBack, last, lastBack
<1>6. /\ Fit(p, first \o last, firstBack \o lastBack)
      /\ Fit(p, firstBack \o lastBack, first \o last)
  BY <1>5, FitConcat
<1>7. p = s \/ (p = Peer(s) /\ Peer(p) = s)
  BY DEF Peer, Ranks
<1>8. QED
  BY <1>3, <1>4, <1>6, <1>7, PeerFacts

\* One script after another, step by step.
LEMMA StepsConcat ==
  ASSUME NEW s \in Seq(Steps), NEW t \in Seq(Steps)
  PROVE  /\ s \o t \in Seq(Steps) /\ Len(s \o t) = Len(s) + Len(t)
         /\ \A i \in 1 .. Len(s) : (s \o t)[i] = s[i]
         /\ \A i \in 1 .. Len(t) : (s \o t)[Len(s) + i] = t[i]
<1>1. /\ s \o t \in Seq(Steps) /\ Len(s \o t) = Len(s) + Len(t)
      /\ \A i \in 1 .. Len(s) + Len(t) :
           (s \o t)[i] = IF i <= Len(s) THEN s[i] ELSE t[i - Len(s)]
  BY ConcatProperties
<1> DEFINE u == s \o t
<1>6. PICK m \in Nat, n \in Nat : m = Len(s) /\ n = Len(t)
  OBVIOUS
<1> HIDE DEF u
<1>2. \A i \in 1 .. m + n : u[i] = IF i <= m THEN s[i] ELSE t[i - m]
  BY <1>1, <1>6 DEF u
<1>3. \A i \in 1 .. m : i \in 1 .. m + n /\ i <= m
  OBVIOUS
<1>4. \A i \in 1 .. n : m + i \in 1 .. m + n /\ ~(m + i <= m) /\ m + i - m = i
  OBVIOUS
<1>5. QED
  BY <1>1, <1>2, <1>3, <1>4, <1>6 DEF u

\* A script that only exchanges messages.
LEMMA CommitSteps ==
  ASSUME NEW q \in Ranks, NEW tag \in Purposes
  PROVE  /\ Exchange(q, tag, 1) \in Seq(Steps) /\ Len(Exchange(q, tag, 1)) = 2
         /\ \A i \in 1 .. 2 : /\ Exchange(q, tag, 1)[i].do \in Messages
                              /\ Exchange(q, tag, 1)[i].tag = tag
         /\ \A i \in 1 .. 2 : Exchange(q, tag, 1)[i].do =
                              IF (q = 0) = (i = 1) THEN "send" ELSE "recv"
<1> DEFINE x == Send(tag, 1)
           y == Recv(tag, 1)
           E == Exchange(q, tag, 1)
<1>1. /\ x \in Seq(Steps) /\ Len(x) = 1 /\ x[1].do = "send" /\ x[1].tag = tag
      /\ y \in Seq(Steps) /\ Len(y) = 1 /\ y[1].do = "recv" /\ y[1].tag = tag
  <2>1. x \in Seq(Steps) /\ y \in Seq(Steps)
    BY FitSend DEF Fit, Match
  <2>2. \A e : Len(<<e>>) = 1 /\ <<e>>[1] = e
    OBVIOUS
  <2>3. QED
    BY <2>1, <2>2 DEF Send, Recv, Step
<1>2. E = IF q = 0 THEN x \o y ELSE y \o x
  BY DEF Exchange
<1> HIDE DEF x, y, E
<1>3. /\ x \o y \in Seq(Steps) /\ Len(x \o y) = Len(x) + Len(y)
      /\ \A i \in 1 .. Len(x) : (x \o y)[i] = x[i]
      /\ \A i \in 1 .. Len(y) : (x \o y)[Len(x) + i] = y[i]
  BY <1>1, StepsConcat
<1>4. /\ y \o x \in Seq(Steps) /\ Len(y \o x) = Len(y) + Len(x)
      /\ \A i \in 1 .. Len(y) : (y \o x)[i] = y[i]
      /\ \A i \in 1 .. Len(x) : (y \o x)[Len(y) + i] = x[i]
  BY <1>1, StepsConcat
<1>5. /\ E \in Seq(Steps) /\ Len(E) = 2
      /\ E[1] = IF q = 0 THEN x[1] ELSE y[1]
      /\ E[2] = IF q = 0 THEN y[1] ELSE x[1]
  <2>1. CASE q = 0
    BY <1>1, <1>2, <1>3, <2>1
  <2>2. CASE q # 0
    BY <1>1, <1>2, <1>4, <2>2
  <2>3. QED
    BY <2>1, <2>2
<1>6. \A i \in 1 .. 2 : i = 1 \/ i = 2
  OBVIOUS
<1>7. QED
  BY <1>1, <1>5, <1>6 DEF Messages, E

\* A digest, its exchange and its comparison, step by step.
LEMMA CompareSteps ==
  ASSUME NEW q \in Ranks, NEW b \in CheckBuffers
  PROVE  LET C == CompareDigests(q, b)
         IN  /\ C \in Seq(Steps) /\ Len(C) = 6
             /\ C[1] = Step("digest", "main", b, 0)
             /\ C[6] = Step("compare", "main", b, 0)
             /\ \A i \in 2 .. 5 : C[i].do \in Messages
             /\ FirstDigest(q, C[4]) /\ SecondDigest(q, C[5])
             /\ \A i \in 1 .. 2 : /\ C[i + 1] = Exchange(q, "commitment", 1)[i]
                                  /\ C[i + 3] = Exchange(q, "digest", 1)[i]
<1> DEFINE d == Local("digest", b, 0)
           c == Local("compare", b, 0)
           x == Exchange(q, "commitment", 1)
           y == Exchange(q, "digest", 1)
<1>1. CompareDigests(q, b) = (d \o (x \o y)) \o c
  BY DEF CompareDigests, ExchangeWithCommit
<1>2. /\ x \in Seq(Steps) /\ Len(x) = 2 /\ y \in Seq(Steps) /\ Len(y) = 2
      /\ \A i \in 1 .. 2 : /\ x[i].do \in Messages /\ y[i].do \in Messages
                           /\ y[i].tag = "digest"
                           /\ y[i].do = IF (q = 0) = (i = 1) THEN "send" ELSE "recv"
  BY CommitSteps, PurposeFacts
<1>3. /\ d \in Seq(Steps) /\ Len(d) = 1 /\ d[1] = Step("digest", "main", b, 0)
      /\ c \in Seq(Steps) /\ Len(c) = 1 /\ c[1] = Step("compare", "main", b, 0)
  <2>1. \A do \in {"digest", "compare"} : Step(do, "main", b, 0) \in Steps
    <3>1. \A do \in {"digest", "compare"} :
            /\ Legal(Step(do, "main", b, 0)) /\ do \in OnBuffers
      BY DEF Legal, Step, Messages, OnBuffers
    <3>2. b \in Tags /\ "main" \in Channels
      BY DEF Tags, Channels
    <3>3. QED
      BY <3>1, <3>2, StepTypes
  <2>2. \A e : Len(<<e>>) = 1 /\ <<e>>[1] = e
    OBVIOUS
  <2>3. QED
    BY <2>1, <2>2 DEF Local
<1> HIDE DEF d, c, x, y
<1>4. /\ x \o y \in Seq(Steps) /\ Len(x \o y) = 4
      /\ \A i \in 1 .. 2 : (x \o y)[i] = x[i] /\ (x \o y)[2 + i] = y[i]
  <2>1. /\ x \o y \in Seq(Steps) /\ Len(x \o y) = Len(x) + Len(y)
        /\ \A i \in 1 .. Len(x) : (x \o y)[i] = x[i]
        /\ \A i \in 1 .. Len(y) : (x \o y)[Len(x) + i] = y[i]
    BY <1>2, StepsConcat
  <2>2. QED
    BY <1>2, <2>1
<1>5. /\ d \o (x \o y) \in Seq(Steps) /\ Len(d \o (x \o y)) = 5
      /\ (d \o (x \o y))[1] = d[1]
      /\ \A i \in 1 .. 4 : (d \o (x \o y))[1 + i] = (x \o y)[i]
  <2> DEFINE z == x \o y
  <2> HIDE DEF z
  <2>1. z \in Seq(Steps) /\ Len(z) = 4
    BY <1>4 DEF z
  <2>2. /\ d \o z \in Seq(Steps) /\ Len(d \o z) = Len(d) + Len(z)
        /\ \A i \in 1 .. Len(d) : (d \o z)[i] = d[i]
        /\ \A i \in 1 .. Len(z) : (d \o z)[Len(d) + i] = z[i]
    BY <1>3, <2>1, StepsConcat
  <2>3. QED
    BY <1>3, <2>1, <2>2 DEF z
<1> DEFINE C == (d \o (x \o y)) \o c
<1>6. /\ C \in Seq(Steps) /\ Len(C) = 6
      /\ \A i \in 1 .. 5 : C[i] = (d \o (x \o y))[i]
      /\ C[6] = c[1]
  <2> DEFINE z == d \o (x \o y)
  <2> HIDE DEF z
  <2>1. z \in Seq(Steps) /\ Len(z) = 5
    BY <1>5 DEF z
  <2>2. /\ z \o c \in Seq(Steps) /\ Len(z \o c) = Len(z) + Len(c)
        /\ \A i \in 1 .. Len(z) : (z \o c)[i] = z[i]
        /\ \A i \in 1 .. Len(c) : (z \o c)[Len(z) + i] = c[i]
    BY <1>3, <2>1, StepsConcat
  <2>3. (z \o c)[6] = c[1] /\ Len(z \o c) = 6
    BY <1>3, <2>1, <2>2
  <2>4. QED
    BY <2>1, <2>2, <2>3 DEF z
<1> HIDE DEF C
<1>7. /\ C[1] = d[1] /\ C[2] = x[1] /\ C[3] = x[2] /\ C[4] = y[1] /\ C[5] = y[2]
      /\ C[6] = c[1]
  BY <1>4, <1>5, <1>6
<1>8. /\ \A i \in 2 .. 5 : i = 2 \/ i = 3 \/ i = 4 \/ i = 5
      /\ \A i \in 1 .. 2 : i = 1 \/ i = 2
  OBVIOUS
<1>9. \A i \in 2 .. 5 : C[i].do \in Messages
  BY <1>2, <1>7, <1>8
<1>10. FirstDigest(q, C[4]) /\ SecondDigest(q, C[5])
  BY <1>2, <1>7 DEF FirstDigest, SecondDigest, IsDigest
<1>11. \A i \in 1 .. 2 : C[i + 1] = x[i] /\ C[i + 3] = y[i]
  BY <1>7, <1>8
<1>12. QED
  BY <1>1, <1>3, <1>6, <1>7, <1>9, <1>10, <1>11 DEF C, x, y

\* Digests are exchanged and then compared.
LEMMA FitCompare ==
  ASSUME NEW p \in Ranks, NEW b \in CheckBuffers
  PROVE  Fit(p, CompareDigests(p, b), CompareDigests(Peer(p), b))
<1> DEFINE C(q) == CompareDigests(q, b)
<1>1. ASSUME NEW q \in Ranks
      PROVE  /\ C(q) \in Seq(Steps) /\ Len(C(q)) = 6
             /\ C(q)[1] = Step("digest", "main", b, 0)
             /\ C(q)[6] = Step("compare", "main", b, 0)
             /\ \A i \in 2 .. 5 : C(q)[i].do \in Messages
             /\ FirstDigest(q, C(q)[4]) /\ SecondDigest(q, C(q)[5])
             /\ \A i \in 1 .. 2 : /\ C(q)[i + 1] = Exchange(q, "commitment", 1)[i]
                                  /\ C(q)[i + 3] = Exchange(q, "digest", 1)[i]
  BY CompareSteps
<1> HIDE DEF C
<1>2. /\ Step("digest", "main", b, 0).do = "digest"
      /\ Step("digest", "main", b, 0).tag = b
      /\ Step("compare", "main", b, 0).do = "compare"
      /\ Step("compare", "main", b, 0).tag = b
  BY DEF Step
<1>3. \A i \in 1 .. 6 : i = 1 \/ i = 6 \/ i \in 2 .. 5
  OBVIOUS
<1>4. ASSUME NEW q \in Ranks
      PROVE  Formed(q, C(q)) /\ Closed(C(q))
  <2>1. \A i \in 1 .. 6 : C(q)[i].do = "compare" => i = 6
    BY <1>1, <1>2, <1>3 DEF Messages
  <2>2. Formed(q, C(q))
    BY <1>1, <2>1 DEF Formed
  <2>3. \A i \in 1 .. 6 : /\ C(q)[i].do = "digest" => i = 1
                          /\ C(q)[i].do # "push"
    BY <1>1, <1>2, <1>3 DEF Messages
  <2>4. Linked(C(q), 1)
    BY <1>1, <1>2 DEF Linked
  <2>5. \A i \in 1 .. 6 : ClosedAt(C(q), 0, i)
    BY <2>1, <2>3, <2>4 DEF ClosedAt, PushesNow
  <2>6. QED
    BY <1>1, <2>2, <2>5 DEF Closed, ClosedFrom
<1>5. ASSUME NEW i \in 1 .. 6
      PROVE  StepsFit(C(p)[i], C(Peer(p))[i])
  <2>1. CASE i = 1 \/ i = 6
    BY <1>1, <1>2, <2>1, PeerFacts DEF StepsFit, Messages
  <2>2. \A tag \in Purposes, k \in 1 .. 2 :
          StepsFit(Exchange(p, tag, 1)[k], Exchange(Peer(p), tag, 1)[k])
    <3>1. \A tag \in Purposes : Fit(p, Exchange(p, tag, 1), Exchange(Peer(p), tag, 1))
      BY FitExchange
    <3>2. \A tag \in Purposes : Len(Exchange(p, tag, 1)) = 2
      BY CommitSteps
    <3>3. QED
      BY <3>1, <3>2 DEF Fit, Match
  <2>3. CASE i \in 2 .. 5
    <3>1. \/ i - 1 \in 1 .. 2 /\ (i - 1) + 1 = i
          \/ i - 3 \in 1 .. 2 /\ (i - 3) + 3 = i
      BY <2>3
    <3>2. CASE i - 1 \in 1 .. 2 /\ (i - 1) + 1 = i
      <4>1. /\ C(p)[i] = Exchange(p, "commitment", 1)[i - 1]
            /\ C(Peer(p))[i] = Exchange(Peer(p), "commitment", 1)[i - 1]
        BY <1>1, <3>2, PeerFacts
      <4>2. QED
        BY <2>2, <3>2, <4>1, PurposeFacts
    <3>3. CASE i - 3 \in 1 .. 2 /\ (i - 3) + 3 = i
      <4>1. /\ C(p)[i] = Exchange(p, "digest", 1)[i - 3]
            /\ C(Peer(p))[i] = Exchange(Peer(p), "digest", 1)[i - 3]
        BY <1>1, <3>3, PeerFacts
      <4>2. QED
        BY <2>2, <3>3, <4>1, PurposeFacts
    <3>4. QED
      BY <3>1, <3>2, <3>3
  <2>4. QED
    BY <1>3, <2>1, <2>3
<1>6. Match(p, C(p), C(Peer(p)))
  BY <1>1, <1>4, <1>5, PeerFacts DEF Match
<1>7. QED
  BY <1>4, <1>6, PeerFacts DEF Fit, C

\* What is entered to be checked at once is digested and compared.
LEMMA FitCheckNow ==
  ASSUME NEW p \in Ranks, NEW n \in Int, NEW s, NEW t, Fit(p, s, t)
  PROVE  Fit(p, (s \o Local("push", "now", n)) \o CompareDigests(p, "now"),
                (t \o Local("push", "now", n)) \o CompareDigests(Peer(p), "now"))
<1> DEFINE h == Step("push", "main", "now", n)
           P == Local("push", "now", n)
           C(q) == CompareDigests(q, "now")
<1>1. h \in Steps /\ StepsFit(h, h) /\ h.do = "push" /\ h.tag = "now"
  <2>1. Legal(h) /\ StepsFit(h, h) /\ h.do = "push" /\ h.tag = "now"
    BY DEF Legal, Step, Messages, OnBuffers, CheckBuffers, StepsFit
  <2>2. "now" \in Tags /\ "main" \in Channels /\ "push" \in OnBuffers
    BY DEF Tags, CheckBuffers, Channels, OnBuffers
  <2>3. QED
    BY <2>1, <2>2, StepTypes
<1>2. P = <<h>>
  BY DEF Local
<1> HIDE DEF h, P
<1>3. /\ P \in Seq(Steps) /\ Len(P) = 1 /\ P[1] = h
  BY <1>1, <1>2
<1>4. Match(p, P, P)
  BY <1>1, <1>2, MatchOne
<1>5. "now" \in CheckBuffers
  BY DEF CheckBuffers
<1>6. Fit(p, C(p), C(Peer(p)))
  BY <1>5, FitCompare
<1>7. ASSUME NEW q \in Ranks
      PROVE  Closed(P \o C(q))
  <2> DEFINE u == C(q)
             v == P \o u
  <2>1. /\ u \in Seq(Steps) /\ Len(u) = 6 /\ u[1] = Step("digest", "main", "now", 0)
        /\ u[6] = Step("compare", "main", "now", 0)
        /\ \A i \in 2 .. 5 : u[i].do \in Messages
    BY <1>5, CompareSteps
  <2> HIDE DEF u
  <2>2. /\ Len(v) = 7 /\ v[1] = P[1] /\ \A i \in 1 .. 6 : v[1 + i] = u[i]
    <3>1. /\ Len(P \o u) = Len(P) + Len(u)
          /\ \A i \in 1 .. Len(P) : (P \o u)[i] = P[i]
          /\ \A i \in 1 .. Len(u) : (P \o u)[Len(P) + i] = u[i]
      BY <1>3, <2>1, StepsConcat
    <3>2. QED
      BY <1>3, <2>1, <3>1
  <2> HIDE DEF v
  <2>3. /\ v[1] = h /\ v[2] = Step("digest", "main", "now", 0)
        /\ v[7] = Step("compare", "main", "now", 0)
    BY <1>3, <2>1, <2>2
  <2>4. \A i \in 3 .. 6 : v[i].do \in Messages
    <3>1. ASSUME NEW i \in 3 .. 6
          PROVE  v[i].do \in Messages
      <4>1. i - 1 \in 2 .. 5 /\ i - 1 \in 1 .. 6 /\ 1 + (i - 1) = i
        OBVIOUS
      <4>2. QED
        BY <2>1, <2>2, <4>1
    <3>2. QED
      BY <3>1
  <2>5. /\ v[1].do = "push" /\ v[1].tag = "now" /\ v[2].do = "digest"
        /\ v[2].tag = "now" /\ v[7].do = "compare" /\ v[7].tag = "now"
    BY <1>1, <2>3 DEF Step
  <2>6. \A i \in 1 .. 7 : i = 1 \/ i = 2 \/ i = 7 \/ i \in 3 .. 6
    OBVIOUS
  <2>7. Linked(v, 2)
    BY <2>2, <2>4, <2>5 DEF Linked
  <2>8. \A i \in 1 .. 7 : ClosedAt(v, 0, i)
    BY <2>2, <2>4, <2>5, <2>6, <2>7 DEF ClosedAt, PushesNow, Messages
  <2>9. QED
    BY <2>2, <2>8 DEF Closed, ClosedFrom, v, u
<1>8. ASSUME NEW q \in Ranks, NEW u \in Seq(Steps), Closed(u)
      PROVE  Closed((u \o P) \o C(q)) /\ (u \o P) \o C(q) = u \o (P \o C(q))
  <2>1. C(q) \in Seq(Steps)
    BY <1>5, CompareSteps
  <2> HIDE DEF C
  <2>2. P \o C(q) \in Seq(Steps) /\ (u \o P) \o C(q) = u \o (P \o C(q))
    BY <1>3, <2>1, ConcatProperties, ConcatAssociative
  <2>3. QED
    BY <1>7, <1>8, <2>2, ClosedConcat
<1> HIDE DEF C
<1>9. /\ s \in Seq(Steps) /\ t \in Seq(Steps) /\ Match(p, s, t) /\ Closed(s) /\ Closed(t)
      /\ Match(p, C(p), C(Peer(p)))
  BY <1>6 DEF Fit, Match
<1>10. Match(p, (s \o P) \o C(p), (t \o P) \o C(Peer(p)))
  BY <1>4, <1>9, MatchConcat
<1>11. QED
  BY <1>8, <1>9, <1>10, PeerFacts DEF Fit, C, P

-----------------------------------------------------------------------------
\* The sizes things are made in.

\* Division rounds down ...
LEMMA DivFacts ==
  ASSUME NEW x \in Int, NEW y \in Nat \ {0}
  PROVE  /\ x \div y \in Int /\ x % y \in 0 .. y - 1
         /\ y * (x \div y) <= x /\ x < y * (x \div y) + y
OBVIOUS

\* ... and DivCeil up.
LEMMA DivCeilFacts ==
  ASSUME NEW x \in Int, NEW y \in Nat \ {0}
  PROVE  /\ DivCeil(x, y) \in Int
         /\ x <= y * DivCeil(x, y) /\ y * DivCeil(x, y) < x + y
         /\ x > 0 => DivCeil(x, y) > 0
<1> DEFINE z == x + y - 1
<1>1. z \in Int
  OBVIOUS
<1> HIDE DEF z
<1>2. z \div y \in Int /\ y * (z \div y) <= z /\ z < y * (z \div y) + y
  BY <1>1, DivFacts
<1>3. DivCeil(x, y) = z \div y
  BY DEF DivCeil, z
<1>4. x <= y * (z \div y) /\ y * (z \div y) < x + y
  BY <1>2 DEF z
<1>5. x > 0 => z \div y > 0
  <2>1. ASSUME x > 0, ~(z \div y > 0)
        PROVE  FALSE
    <3>1. PICK k \in Int : k = z \div y
      BY <1>2
    <3>2. k <= 0 /\ x <= y * k
      BY <1>4, <2>1, <3>1
    <3>3. y * k <= 0
      BY <3>2
    <3>4. QED
      BY <2>1, <3>2, <3>3
  <2>2. QED
    BY <2>1, <1>2
<1>6. QED
  BY <1>2, <1>3, <1>4, <1>5

\* Two elements and more need OTs.
LEMMA Log2Facts ==
  ASSUME NEW n \in Nat
  PROVE  Log2Ceil(n) \in Nat /\ (n >= 2 => Log2Ceil(n) > 0)
<1> DEFINE S == {k \in 0 .. n : 2 ^ k < n}
<1>1. IsFiniteSet(S)
  <2>1. S \in SUBSET (0 .. n)
    OBVIOUS
  <2>2. IsFiniteSet(0 .. n)
    BY FS_Interval
  <2> HIDE DEF S
  <2>3. QED
    BY <2>1, <2>2, FS_Subset
<1>2. Cardinality(S) \in Nat
  BY <1>1, FS_CardinalityType
<1>3. ASSUME n >= 2
      PROVE  0 \in S
  <2>1. 2 ^ 0 = 1
    OBVIOUS
  <2>2. QED
    BY <1>3, <2>1
<1>4. S # {} => Cardinality(S) > 0
  BY <1>1, <1>2, FS_EmptySet
<1>5. QED
  BY <1>2, <1>3, <1>4 DEF Log2Ceil

\* The sizes of shuffles and of their parts.
LEMMA SizeFacts ==
  ASSUME NEW n \in Nat
  PROVE  /\ Depth(n) \in Int /\ n \div BlockSize \in Nat /\ Total(n) \in Int
         /\ RequiredOt(n) \in Nat /\ SgrrOtExtHelper(n) \in Nat
         /\ n >= 2 => RequiredOt(n) > 0 /\ DelayRound(n) \in Nat \ {0}
<1>1. BlockSize \in Nat \ {0} /\ BlockSize >= 2
  BY TranslationScriptsAssumption
<1>2. Log2Ceil(n) \in Nat /\ Log2Ceil(BlockSize) \in Nat \ {0}
  BY <1>1, Log2Facts
<1>3. Depth(n) \in Int
  <2>1. DivCeil(Log2Ceil(n), Log2Ceil(BlockSize)) \in Int
    BY <1>2, DivCeilFacts
  <2>2. QED
    BY <2>1 DEF Depth
<1>4. n \div BlockSize \in Nat
  <2>1. PICK k \in Int : k = n \div BlockSize /\ n < BlockSize * k + BlockSize
    BY <1>1, DivFacts
  <2>2. k >= 0
    <3>1. ASSUME k <= -1
          PROVE  FALSE
      <4>1. BlockSize * k <= -BlockSize
        BY <1>1, <3>1
      <4>2. QED
        BY <1>1, <2>1, <4>1
    <3>2. QED
      BY <3>1
  <2>3. QED
    BY <2>1, <2>2
<1>5. Total(n) \in Int
  BY <1>3, <1>4 DEF Total
<1>6. RequiredOt(n) \in Nat /\ SgrrOtExtHelper(n) \in Nat
  BY <1>2 DEF RequiredOt, SgrrOtExtHelper
<1>7. n >= 2 => RequiredOt(n) > 0
  <2>1. \A a, b \in Nat : a > 0 /\ b > 0 => a * b > 0
    OBVIOUS
  <2>2. QED
    BY <1>2, <2>1, Log2Facts DEF RequiredOt
<1>8. n >= 2 => DelayRound(n) \in Nat \ {0}
  <2>1. BatchMax \in Nat /\ BatchMax > 0
    BY TranslationScriptsAssumption
  <2>2. SUFFICES ASSUME n >= 2
                 PROVE  DivCeil(BatchMax, RequiredOt(n)) \in Nat \ {0}
    BY DEF DelayRound
  <2>3. RequiredOt(n) \in Nat \ {0} /\ BatchMax \in Int
    BY <1>6, <1>7, <2>1, <2>2
  <2>4. /\ DivCeil(BatchMax, RequiredOt(n)) \in Int
        /\ BatchMax > 0 => DivCeil(BatchMax, RequiredOt(n)) > 0
    BY <2>3, DivCeilFacts
  <2>5. QED
    BY <2>1, <2>4
<1>9. QED
  BY <1>3, <1>4, <1>5, <1>6, <1>7, <1>8

\* The parts of something are smaller.
LEMMA PartsFacts ==
  ASSUME NEW total \in Int, NEW size \in Nat \ {0}
  PROVE  /\ DOMAIN Parts(total, size) = 1 .. DivCeil(total, size)
         /\ DivCeil(total, size) \in Int
         /\ \A i \in DOMAIN Parts(total, size) : Parts(total, size)[i] \in Nat
<1> DEFINE k == DivCeil(total, size)
<1>1. k \in Int /\ size * k < total + size
  BY DivCeilFacts
<1> HIDE DEF k
<1>2. ASSUME NEW i \in 1 .. k, ~(i * size <= total)
      PROVE  total - (i - 1) * size \in Nat
  <2>1. size * i <= size * k
    BY <1>1
  <2>2. (i - 1) * size = size * i - size
    BY <1>1
  <2>3. QED
    BY <1>1, <2>1, <2>2
<1>3. \A i \in 1 .. k :
        (IF i * size <= total THEN size ELSE total - (i - 1) * size) \in Nat
  BY <1>2
<1>4. QED
  BY <1>1, <1>3 DEF Parts, k

\* So are the batches of triples.
LEMMA BatchesFacts ==
  ASSUME NEW n \in Nat
  PROVE  /\ DOMAIN Batches(n) = 1 .. DivCeil(n, TripleBatch)
         /\ DivCeil(n, TripleBatch) \in Int
         /\ \A i \in DOMAIN Batches(n) : Batches(n)[i] \in Nat
<1>1. TripleBatch \in Nat \ {0}
  BY ScriptsAssumption
<1>2. DivCeil(n, TripleBatch) \in Int
  BY <1>1, DivCeilFacts
<1>3. n % TripleBatch \in Nat
  BY <1>1, DivFacts
<1>4. QED
  BY <1>1, <1>2, <1>3 DEF Batches

-----------------------------------------------------------------------------
\* Calls, series of scripts and batches of messages.

\* Functions called together.
LEMMA TwinFacts ==
  /\ \A f \in Whole \cup WholeStateful : <<f, f>> \in Twins
  /\ \A h \in Halves \cup HalvesStateful :
       <<h[1], h[2]>> \in Twins /\ <<h[2], h[1]>> \in Twins
<1>1. \A h \in Halves \cup HalvesStateful : <<h[1], h[2]>> = h
  BY DEF Halves, HalvesStateful
<1>2. QED
  BY <1>1 DEF Twins

\* Both ranks call the same ...
LEMMA FitWhole ==
  ASSUME NEW p \in Ranks, NEW f \in Whole \cup WholeStateful, NEW n \in Nat,
         f # "OptSShuffleA"
  PROVE  Fit(p, Call(f, n), Call(f, n))
<1>1. f \notin OfTwo
  BY DEF OfTwo, Whole, WholeStateful
<1>2. QED
  BY <1>1, TwinFacts, FitCall

\* ... or each a half.
LEMMA FitHalves ==
  ASSUME NEW p \in Ranks, NEW f, NEW g, <<f, g>> \in Halves \cup HalvesStateful,
         NEW n \in Nat, f # "DoubleASTSet"
  PROVE  Fit(p, Call(f, n), Call(g, n)) /\ Fit(p, Call(g, n), Call(f, n))
<1>1. f \notin OfTwo /\ g \notin OfTwo
  BY DEF OfTwo, Halves, HalvesStateful
<1>2. <<f, g>> \in Twins /\ <<g, f>> \in Twins
  BY TwinFacts
<1>3. QED
  BY <1>1, <1>2, FitCall

\* As many scripts as one likes.
LEMMA FitSeries ==
  ASSUME NEW p \in Ranks, NEW k \in Int, NEW F, NEW G,
         F = [i \in 1 .. k |-> F[i]], G = [i \in 1 .. k |-> G[i]],
         \A i \in 1 .. k : Fit(p, F[i], G[i])
  PROVE  Fit(p, FlattenSeq(F), FlattenSeq(G))
<1>1. CASE k <= 0
  <2>1. F = <<>> /\ G = <<>>
    BY <1>1
  <2>2. Fit(p, FlattenSeq(<<>>), FlattenSeq(<<>>))
    BY FlattenFacts, FitEmpty
  <2>3. QED
    BY <2>1, <2>2
<1>2. CASE k > 0
  <2>1. \A i \in 1 .. k : F[i] \in Seq(Steps) /\ G[i] \in Seq(Steps)
    BY DEF Fit, Match
  <2>2. k \in Nat /\ F \in [1 .. k -> Seq(Steps)] /\ G \in [1 .. k -> Seq(Steps)]
    BY <1>2, <2>1
  <2>3. F \in Seq(Seq(Steps)) /\ G \in Seq(Seq(Steps)) /\ Len(F) = k /\ Len(G) = k
    BY ONLY <2>2
  <2>4. QED
    BY <2>3, FitFlatten
<1>3. QED
  BY <1>1, <1>2

\* The same function called for the parts of something.
LEMMA FitParts ==
  ASSUME NEW p \in Ranks, NEW f, NEW g, NEW P,
         \A n \in Nat : Fit(p, Call(f, n), Call(g, n)),
         NEW k \in Int, DOMAIN P = 1 .. k, \A i \in 1 .. k : P[i] \in Nat
  PROVE  Fit(p, FlattenSeq([i \in DOMAIN P |-> Call(f, P[i])]),
                FlattenSeq([i \in DOMAIN P |-> Call(g, P[i])]))
<1> DEFINE F == [i \in DOMAIN P |-> Call(f, P[i])]
           G == [i \in DOMAIN P |-> Call(g, P[i])]
<1>1. /\ F = [i \in 1 .. k |-> F[i]] /\ G = [i \in 1 .. k |-> G[i]]
      /\ \A i \in 1 .. k : Fit(p, F[i], G[i])
  OBVIOUS
<1> HIDE DEF F, G
<1>2. Fit(p, FlattenSeq(F), FlattenSeq(G))
  BY <1>1, FitSeries
<1>3. QED
  BY <1>2 DEF F, G

\* The batches of messages, by their number: what is sent after every
\* delay-th translation and what is received before it.
LEMMA FitBatches ==
  ASSUME NEW p \in Ranks, NEW tag \in Purposes, NEW n \in Nat, n >= 2,
         NEW size \in Int, NEW total \in Nat
  PROVE  Fit(p, BatchMessageSend(tag, total, n, size),
                BatchMessageReceive(tag, total, n, size))
<1> DEFINE d == DelayRound(n)
           out == Send(tag, d * size)
           in == Recv(tag, d * size)
           Sent(i) == IF i % d = 0 THEN out ELSE <<>>
           Got(i) == IF (i - 1) % d = 0 THEN in ELSE <<>>
           S(t) == FlattenSeq([i \in 1 .. t |-> Sent(i)])
           R(t) == FlattenSeq([i \in 1 .. t |-> Got(i)])
           Left(t) == IF t % d # 0 THEN out ELSE <<>>
           Good == {t \in Nat : Fit(p, S(t) \o Left(t), R(t))}
<1>1. d \in Nat \ {0}
  BY SizeFacts
<1>2. /\ Fit(p, out, in) /\ Fit(p, <<>>, <<>>)
      /\ out \in Seq(Steps) /\ in \in Seq(Steps)
  <2>1. Fit(p, out, in)
    BY <1>1, FitSend
  <2>2. QED
    BY <2>1, FitEmpty DEF Fit, Match
<1> HIDE DEF d, out, in
<1>3. \A i \in Int : Sent(i) \in Seq(Steps) /\ Got(i) \in Seq(Steps)
  BY <1>2
<1>4. \A t \in Nat :
        /\ Sent(t + 1) \o Left(t + 1) = out
        /\ Got(t + 1) = IF t % d = 0 THEN in ELSE <<>>
        /\ Left(t) = IF t % d = 0 THEN <<>> ELSE out
  <2> SUFFICES ASSUME NEW t \in Nat
               PROVE  /\ Sent(t + 1) \o Left(t + 1) = out
                      /\ Got(t + 1) = IF t % d = 0 THEN in ELSE <<>>
                      /\ Left(t) = IF t % d = 0 THEN <<>> ELSE out
    OBVIOUS
  <2>1. out \o <<>> = out /\ <<>> \o out = out
    BY <1>2
  <2>2. (t + 1) - 1 = t
    OBVIOUS
  <2>3. QED
    BY <2>1, <2>2
<1>4a. \A t \in Nat : Left(t) \in Seq(Steps)
  BY <1>2
<1>5. Left(0) = <<>>
  <2>1. 0 % d = 0
    BY <1>1
  <2>2. QED
    BY <2>1
<1> HIDE DEF Sent, Got, Left
<1>6. \A t \in Nat :
        /\ [i \in 1 .. t |-> Sent(i)] \in Seq(Seq(Steps))
        /\ [i \in 1 .. t |-> Got(i)] \in Seq(Seq(Steps))
  <2> SUFFICES ASSUME NEW t \in Nat
               PROVE  /\ [i \in 1 .. t |-> Sent(i)] \in Seq(Seq(Steps))
                      /\ [i \in 1 .. t |-> Got(i)] \in Seq(Seq(Steps))
    OBVIOUS
  <2>1. \A i \in 1 .. t : Sent(i) \in Seq(Steps) /\ Got(i) \in Seq(Steps)
    BY <1>3
  <2>2. QED
    BY <2>1
<1>7. \A t \in Nat : S(t) \in Seq(Steps) /\ R(t) \in Seq(Steps)
  BY <1>6, FlattenFacts
<1>8. S(0) = <<>> /\ R(0) = <<>>
  <2>1. [i \in 1 .. 0 |-> Sent(i)] = <<>> /\ [i \in 1 .. 0 |-> Got(i)] = <<>>
    OBVIOUS
  <2>2. QED
    BY <2>1, FlattenFacts
<1>9. ASSUME NEW t \in Nat
      PROVE  S(t + 1) = S(t) \o Sent(t + 1) /\ R(t + 1) = R(t) \o Got(t + 1)
  <2> DEFINE A == [i \in 1 .. t + 1 |-> Sent(i)]
             B == [i \in 1 .. t + 1 |-> Got(i)]
  <2>1. /\ A \in Seq(Seq(Steps)) /\ Len(A) = t + 1 /\ A[t + 1] = Sent(t + 1)
        /\ [i \in 1 .. t |-> A[i]] = [i \in 1 .. t |-> Sent(i)]
    BY <1>6
  <2>2. /\ B \in Seq(Seq(Steps)) /\ Len(B) = t + 1 /\ B[t + 1] = Got(t + 1)
        /\ [i \in 1 .. t |-> B[i]] = [i \in 1 .. t |-> Got(i)]
    BY <1>6
  <2> HIDE DEF A, B
  <2>3. FlattenSeq(A) = FlattenSeq([i \in 1 .. t |-> A[i]]) \o A[t + 1]
    BY <2>1, FlattenLast
  <2>4. FlattenSeq(B) = FlattenSeq([i \in 1 .. t |-> B[i]]) \o B[t + 1]
    BY <2>2, FlattenLast
  <2>5. QED
    BY <2>1, <2>2, <2>3, <2>4 DEF A, B
<1> HIDE DEF S, R
<1>10. \A s \in Seq(Steps) : s \o <<>> = s
  OBVIOUS
<1>11. 0 \in Good
  <2>1. S(0) \o Left(0) = <<>>
    BY <1>5, <1>8
  <2>2. Fit(p, S(0) \o Left(0), R(0))
    BY <1>2, <1>8, <2>1
  <2>3. QED
    BY <2>2
<1>12. ASSUME NEW t \in Nat, t \in Good
       PROVE  t + 1 \in Good
  <2>1. S(t + 1) \o Left(t + 1) = S(t) \o out
    <3>1. Sent(t + 1) \in Seq(Steps) /\ Left(t + 1) \in Seq(Steps)
      BY <1>3, <1>4a
    <3>2. (S(t) \o Sent(t + 1)) \o Left(t + 1) = S(t) \o (Sent(t + 1) \o Left(t + 1))
      <4>1. PICK a, b, c \in Seq(Steps) : a = S(t) /\ b = Sent(t + 1) /\ c = Left(t + 1)
        BY <1>7, <3>1
      <4>2. (a \o b) \o c = a \o (b \o c)
        BY ConcatAssociative
      <4>3. QED
        BY <4>1, <4>2
    <3>3. QED
      BY <1>4, <1>9, <3>2
  <2>2. CASE t % d = 0
    <3>1. R(t + 1) = R(t) \o in /\ Left(t) = <<>>
      BY <1>4, <1>9, <2>2
    <3>2. Fit(p, S(t), R(t))
      BY <1>7, <1>10, <1>12, <3>1
    <3>3. Fit(p, S(t) \o out, R(t) \o in)
      BY <1>2, <3>2, FitConcat
    <3>4. Fit(p, S(t + 1) \o Left(t + 1), R(t + 1))
      BY <2>1, <3>1, <3>3
    <3>5. QED
      BY <3>4
  <2>3. CASE t % d # 0
    <3>1. R(t + 1) = R(t) /\ Left(t) = out
      BY <1>4, <1>7, <1>9, <1>10, <2>3
    <3>2. Fit(p, S(t) \o out, R(t))
      BY <1>12, <3>1
    <3>3. Fit(p, S(t + 1) \o Left(t + 1), R(t + 1))
      BY <2>1, <3>1, <3>2
    <3>4. QED
      BY <3>3
  <2>4. QED
    BY <2>2, <2>3
<1> HIDE DEF Good
<1>13. total \in Good
  BY <1>11, <1>12, NatSetInduction
<1>14. QED
  BY <1>13
     DEF Good, S, R, Sent, Got, Left, d, out, in, BatchMessageSend, BatchMessageReceive

-----------------------------------------------------------------------------
\* VOLE adapters.

\* The noise of an extension.
LEMMA FitMpVole ==
  ASSUME NEW p \in Ranks
  PROVE  /\ Fit(p, MpVoleSend, MpVoleRecv)
         /\ Fit(p, MpVoleRecv, MpVoleSend)
<1>1. ASSUME NEW q \in Ranks
      PROVE  Fit(q, MpVoleSend, MpVoleRecv)
  BY FitConcat, FitTimes, FitSend, PurposeFacts, ScriptsAssumption
     DEF MpVoleSend, MpVoleRecv
<1>2. QED
  BY <1>1, FitBack, PeerFacts

\* An extension.
LEMMA FitBootstrap ==
  ASSUME NEW p \in Ranks
  PROVE  /\ Fit(p, BootstrapSend(p), BootstrapRecv(Peer(p)))
         /\ Fit(p, BootstrapRecv(p), BootstrapSend(Peer(p)))
<1>1. ASSUME NEW q \in Ranks
      PROVE  Fit(q, BootstrapSend(q), BootstrapRecv(Peer(q)))
  BY FitConcat, FitMpVole, FitOtCall, FitSyncSeed, FitSend, PurposeFacts, PeerFacts,
     ScriptsAssumption DEF BootstrapSend, BootstrapRecv
<1>2. QED
  BY <1>1, FitBack, PeerFacts

\* The base of an adapter ...
LEMMA FitBaseVole ==
  ASSUME NEW p \in Ranks
  PROVE  /\ Fit(p, BaseVoleSend(p), BaseVoleRecv(Peer(p)))
         /\ Fit(p, BaseVoleRecv(p), BaseVoleSend(Peer(p)))
<1>1. ASSUME NEW q \in Ranks
      PROVE  Fit(q, BaseVoleSend(q), BaseVoleRecv(Peer(q)))
  BY FitConcat, FitOtCall, FitSyncSeed, FitSend, PurposeFacts, PeerFacts,
     ScriptsAssumption DEF BaseVoleSend, BaseVoleRecv
<1>2. QED
  BY <1>1, FitBack, PeerFacts

\* ... and a silent VOLE over it.
LEMMA FitSilentVole ==
  ASSUME NEW p \in Ranks
  PROVE  /\ Fit(p, SilentVoleSend(p), SilentVoleRecv(Peer(p)))
         /\ Fit(p, SilentVoleRecv(p), SilentVoleSend(Peer(p)))
<1>1. ASSUME NEW q \in Ranks
      PROVE  Fit(q, SilentVoleSend(q), SilentVoleRecv(Peer(q)))
  BY FitConcat, FitMpVole, FitOtCall, FitSyncSeed, FitSend, PurposeFacts, PeerFacts,
     ScriptsAssumption DEF SilentVoleSend, SilentVoleRecv
<1>2. QED
  BY <1>1, FitBack, PeerFacts

\* The two together.
LEMMA FitFreshVole ==
  ASSUME NEW p \in Ranks
  PROVE  /\ Fit(p, FreshVoleSend(p), FreshVoleRecv(Peer(p)))
         /\ Fit(p, FreshVoleRecv(p), FreshVoleSend(Peer(p)))
<1>1. ASSUME NEW q \in Ranks
      PROVE  Fit(q, FreshVoleSend(q), FreshVoleRecv(Peer(q)))
  BY FitConcat, FitBaseVole, FitSilentVole DEF FreshVoleSend, FreshVoleRecv
<1>2. QED
  BY <1>1, FitBack, PeerFacts

\* The set-up of an adapter ...
LEMMA FitVoleSetup ==
  ASSUME NEW p \in Ranks
  PROVE  /\ Fit(p, VoleSetupSend(p), VoleSetupRecv(Peer(p)))
         /\ Fit(p, VoleSetupRecv(p), VoleSetupSend(Peer(p)))
<1>1. ASSUME NEW q \in Ranks
      PROVE  Fit(q, VoleSetupSend(q), VoleSetupRecv(Peer(q)))
  BY FitConcat, FitBaseVole, FitBootstrap DEF VoleSetupSend, VoleSetupRecv
<1>2. QED
  BY <1>1, FitBack, PeerFacts

\* ... and of the two of a kind.
LEMMA FitInitVole ==
  ASSUME NEW p \in Ranks
  PROVE  Fit(p, InitVoleAdapter(p), InitVoleAdapter(Peer(p)))
<1>1. CASE p = 0
  BY <1>1, FitVoleSetup, FitConcat, PeerFacts DEF InitVoleAdapter
<1>2. CASE p = 1
  BY <1>2, FitVoleSetup, FitConcat, PeerFacts DEF InitVoleAdapter
<1>3. QED
  BY <1>1, <1>2 DEF Ranks

-----------------------------------------------------------------------------
\* The generations, for all sizes.

\* The calls that occur in scripts.
LEMMA CalledFacts ==
  /\ <<"RandomSet", "RandomGet">> \in Halves \cup HalvesStateful
  /\ <<"RandomVoleSet", "RandomVoleGet">> \in Halves \cup HalvesStateful
  /\ <<"ShuffleSet", "ShuffleGet">> \in Halves \cup HalvesStateful
  /\ <<"ASTSend", "ASTRecv">> \in Halves \cup HalvesStateful
  /\ <<"ASTSet", "ASTGet">> \in Halves \cup HalvesStateful
  /\ <<"DoubleASTSetRound", "DoubleASTGetRound">> \in Halves \cup HalvesStateful
  /\ <<"SetRound", "GetRound">> \in Halves \cup HalvesStateful
  /\ <<"DoubleSetRound_2k", "DoubleGetRound_2k">> \in Halves \cup HalvesStateful
  /\ <<"_DoubleSetMerge", "_DoubleGetMerge">> \in Halves \cup HalvesStateful
  /\ <<"_DoubleSetLayer", "_DoubleGetLayer">> \in Halves \cup HalvesStateful
  /\ <<"ASTSet_batch_basic_2k", "ASTGet_batch_basic_2k">> \in Halves \cup HalvesStateful
  /\ <<"DoubleASTSet_batch_basic_2k", "DoubleASTGet_batch_basic_2k">>
       \in Halves \cup HalvesStateful
  /\ <<"_DoubleASTSet_batch_basic_2k", "_DoubleASTGet_batch_basic_2k">>
       \in Halves \cup HalvesStateful
  /\ <<"ASTSet_2k", "ASTGet_2k">> \in Halves \cup HalvesStateful
  /\ <<"DoubleASTSet_2k", "DoubleASTGet_2k">> \in Halves \cup HalvesStateful
  /\ <<"_DoubleASTSet_2k", "_DoubleASTGet_2k">> \in Halves \cup HalvesStateful
  /\ <<"BatchShuffleSet", "BatchShuffleGet">> \in Halves \cup HalvesStateful
  /\ <<"_BatchShuffleSet", "_BatchShuffleGet">> \in Halves \cup HalvesStateful
  /\ "RandomAuth" \in Whole \cup WholeStateful
  /\ "ProductTree" \in Whole \cup WholeStateful
  /\ "Inv" \in Whole \cup WholeStateful /\ "BeaverTriple" \in Whole \cup WholeStateful
  /\ "NMul" \in Whole \cup WholeStateful /\ "Prg" \in Whole \cup WholeStateful
  /\ "cr.DelayCheck" \in Whole \cup WholeStateful /\ "RandA" \in Whole \cup WholeStateful
<1>1. /\ "cr.DelayCheck" \in WholeStateful
      /\ <<"RandomSet", "RandomGet">> \in HalvesStateful
      /\ <<"RandomVoleSet", "RandomVoleGet">> \in HalvesStateful
  BY DEF WholeStateful, HalvesStateful
<1>2. QED
  BY <1>1 DEF Whole, Halves

\* The buffers.
LEMMA BufferFacts ==
  /\ "line" \in CheckBuffers /\ "delay" \in CheckBuffers /\ "double" \in CheckBuffers
  /\ "check" \in CheckBuffers /\ "ndss" \in CheckBuffers /\ "now" \in CheckBuffers
BY DEF CheckBuffers

\* Numbers of elements.
LEMMA CountFacts ==
  /\ \A m, n \in Nat : m * n \in Nat /\ m * n \in Int /\ m + n \in Nat
  /\ \A n \in Nat : n \in Int /\ n \div 2 \in Nat /\ n % 2 \in Nat
<1>1. \A n \in Nat : n \div 2 \in Nat /\ n % 2 \in Nat
  OBVIOUS
<1>2. QED
  BY <1>1

\* Random shares.
LEMMA FitRandomAuth ==
  ASSUME NEW p \in Ranks, NEW n \in Nat
  PROVE  Fit(p, RandomAuth(p, n), RandomAuth(Peer(p), n))
BY FitConcat, FitHalves, CalledFacts, PeerFacts DEF RandomAuth, Ranks

\* The shares of what one rank has.
LEMMA FitAuth ==
  ASSUME NEW p \in Ranks, NEW n \in Nat
  PROVE  /\ Fit(p, AuthSet(n), AuthGet(n))
         /\ Fit(p, AuthGet(n), AuthSet(n))
<1>1. ASSUME NEW q \in Ranks
      PROVE  Fit(q, AuthSet(n), AuthGet(n))
  BY FitConcat, FitHalves, CalledFacts, FitSend, PurposeFacts, CountFacts
     DEF AuthSet, AuthGet
<1>2. QED
  BY <1>1, FitBack, PeerFacts

\* And of what both have.
LEMMA FitAuthBoth ==
  ASSUME NEW p \in Ranks, NEW n \in Nat
  PROVE  Fit(p, AuthBoth(p, n), AuthBoth(Peer(p), n))
BY FitConcat, FitAuth, PeerFacts DEF AuthBoth, Ranks

\* An opening.
LEMMA FitOpening ==
  ASSUME NEW p \in Ranks, NEW n \in Nat
  PROVE  Fit(p, OpenAndDelayCheck(p, n), OpenAndDelayCheck(Peer(p), n))
BY FitConcat, FitExchange, FitLocal, PurposeFacts, BufferFacts, CountFacts
   DEF OpenAndDelayCheck

\* A product of what the ranks have.
LEMMA FitMulPP ==
  ASSUME NEW p \in Ranks, NEW n \in Nat
  PROVE  /\ Fit(p, MulPPExtendSendWithChosenB(p, n),
                MulPPExtendRecvWithChosenB(Peer(p), n))
         /\ Fit(p, MulPPExtendRecvWithChosenB(p, n),
                MulPPExtendSendWithChosenB(Peer(p), n))
<1>1. ASSUME NEW q \in Ranks
      PROVE  Fit(q, MulPPExtendSendWithChosenB(q, n),
                 MulPPExtendRecvWithChosenB(Peer(q), n))
  BY FitConcat, FitOtCall, FitSyncSeed, FitSend, PurposeFacts, PeerFacts, CountFacts
     DEF MulPPExtendSendWithChosenB, MulPPExtendRecvWithChosenB
<1>2. QED
  BY <1>1, FitBack, PeerFacts

\* Both of them.
LEMMA FitTripleExtend ==
  ASSUME NEW p \in Ranks, NEW n \in Nat
  PROVE  Fit(p, BeaverTripleExtendWithChosenB(p, n),
             BeaverTripleExtendWithChosenB(Peer(p), n))
BY FitConcat, FitMulPP, PeerFacts DEF BeaverTripleExtendWithChosenB, Ranks

\* The check of triples.
LEMMA FitTripleCheck ==
  ASSUME NEW p \in Ranks, NEW n \in Nat
  PROVE  Fit(p, TripleCheck(p, n), TripleCheck(Peer(p), n))
BY FitConcat, FitSyncSeed, FitOpening, FitExchange, PurposeFacts, CountFacts
   DEF TripleCheck

\* Triples of given factors.
LEMMA FitChosenTriple ==
  ASSUME NEW p \in Ranks, NEW n \in Nat
  PROVE  Fit(p, BeaverTripleWithChosenB(p, n), BeaverTripleWithChosenB(Peer(p), n))
BY FitConcat, FitTripleExtend, FitAuthBoth, FitTripleCheck, CountFacts
   DEF BeaverTripleWithChosenB

\* Triples, in batches.
LEMMA FitTriple ==
  ASSUME NEW p \in Ranks, NEW n \in Nat
  PROVE  Fit(p, BeaverTriple(p, n), BeaverTriple(Peer(p), n))
<1> DEFINE F == [i \in DOMAIN Batches(n) |->
                  BeaverTripleExtendWithChosenB(p, Batches(n)[i])]
           G == [i \in DOMAIN Batches(n) |->
                  BeaverTripleExtendWithChosenB(Peer(p), Batches(n)[i])]
           k == DivCeil(n, TripleBatch)
<1>1. /\ k \in Int /\ DOMAIN Batches(n) = 1 .. k
      /\ \A i \in 1 .. k : Batches(n)[i] \in Nat
  BY BatchesFacts
<1> HIDE DEF k
<1>2. /\ F = [i \in 1 .. k |-> F[i]] /\ G = [i \in 1 .. k |-> G[i]]
      /\ \A i \in 1 .. k : Fit(p, F[i], G[i])
  BY <1>1, FitTripleExtend
<1> HIDE DEF F, G
<1>3. Fit(p, FlattenSeq(F), FlattenSeq(G))
  BY <1>1, <1>2, FitSeries
<1>4. QED
  BY <1>3, FitConcat, FitAuthBoth, FitTripleCheck, CountFacts DEF BeaverTriple, F, G

\* Products.
LEMMA FitMul ==
  ASSUME NEW p \in Ranks, NEW n \in Nat
  PROVE  Fit(p, Mul(p, n), Mul(Peer(p), n))
<1> DEFINE F == [i \in DOMAIN Batches(n) |-> BeaverTripleWithChosenB(p, Batches(n)[i])]
           G == [i \in DOMAIN Batches(n) |->
                  BeaverTripleWithChosenB(Peer(p), Batches(n)[i])]
           k == DivCeil(n, TripleBatch)
<1>1. /\ k \in Int /\ DOMAIN Batches(n) = 1 .. k
      /\ \A i \in 1 .. k : Batches(n)[i] \in Nat
  BY BatchesFacts
<1> HIDE DEF k
<1>2. /\ F = [i \in 1 .. k |-> F[i]] /\ G = [i \in 1 .. k |-> G[i]]
      /\ \A i \in 1 .. k : Fit(p, F[i], G[i])
  BY <1>1, FitChosenTriple
<1> HIDE DEF F, G
<1>3. Fit(p, FlattenSeq(F), FlattenSeq(G))
  BY <1>1, <1>2, FitSeries
<1>4. QED
  BY <1>3, FitConcat, FitOpening, CountFacts DEF Mul, F, G

\* The product of many.
LEMMA FitProductTree ==
  ASSUME NEW p \in Ranks, NEW n \in Nat
  PROVE  Fit(p, ProductTree(p, n), ProductTree(Peer(p), n))
BY FitConcat, FitMul, FitWhole, FitEmpty, CalledFacts, CountFacts DEF ProductTree

\* Inverses.
LEMMA FitInv ==
  ASSUME NEW p \in Ranks, NEW n \in Nat
  PROVE  Fit(p, Inv(p, n), Inv(Peer(p), n))
BY FitConcat, FitRandomAuth, FitMul, FitOpening DEF Inv

\* Factors with a known product.
LEMMA FitNMul ==
  ASSUME NEW p \in Ranks, NEW n \in Nat
  PROVE  Fit(p, NMul(p, n), NMul(Peer(p), n))
BY FitConcat, FitRandomAuth, FitThrow, FitWhole, CalledFacts DEF NMul

\* The check of a shuffle.
LEMMA FitShuffleCheck ==
  ASSUME NEW p \in Ranks, NEW n \in Nat
  PROVE  /\ Fit(p, ShuffleSend_check(p, n), ShuffleRecv_check(Peer(p), n))
         /\ Fit(p, ShuffleRecv_check(p, n), ShuffleSend_check(Peer(p), n))
<1>1. ASSUME NEW q \in Ranks
      PROVE  Fit(q, ShuffleSend_check(q, n), ShuffleRecv_check(Peer(q), n))
  BY FitConcat, FitExchange, FitSend, PurposeFacts, CountFacts
     DEF ShuffleSend_check, ShuffleRecv_check
<1>2. QED
  BY <1>1, FitBack, PeerFacts

\* A shuffle ...
LEMMA FitShuffle ==
  ASSUME NEW p \in Ranks, NEW n \in Nat
  PROVE  /\ Fit(p, ShuffleSet(p, n), ShuffleGet(Peer(p), n))
         /\ Fit(p, ShuffleGet(p, n), ShuffleSet(Peer(p), n))
<1>1. ASSUME NEW q \in Ranks
      PROVE  Fit(q, ShuffleSet(q, n), ShuffleGet(Peer(q), n))
  BY FitConcat, FitOtCall, FitTimes, FitSend, FitShuffleCheck, PurposeFacts, PeerFacts,
     CountFacts DEF ShuffleSet, ShuffleGet
<1>2. QED
  BY <1>1, FitBack, PeerFacts

\* ... and a translation.
LEMMA FitASTSend ==
  ASSUME NEW p \in Ranks, NEW n \in Nat
  PROVE  /\ Fit(p, ASTSend(p, n), ASTRecv(Peer(p), n))
         /\ Fit(p, ASTRecv(p, n), ASTSend(Peer(p), n))
<1>1. ASSUME NEW q \in Ranks
      PROVE  Fit(q, ASTSend(q, n), ASTRecv(Peer(q), n))
  BY FitConcat, FitOtCall, FitTimes, FitSend, FitShuffleCheck, PurposeFacts, PeerFacts,
     CountFacts DEF ASTSend, ASTRecv
<1>2. QED
  BY <1>1, FitBack, PeerFacts

\* A translation made of several.
LEMMA FitASTSet ==
  ASSUME NEW p \in Ranks, NEW n \in Nat
  PROVE  /\ Fit(p, ASTSet(p, n), ASTGet(Peer(p), n))
         /\ Fit(p, ASTGet(p, n), ASTSet(Peer(p), n))
<1>1. ASSUME NEW q \in Ranks
      PROVE  Fit(q, ASTSet(q, n), ASTGet(Peer(q), n))
  BY FitConcat, FitRandomAuth, FitASTSend, FitTimes, FitWhole, FitHalves, CalledFacts,
     FitOpening, FitAuth, FitLocal, BufferFacts, CountFacts, ScriptsAssumption
     DEF ASTSet, ASTGet, AShareLineCombineDelayCheck
<1>2. QED
  BY <1>1, FitBack, PeerFacts

-----------------------------------------------------------------------------
\* Many translations at once, for all sizes.

\* Shuffles, many at once ...
LEMMA FitBatchShuffle ==
  ASSUME NEW p \in Ranks, NEW total \in Nat, NEW n \in Nat, n >= 2
  PROVE  /\ Fit(p, BatchShuffleRecv(p, total, n), BatchShuffleSend(Peer(p), total, n))
         /\ Fit(p, BatchShuffleSend(p, total, n), BatchShuffleRecv(Peer(p), total, n))
<1>1. ASSUME NEW q \in Ranks
      PROVE  Fit(q, BatchShuffleRecv(q, total, n), BatchShuffleSend(Peer(q), total, n))
  BY FitConcat, FitOtCall, FitBatches, FitShuffleCheck, SizeFacts, PurposeFacts,
     PeerFacts, CountFacts DEF BatchShuffleRecv, BatchShuffleSend
<1>2. QED
  BY <1>1, FitBack, PeerFacts

\* ... and over random OTs.
LEMMA FitSgrrShuffle ==
  ASSUME NEW p \in Ranks, NEW total \in Nat, NEW n \in Nat, n >= 2
  PROVE  /\ Fit(p, SgrrBatchShuffleRecv(p, total, n),
                SgrrBatchShuffleSend(Peer(p), total, n))
         /\ Fit(p, SgrrBatchShuffleSend(p, total, n),
                SgrrBatchShuffleRecv(Peer(p), total, n))
<1>1. ASSUME NEW q \in Ranks
      PROVE  Fit(q, SgrrBatchShuffleRecv(q, total, n),
                 SgrrBatchShuffleSend(Peer(q), total, n))
  BY FitConcat, FitOtCall, FitBatches, FitShuffleCheck, SizeFacts, PurposeFacts,
     PeerFacts, CountFacts DEF SgrrBatchShuffleRecv, SgrrBatchShuffleSend
<1>2. QED
  BY <1>1, FitBack, PeerFacts

\* Translations, many at once ...
LEMMA FitBatchAST ==
  ASSUME NEW p \in Ranks, NEW total \in Nat, NEW n \in Nat, n >= 2
  PROVE  /\ Fit(p, BatchASTRecv(p, total, n), BatchASTSend(Peer(p), total, n))
         /\ Fit(p, BatchASTSend(p, total, n), BatchASTRecv(Peer(p), total, n))
<1>1. ASSUME NEW q \in Ranks
      PROVE  Fit(q, BatchASTRecv(q, total, n), BatchASTSend(Peer(q), total, n))
  BY FitConcat, FitOtCall, FitBatches, FitShuffleCheck, SizeFacts, PurposeFacts,
     PeerFacts, CountFacts DEF BatchASTRecv, BatchASTSend
<1>2. QED
  BY <1>1, FitBack, PeerFacts

\* ... and double ones.
LEMMA FitBatchDoubleAST ==
  ASSUME NEW p \in Ranks, NEW total \in Nat, NEW n \in Nat, n >= 2
  PROVE  /\ Fit(p, BatchDoubleASTRecv(p, total, n), BatchDoubleASTSend(Peer(p), total, n))
         /\ Fit(p, BatchDoubleASTSend(p, total, n), BatchDoubleASTRecv(Peer(p), total, n))
<1>1. ASSUME NEW q \in Ranks
      PROVE  Fit(q, BatchDoubleASTRecv(q, total, n),
                 BatchDoubleASTSend(Peer(q), total, n))
  BY FitConcat, FitOtCall, FitBatches, FitShuffleCheck, SizeFacts, PurposeFacts,
     PeerFacts, CountFacts DEF BatchDoubleASTRecv, BatchDoubleASTSend
<1>2. QED
  BY <1>1, FitBack, PeerFacts

\* Products with a key of the peer.
LEMMA FitMulHelper ==
  ASSUME NEW p \in Ranks, NEW n \in Nat
  PROVE  /\ Fit(p, MulHelperSet(n), MulHelperGet(n))
         /\ Fit(p, MulHelperGet(n), MulHelperSet(n))
<1>1. ASSUME NEW q \in Ranks
      PROVE  Fit(q, MulHelperSet(n), MulHelperGet(n))
  BY FitSend, PurposeFacts, CountFacts DEF MulHelperSet, MulHelperGet
<1>2. QED
  BY <1>1, FitBack, PeerFacts

\* Two of them in one message.
LEMMA FitMulHelper2 ==
  ASSUME NEW p \in Ranks, NEW m \in Nat, NEW n \in Nat
  PROVE  /\ Fit(p, MulHelperSet2(m, n), MulHelperGet2(m, n))
         /\ Fit(p, MulHelperGet2(m, n), MulHelperSet2(m, n))
<1>1. ASSUME NEW q \in Ranks
      PROVE  Fit(q, MulHelperSet2(m, n), MulHelperGet2(m, n))
  BY FitSend, PurposeFacts, CountFacts DEF MulHelperSet2, MulHelperGet2
<1>2. QED
  BY <1>1, FitBack, PeerFacts

\* The hashes of a round.
LEMMA FitPushHashes ==
  ASSUME NEW p \in Ranks
  PROVE  Fit(p, PushHashes, PushHashes)
BY FitTimes, FitLocal, BufferFacts DEF PushHashes

\* The openings of a round.
LEMMA FitOpenFour ==
  ASSUME NEW p \in Ranks, NEW n \in Nat
  PROVE  Fit(p, OpenFour(p, n), OpenFour(Peer(p), n))
BY FitTimes, FitOpening DEF OpenFour

\* Values for the line buffer.
LEMMA FitLine ==
  ASSUME NEW p \in Ranks, NEW n \in Nat
  PROVE  Fit(p, AShareLineCombineDelayCheck(n), AShareLineCombineDelayCheck(n))
BY FitLocal, BufferFacts DEF AShareLineCombineDelayCheck

\* A round of a double translation.
LEMMA FitDoubleRound ==
  ASSUME NEW p \in Ranks, NEW n \in Nat
  PROVE  /\ Fit(p, DoubleASTSetRound(p, n), DoubleASTGetRound(Peer(p), n))
         /\ Fit(p, DoubleASTGetRound(p, n), DoubleASTSetRound(Peer(p), n))
<1>1. ASSUME NEW q \in Ranks
      PROVE  Fit(q, DoubleASTSetRound(q, n), DoubleASTGetRound(Peer(q), n))
  BY FitConcat, FitFreshVole, FitMulHelper, FitOpenFour, FitTimes, FitAuth,
     FitPushHashes, CountFacts DEF DoubleASTSetRound, DoubleASTGetRound
<1>2. QED
  BY <1>1, FitBack, PeerFacts

\* A double translation made of several.
LEMMA FitDoubleAST ==
  ASSUME NEW p \in Ranks, NEW n \in Nat, n >= 2
  PROVE  /\ Fit(p, DoubleASTSet(p, n), DoubleASTGet(Peer(p), n))
         /\ Fit(p, DoubleASTGet(p, n), DoubleASTSet(Peer(p), n))
<1>1. ASSUME NEW q \in Ranks
      PROVE  Fit(q, DoubleASTSet(q, n), DoubleASTGet(Peer(q), n))
  BY FitConcat, FitRandomAuth, FitBatchDoubleAST, FitTimes, FitHalves, CalledFacts,
     CountFacts, TranslationScriptsAssumption DEF DoubleASTSet, DoubleASTGet
<1>2. QED
  BY <1>1, FitBack, PeerFacts

\* A round of the blocks of double translations.
LEMMA FitDoubleRound_2k ==
  ASSUME NEW p \in Ranks, NEW n \in Nat
  PROVE  /\ Fit(p, DoubleSetRound_2k(p, n), DoubleGetRound_2k(Peer(p), n))
         /\ Fit(p, DoubleGetRound_2k(p, n), DoubleSetRound_2k(Peer(p), n))
<1>1. ASSUME NEW q \in Ranks
      PROVE  Fit(q, DoubleSetRound_2k(q, n), DoubleGetRound_2k(Peer(q), n))
  BY FitConcat, FitMulHelper2, FitOpenFour, FitTimes, FitAuth, FitPushHashes,
     CountFacts DEF DoubleSetRound_2k, DoubleGetRound_2k
<1>2. QED
  BY <1>1, FitBack, PeerFacts

\* Of single ones.
LEMMA FitSetRound ==
  ASSUME NEW p \in Ranks, NEW n \in Nat
  PROVE  /\ Fit(p, SetRound(p, n), GetRound(Peer(p), n))
         /\ Fit(p, GetRound(p, n), SetRound(Peer(p), n))
<1>1. ASSUME NEW q \in Ranks
      PROVE  Fit(q, SetRound(q, n), GetRound(Peer(q), n))
  BY FitConcat, FitOpening, FitAuth, FitTimes, FitLine DEF SetRound, GetRound
<1>2. QED
  BY <1>1, FitBack, PeerFacts

\* The merges ...
LEMMA FitMerge ==
  ASSUME NEW p \in Ranks, NEW n \in Nat
  PROVE  /\ Fit(p, _DoubleSetMerge(p, n), _DoubleGetMerge(Peer(p), n))
         /\ Fit(p, _DoubleGetMerge(p, n), _DoubleSetMerge(Peer(p), n))
<1>1. ASSUME NEW q \in Ranks
      PROVE  Fit(q, _DoubleSetMerge(q, n), _DoubleGetMerge(Peer(q), n))
  BY FitConcat, FitOpening, FitAuth, FitTimes, FitLine, CountFacts
     DEF _DoubleSetMerge, _DoubleGetMerge
<1>2. QED
  BY <1>1, FitBack, PeerFacts

\* ... and layers of the translations of two vectors.
LEMMA FitLayer ==
  ASSUME NEW p \in Ranks, NEW n \in Nat
  PROVE  /\ Fit(p, _DoubleSetLayer(p, n), _DoubleGetLayer(Peer(p), n))
         /\ Fit(p, _DoubleGetLayer(p, n), _DoubleSetLayer(Peer(p), n))
<1>1. ASSUME NEW q \in Ranks
      PROVE  Fit(q, _DoubleSetLayer(q, n), _DoubleGetLayer(Peer(q), n))
  BY FitConcat, FitOpening, FitAuth, FitTimes, FitLine
     DEF _DoubleSetLayer, _DoubleGetLayer
<1>2. QED
  BY <1>1, FitBack, PeerFacts

\* A batch of translations of blocks ...
LEMMA FitASTBatch ==
  ASSUME NEW p \in Ranks, NEW n \in Nat
  PROVE  /\ Fit(p, ASTSet_batch_basic_2k(p, n), ASTGet_batch_basic_2k(Peer(p), n))
         /\ Fit(p, ASTGet_batch_basic_2k(p, n), ASTSet_batch_basic_2k(Peer(p), n))
<1>1. ASSUME NEW q \in Ranks
      PROVE  Fit(q, ASTSet_batch_basic_2k(q, n), ASTGet_batch_basic_2k(Peer(q), n))
  BY FitBatchAST, FitConcat, FitRandomAuth, FitSyncSeed, FitTimes, FitHalves,
     CalledFacts, CountFacts, TranslationScriptsAssumption
     DEF ASTSet_batch_basic_2k, ASTGet_batch_basic_2k
<1>2. QED
  BY <1>1, FitBack, PeerFacts

\* ... of double ones ...
LEMMA FitDoubleASTBatch ==
  ASSUME NEW p \in Ranks, NEW n \in Nat
  PROVE  /\ Fit(p, DoubleASTSet_batch_basic_2k(p, n),
                DoubleASTGet_batch_basic_2k(Peer(p), n))
         /\ Fit(p, DoubleASTGet_batch_basic_2k(p, n),
                DoubleASTSet_batch_basic_2k(Peer(p), n))
<1>1. ASSUME NEW q \in Ranks
      PROVE  Fit(q, DoubleASTSet_batch_basic_2k(q, n),
                 DoubleASTGet_batch_basic_2k(Peer(q), n))
  BY FitBatchDoubleAST, FitFreshVole, FitConcat, FitRandomAuth, FitSyncSeed, FitTimes,
     FitHalves, CalledFacts, CountFacts, TranslationScriptsAssumption
     DEF DoubleASTSet_batch_basic_2k, DoubleASTGet_batch_basic_2k
<1>2. QED
  BY <1>1, FitBack, PeerFacts

\* ... and of those of two vectors.
LEMMA FitTwoASTBatch ==
  ASSUME NEW p \in Ranks, NEW n \in Nat
  PROVE  /\ Fit(p, _DoubleASTSet_batch_basic_2k(p, n),
                _DoubleASTGet_batch_basic_2k(Peer(p), n))
         /\ Fit(p, _DoubleASTGet_batch_basic_2k(p, n),
                _DoubleASTSet_batch_basic_2k(Peer(p), n))
<1>1. ASSUME NEW q \in Ranks
      PROVE  Fit(q, _DoubleASTSet_batch_basic_2k(q, n),
                 _DoubleASTGet_batch_basic_2k(Peer(q), n))
  BY FitBatchDoubleAST, FitConcat, FitRandomAuth, FitSyncSeed, FitTimes, FitHalves,
     CalledFacts, CountFacts, TranslationScriptsAssumption
     DEF _DoubleASTSet_batch_basic_2k, _DoubleASTGet_batch_basic_2k
<1>2. QED
  BY <1>1, FitBack, PeerFacts

\* A function called for every batch of blocks.
LEMMA FitInBatches ==
  ASSUME NEW p \in Ranks, NEW n \in Nat, NEW B \in Nat \ {0}, NEW f, NEW g,
         <<f, g>> \in Halves \cup HalvesStateful, f # "DoubleASTSet"
  PROVE  Fit(p, InBatches(n, B, f), InBatches(n, B, g))
<1>0. \A m \in Nat : Fit(p, Call(f, m), Call(g, m))
  BY FitHalves
<1> DEFINE ots == RequiredOt(BlockSize) * B
           size == DivCeil(BatchOts, ots)
           P == Parts(Total(n), size)
           k == DivCeil(Total(n), size)
<1>1. ots \in Nat \ {0}
  <2>1. RequiredOt(BlockSize) \in Nat \ {0} /\ B \in Nat \ {0}
    BY SizeFacts, TranslationScriptsAssumption
  <2>2. \A a, b \in Nat \ {0} : a * b \in Nat \ {0}
    OBVIOUS
  <2>3. QED
    BY <2>1, <2>2
<1>2. size \in Nat \ {0}
  <2>1. BatchOts \in Int /\ BatchOts > 0
    BY TranslationScriptsAssumption
  <2> HIDE DEF ots
  <2>2. size \in Int /\ size > 0
    BY <1>1, <2>1, DivCeilFacts
  <2>3. QED
    BY <2>2
<1> HIDE DEF ots, size
<1>3. k \in Int /\ DOMAIN P = 1 .. k /\ \A i \in 1 .. k : P[i] \in Nat
  <2>1. Total(n) \in Int
    BY SizeFacts
  <2>2. QED
    BY <1>2, <2>1, PartsFacts
<1> HIDE DEF P, k
<1>4. Fit(p, FlattenSeq([i \in DOMAIN P |-> Call(f, P[i])]),
             FlattenSeq([i \in DOMAIN P |-> Call(g, P[i])]))
  BY <1>0, <1>3, FitParts
<1>5. QED
  BY <1>4 DEF InBatches, Batches_2k, P, size, ots

\* Translations out of translations of blocks ...
LEMMA FitAST_2k ==
  ASSUME NEW p \in Ranks, NEW n \in Nat
  PROVE  /\ Fit(p, ASTSet_2k(n), ASTGet_2k(n))
         /\ Fit(p, ASTGet_2k(n), ASTSet_2k(n))
<1>1. ASSUME NEW q \in Ranks
      PROVE  Fit(q, ASTSet_2k(n), ASTGet_2k(n))
  <2>1. Fit(q, InBatches(n, CallRounds, "ASTSet_batch_basic_2k"),
               InBatches(n, CallRounds, "ASTGet_batch_basic_2k"))
    BY FitInBatches, CalledFacts, TranslationScriptsAssumption
  <2>2. Fit(q, Times(Depth(n) - 1, Call("SetRound", n)),
               Times(Depth(n) - 1, Call("GetRound", n)))
    BY FitTimes, FitHalves, CalledFacts, SizeFacts
  <2>3. QED
    BY <2>1, <2>2, FitConcat DEF ASTSet_2k, ASTGet_2k
<1>2. QED
  BY <1>1, FitBack, PeerFacts

\* ... double ones ...
LEMMA FitDoubleAST_2k ==
  ASSUME NEW p \in Ranks, NEW n \in Nat
  PROVE  /\ Fit(p, DoubleASTSet_2k(p, n), DoubleASTGet_2k(Peer(p), n))
         /\ Fit(p, DoubleASTGet_2k(p, n), DoubleASTSet_2k(Peer(p), n))
<1>1. ASSUME NEW q \in Ranks
      PROVE  Fit(q, DoubleASTSet_2k(q, n), DoubleASTGet_2k(Peer(q), n))
  <2>1. Fit(q, Times(2, FreshVoleRecv(q)), Times(2, FreshVoleSend(Peer(q))))
    BY FitTimes, FitFreshVole
  <2>2. Fit(q, InBatches(n, MergeRounds, "DoubleASTSet_batch_basic_2k"),
               InBatches(n, MergeRounds, "DoubleASTGet_batch_basic_2k"))
    BY FitInBatches, CalledFacts, TranslationScriptsAssumption
  <2>3. Fit(q, Times(Depth(n) - 1, Call("DoubleSetRound_2k", n)),
               Times(Depth(n) - 1, Call("DoubleGetRound_2k", n)))
    BY FitTimes, FitHalves, CalledFacts, SizeFacts
  <2>4. QED
    BY <2>1, <2>2, <2>3, FitConcat DEF DoubleASTSet_2k, DoubleASTGet_2k
<1>2. QED
  BY <1>1, FitBack, PeerFacts

\* ... and those of two vectors.
LEMMA FitTwoAST_2k ==
  ASSUME NEW p \in Ranks, NEW n \in Nat
  PROVE  /\ Fit(p, _DoubleASTSet_2k(n), _DoubleASTGet_2k(n))
         /\ Fit(p, _DoubleASTGet_2k(n), _DoubleASTSet_2k(n))
<1>1. ASSUME NEW q \in Ranks
      PROVE  Fit(q, _DoubleASTSet_2k(n), _DoubleASTGet_2k(n))
  <2>1. Fit(q, InBatches(n, CallRounds, "_DoubleASTSet_batch_basic_2k"),
               InBatches(n, CallRounds, "_DoubleASTGet_batch_basic_2k"))
    BY FitInBatches, CalledFacts, TranslationScriptsAssumption
  <2>2. Fit(q, Times(Depth(n) - 1, Call("_DoubleSetLayer", n)),
               Times(Depth(n) - 1, Call("_DoubleGetLayer", n)))
    BY FitTimes, FitHalves, CalledFacts, SizeFacts
  <2>3. QED
    BY <2>1, <2>2, FitConcat DEF _DoubleASTSet_2k, _DoubleASTGet_2k
<1>2. QED
  BY <1>1, FitBack, PeerFacts

-----------------------------------------------------------------------------
\* The operations on shares, for all sizes.

\* A request both ranks make ...
LEMMA FitRequest ==
  ASSUME NEW p \in Ranks, NEW n \in Nat, NEW f \in Whole \cup WholeStateful,
         f # "OptSShuffleA"
  PROVE  Fit(p, Request(f, n), Request(f, n))
<1>1. Fit(p, Call(f, n), Call(f, n))
  BY FitWhole
<1>2. Fit(p, Call("cr.DelayCheck", 0), Call("cr.DelayCheck", 0))
  BY FitWhole, CalledFacts
<1>3. Fit(p, Local("enforce", "delay", 0), Local("enforce", "delay", 0))
  BY FitLocal, BufferFacts
<1>4. QED
  BY <1>1, <1>2, <1>3, FitConcat DEF Request

\* ... and one of which each makes a half.
LEMMA FitRequests ==
  ASSUME NEW p \in Ranks, NEW n \in Nat, NEW f, NEW g,
         <<f, g>> \in Halves \cup HalvesStateful, f = "DoubleASTSet" => n >= 2
  PROVE  Fit(p, Request(f, n), Request(g, n)) /\ Fit(p, Request(g, n), Request(f, n))
<1>1. Fit(p, Call(f, n), Call(g, n)) /\ Fit(p, Call(g, n), Call(f, n))
  <2>1. (f \in OfTwo \/ g \in OfTwo) => f = "DoubleASTSet"
    BY DEF OfTwo, Halves, HalvesStateful
  <2>2. <<f, g>> \in Twins /\ <<g, f>> \in Twins
    BY TwinFacts
  <2>3. QED
    BY <2>1, <2>2, FitCall
<1>2. Fit(p, Call("cr.DelayCheck", 0), Call("cr.DelayCheck", 0))
  BY FitWhole, CalledFacts
<1>3. Fit(p, Local("enforce", "delay", 0), Local("enforce", "delay", 0))
  BY FitLocal, BufferFacts
<1>4. QED
  BY <1>1, <1>2, <1>3, FitConcat DEF Request

\* The double translation is a pair of halves too.
LEMMA DoubleCalled == <<"DoubleASTSet", "DoubleASTGet">> \in Halves \cup HalvesStateful
BY DEF Halves

\* Random shares.
LEMMA FitRandA ==
  ASSUME NEW p \in Ranks, NEW n \in Nat
  PROVE  Fit(p, RandA(n), RandA(n))
BY FitRequest, CalledFacts DEF RandA

\* An opening to be checked later ...
LEMMA FitA2P_delay ==
  ASSUME NEW p \in Ranks, NEW n \in Nat
  PROVE  Fit(p, A2P_delay(p, n), A2P_delay(Peer(p), n))
BY FitConcat, FitExchange, FitLocal, PurposeFacts, BufferFacts DEF A2P_delay

\* ... and at once.
LEMMA FitA2P ==
  ASSUME NEW p \in Ranks, NEW n \in Nat
  PROVE  Fit(p, A2P(p, n), A2P(Peer(p), n))
<1>1. Fit(p, Exchange(p, "opening", n) \o SyncSeed(p),
             Exchange(Peer(p), "opening", n) \o SyncSeed(Peer(p)))
  BY FitConcat, FitExchange, FitSyncSeed, PurposeFacts
<1>2. Fit(p, Local("enforce", "now", 0), Local("enforce", "now", 0))
  BY FitLocal, BufferFacts
<1>3. QED
  BY <1>1, <1>2, FitConcat, FitCheckNow DEF A2P

\* Products.
LEMMA FitMulAA ==
  ASSUME NEW p \in Ranks, NEW n \in Nat
  PROVE  Fit(p, MulAA(p, n), MulAA(Peer(p), n))
BY FitConcat, FitRequest, CalledFacts, FitA2P_delay, CountFacts DEF MulAA

\* Inverses.
LEMMA FitInvA ==
  ASSUME NEW p \in Ranks, NEW n \in Nat
  PROVE  Fit(p, InvA(p, n), InvA(Peer(p), n))
BY FitConcat, FitRandA, FitMulAA, FitA2P_delay DEF InvA

\* Quotients.
LEMMA FitDivision ==
  ASSUME NEW p \in Ranks, NEW n \in Nat
  PROVE  Fit(p, DivAA(p, n), DivAA(Peer(p), n))
BY FitConcat, FitInvA, FitMulAA DEF DivAA

\* What comes out of the Prg.
LEMMA FitPrg ==
  ASSUME NEW p \in Ranks, NEW n \in Nat
  PROVE  Fit(p, Call("Prg", n), Call("Prg", n))
BY FitWhole, CalledFacts

\* Shared bits.
LEMMA FitZeroOneA ==
  ASSUME NEW p \in Ranks, NEW n \in Nat
  PROVE  Fit(p, ZeroOneA(p, n), ZeroOneA(Peer(p), n))
BY FitConcat, FitRandA, FitMulAA, FitA2P_delay DEF ZeroOneA

\* Shares of what one rank has.
LEMMA FitSetA ==
  ASSUME NEW p \in Ranks, NEW n \in Nat
  PROVE  /\ Fit(p, SetA(n), GetA(n))
         /\ Fit(p, GetA(n), SetA(n))
<1>1. ASSUME NEW q \in Ranks
      PROVE  Fit(q, SetA(n), GetA(n))
  BY FitConcat, FitRequests, CalledFacts, FitSend, PurposeFacts, CountFacts DEF SetA, GetA
<1>2. QED
  BY <1>1, FitBack, PeerFacts

\* A product of many.
LEMMA FitNMulA ==
  ASSUME NEW p \in Ranks, NEW n \in Nat
  PROVE  Fit(p, NMulA(p, n), NMulA(Peer(p), n))
BY FitConcat, FitRequest, CalledFacts, FitMulAA, FitA2P_delay DEF NMulA

\* The masked shares of a pass.
LEMMA FitMasked ==
  ASSUME NEW p \in Ranks, NEW n \in Nat
  PROVE  /\ Fit(p, ShuffleAGet_internal(n), ShuffleASet_internal(n))
         /\ Fit(p, ShuffleASet_internal(n), ShuffleAGet_internal(n))
<1>1. ASSUME NEW q \in Ranks
      PROVE  Fit(q, ShuffleAGet_internal(n), ShuffleASet_internal(n))
  BY FitConcat, FitSend, PurposeFacts, CountFacts
     DEF ShuffleAGet_internal, ShuffleASet_internal
<1>2. QED
  BY <1>1, FitBack, PeerFacts

\* Half a shuffle ...
LEMMA FitShuffleASet ==
  ASSUME NEW p \in Ranks, NEW n \in Nat
  PROVE  /\ Fit(p, ShuffleASet(n), ShuffleAGet(n))
         /\ Fit(p, ShuffleAGet(n), ShuffleASet(n))
<1>1. ASSUME NEW q \in Ranks
      PROVE  Fit(q, ShuffleASet(n), ShuffleAGet(n))
  BY FitConcat, FitRequests, CalledFacts, FitMasked DEF ShuffleASet, ShuffleAGet
<1>2. QED
  BY <1>1, FitBack, PeerFacts

\* ... and the whole.
LEMMA FitShuffleA ==
  ASSUME NEW p \in Ranks, NEW n \in Nat
  PROVE  Fit(p, ShuffleA(p, n), ShuffleA(Peer(p), n))
BY FitConcat, FitShuffleASet, PeerFacts DEF ShuffleA, Ranks

\* Half a shuffle in blocks ...
LEMMA FitShuffleASet_2k ==
  ASSUME NEW p \in Ranks, NEW n \in Nat
  PROVE  /\ Fit(p, ShuffleASet_2k(n), ShuffleAGet_2k(n))
         /\ Fit(p, ShuffleAGet_2k(n), ShuffleASet_2k(n))
<1>1. ASSUME NEW q \in Ranks
      PROVE  Fit(q, ShuffleASet_2k(n), ShuffleAGet_2k(n))
  <2> DEFINE k == n \div BlockSize
             d == Depth(n) * FindB
  <2>1. k \in Int /\ d \in Int /\ BlockSize \in Nat
    BY SizeFacts, TranslationScriptsAssumption, ShareScriptsAssumption
  <2> HIDE DEF k, d
  <2>2. Fit(q, Request("ShuffleSet", BlockSize), Request("ShuffleGet", BlockSize))
    BY <2>1, FitRequests, CalledFacts
  <2>3. Fit(q, Times(k, Request("ShuffleSet", BlockSize)),
               Times(k, Request("ShuffleGet", BlockSize)))
    BY <2>1, <2>2, FitTimes
  <2>4. Fit(q, NdssBufferAppend(n), NdssBufferAppend(n))
    BY FitLocal, BufferFacts, CountFacts DEF NdssBufferAppend
  <2>5. QED
    BY <2>1, <2>3, <2>4, FitMasked, FitConcat, FitTimes
       DEF ShuffleASet_2k, ShuffleAGet_2k, k, d
<1>2. QED
  BY <1>1, FitBack, PeerFacts

\* ... and the whole.
LEMMA FitShuffleA_2k ==
  ASSUME NEW p \in Ranks, NEW n \in Nat
  PROVE  Fit(p, ShuffleA_2k(p, n), ShuffleA_2k(Peer(p), n))
BY FitConcat, FitShuffleASet_2k, PeerFacts DEF ShuffleA_2k, Ranks

\* The proof of a shuffle.
LEMMA FitShuffleProof ==
  ASSUME NEW p \in Ranks, NEW n \in Nat
  PROVE  Fit(p, ShuffleProof(p, n), ShuffleProof(Peer(p), n))
BY FitConcat, FitPrg, FitTimes, FitNMulA, FitRandA, FitMulAA, FitA2P_delay
   DEF ShuffleProof, RandP

\* Half a proved shuffle ...
LEMMA FitSShuffleASet ==
  ASSUME NEW p \in Ranks, NEW n \in Nat
  PROVE  /\ Fit(p, SShuffleASet(p, n), SShuffleAGet(Peer(p), n))
         /\ Fit(p, SShuffleAGet(p, n), SShuffleASet(Peer(p), n))
<1>1. ASSUME NEW q \in Ranks
      PROVE  Fit(q, SShuffleASet(q, n), SShuffleAGet(Peer(q), n))
  BY FitConcat, FitRequests, CalledFacts, FitA2P_delay, FitSetA, FitShuffleProof
     DEF SShuffleASet, SShuffleAGet
<1>2. QED
  BY <1>1, FitBack, PeerFacts

\* ... and the whole.
LEMMA FitSShuffleA ==
  ASSUME NEW p \in Ranks, NEW n \in Nat
  PROVE  Fit(p, SShuffleA(p, n), SShuffleA(Peer(p), n))
BY FitConcat, FitSShuffleASet, PeerFacts DEF SShuffleA, Ranks

\* Half a shuffle over a double translation ...
LEMMA FitOptSShuffleASet ==
  ASSUME NEW p \in Ranks, NEW n \in Nat, n >= 2
  PROVE  /\ Fit(p, OptSShuffleASet(p, n), OptSShuffleAGet(Peer(p), n))
         /\ Fit(p, OptSShuffleAGet(p, n), OptSShuffleASet(Peer(p), n))
<1>1. ASSUME NEW q \in Ranks
      PROVE  Fit(q, OptSShuffleASet(q, n), OptSShuffleAGet(Peer(q), n))
  BY FitConcat, FitHalves, CalledFacts, FitSend, FitRequests, DoubleCalled,
     FitA2P_delay, FitSetA, FitLocal, FitCheckNow, PurposeFacts, BufferFacts, CountFacts
     DEF OptSShuffleASet, OptSShuffleAGet
<1>2. QED
  BY <1>1, FitBack, PeerFacts

\* ... and the whole.
LEMMA FitOptSShuffleA ==
  ASSUME NEW p \in Ranks, NEW n \in Nat, n >= 2
  PROVE  Fit(p, OptSShuffleA(p, n), OptSShuffleA(Peer(p), n))
BY FitConcat, FitOptSShuffleASet, PeerFacts DEF OptSShuffleA, Ranks

\* Values of shared bits.
LEMMA FitRandFairA ==
  ASSUME NEW p \in Ranks, NEW n \in Nat
  PROVE  Fit(p, RandFairA(p, n), RandFairA(Peer(p), n))
BY FitZeroOneA, CountFacts, ShareScriptsAssumption DEF RandFairA

\* Openings bit by bit.
LEMMA FitFairA2P ==
  ASSUME NEW p \in Ranks, NEW n \in Nat
  PROVE  Fit(p, FairA2P(p, n), FairA2P(Peer(p), n))
BY FitConcat, FitTimes, FitA2P_delay, ShareScriptsAssumption DEF FairA2P

\* Shuffles of blocks, in batches ...
LEMMA FitCrBatchShuffle ==
  ASSUME NEW p \in Ranks, NEW n \in Nat
  PROVE  /\ Fit(p, cr_BatchShuffleSet(n), cr_BatchShuffleGet(n))
         /\ Fit(p, cr_BatchShuffleGet(n), cr_BatchShuffleSet(n))
<1> DEFINE size == DivCeil(BatchOts, RequiredOt(BlockSize))
           P == Parts(n, size)
           k == DivCeil(n, size)
<1>1. size \in Nat \ {0}
  <2>1. BatchOts \in Int /\ BatchOts > 0
    BY TranslationScriptsAssumption
  <2>2. RequiredOt(BlockSize) \in Nat \ {0}
    BY SizeFacts, TranslationScriptsAssumption
  <2>3. size \in Int /\ size > 0
    BY <2>1, <2>2, DivCeilFacts
  <2>4. QED
    BY <2>3
<1> HIDE DEF size
<1>2. k \in Int /\ DOMAIN P = 1 .. k /\ \A i \in 1 .. k : P[i] \in Nat
  <2>1. n \in Int
    OBVIOUS
  <2>2. /\ DOMAIN Parts(n, size) = 1 .. DivCeil(n, size)
        /\ DivCeil(n, size) \in Int
        /\ \A i \in DOMAIN Parts(n, size) : Parts(n, size)[i] \in Nat
    BY <1>1, <2>1, PartsFacts
  <2>3. QED
    BY <2>2
<1> HIDE DEF P, k
<1>3. \A m \in Nat : /\ Fit(p, Call("BatchShuffleSet", m), Call("BatchShuffleGet", m))
                     /\ Fit(p, Call("BatchShuffleGet", m), Call("BatchShuffleSet", m))
  BY FitHalves, CalledFacts
<1>4. Fit(p, FlattenSeq([i \in DOMAIN P |-> Call("BatchShuffleSet", P[i])]),
             FlattenSeq([i \in DOMAIN P |-> Call("BatchShuffleGet", P[i])]))
  BY <1>2, <1>3, FitParts
<1>5. Fit(p, FlattenSeq([i \in DOMAIN P |-> Call("BatchShuffleGet", P[i])]),
             FlattenSeq([i \in DOMAIN P |-> Call("BatchShuffleSet", P[i])]))
  BY <1>2, <1>3, FitParts
<1>6. QED
  BY <1>4, <1>5 DEF cr_BatchShuffleSet, cr_BatchShuffleGet, P, size

\* ... and over random OTs.
LEMMA FitCrSgrrShuffle ==
  ASSUME NEW p \in Ranks, NEW n \in Nat
  PROVE  /\ Fit(p, cr__BatchShuffleSet(n), cr__BatchShuffleGet(n))
         /\ Fit(p, cr__BatchShuffleGet(n), cr__BatchShuffleSet(n))
<1> DEFINE size == DivCeil((BatchOts \div 8), RequiredOt(BlockSize))
           P == Parts(n, size)
           k == DivCeil(n, size)
<1>1. size \in Nat \ {0}
  <2>1. (BatchOts \div 8) \in Int /\ (BatchOts \div 8) > 0
    BY TranslationScriptsAssumption
  <2>2. RequiredOt(BlockSize) \in Nat \ {0}
    BY SizeFacts, TranslationScriptsAssumption
  <2>3. size \in Int /\ size > 0
    BY <2>1, <2>2, DivCeilFacts
  <2>4. QED
    BY <2>3
<1> HIDE DEF size
<1>2. k \in Int /\ DOMAIN P = 1 .. k /\ \A i \in 1 .. k : P[i] \in Nat
  <2>1. n \in Int
    OBVIOUS
  <2>2. /\ DOMAIN Parts(n, size) = 1 .. DivCeil(n, size)
        /\ DivCeil(n, size) \in Int
        /\ \A i \in DOMAIN Parts(n, size) : Parts(n, size)[i] \in Nat
    BY <1>1, <2>1, PartsFacts
  <2>3. QED
    BY <2>2
<1> HIDE DEF P, k
<1>3. \A m \in Nat : /\ Fit(p, Call("_BatchShuffleSet", m), Call("_BatchShuffleGet", m))
                     /\ Fit(p, Call("_BatchShuffleGet", m), Call("_BatchShuffleSet", m))
  BY FitHalves, CalledFacts
<1>4. Fit(p, FlattenSeq([i \in DOMAIN P |-> Call("_BatchShuffleSet", P[i])]),
             FlattenSeq([i \in DOMAIN P |-> Call("_BatchShuffleGet", P[i])]))
  BY <1>2, <1>3, FitParts
<1>5. Fit(p, FlattenSeq([i \in DOMAIN P |-> Call("_BatchShuffleGet", P[i])]),
             FlattenSeq([i \in DOMAIN P |-> Call("_BatchShuffleSet", P[i])]))
  BY <1>2, <1>3, FitParts
<1>6. QED
  BY <1>4, <1>5 DEF cr__BatchShuffleSet, cr__BatchShuffleGet, P, size

-----------------------------------------------------------------------------
\* Every function, for all sizes.

\* What both ranks call fits ...
LEMMA WholeFits ==
  ASSUME NEW p \in Ranks, NEW f \in Whole, NEW n \in Nat,
         f = "OptSShuffleA" => n >= 2
  PROVE  Fit(p, Script(p, f, n), Script(Peer(p), f, n))
<1>1. CASE f = "RandomAuth"
  BY <1>1, FitRandomAuth DEF Script
<1>2. CASE f = "BeaverTriple"
  BY <1>2, FitTriple DEF Script
<1>3. CASE f = "ProductTree"
  BY <1>3, FitProductTree DEF Script
<1>4. CASE f = "Inv"
  BY <1>4, FitInv DEF Script
<1>5. CASE f = "NMul"
  BY <1>5, FitNMul DEF Script
<1>6. CASE f = "RandA"
  BY <1>6, FitRandA DEF Script
<1>7. CASE f = "MulAA"
  BY <1>7, FitMulAA DEF Script
<1>8. CASE f = "InvA"
  BY <1>8, FitInvA DEF Script
<1>9. CASE f = "ZeroOneA"
  BY <1>9, FitZeroOneA DEF Script
<1>10. CASE f = "A2P"
  BY <1>10, FitA2P DEF Script
<1>11. CASE f = "A2P_delay"
  BY <1>11, FitA2P_delay DEF Script
<1>12. CASE f = "NMulA"
  BY <1>12, FitNMulA DEF Script
<1>13. CASE f = "ShuffleA"
  BY <1>13, FitShuffleA DEF Script
<1>14. CASE f = "ShuffleA_2k"
  BY <1>14, FitShuffleA_2k DEF Script
<1>15. CASE f = "SShuffleA"
  BY <1>15, FitSShuffleA DEF Script
<1>16. CASE f = "Prg"
  BY <1>16, FitEmpty DEF Script
<1>17. CASE f = "RandP"
  BY <1>17, FitPrg DEF Script, RandP
<1>18. CASE f = "P2A"
  BY <1>18, FitPrg, CountFacts DEF Script, P2A, ZerosA
<1>19. CASE f = "DivPA"
  BY <1>19, FitInvA DEF Script, DivPA
<1>20. CASE f = "DivAA"
  BY <1>20, FitDivision DEF Script
<1>21. CASE f = "RandFairA"
  BY <1>21, FitRandFairA DEF Script
<1>22. CASE f = "FairA2P"
  BY <1>22, FitFairA2P DEF Script
<1>23. CASE f = "OptSShuffleA"
  BY <1>23, FitOptSShuffleA DEF Script
<1>24. QED
  BY <1>1, <1>2, <1>3, <1>4, <1>5, <1>6, <1>7, <1>8, <1>9, <1>10, <1>11, <1>12,
     <1>13, <1>14, <1>15, <1>16, <1>17, <1>18, <1>19, <1>20, <1>21, <1>22, <1>23 DEF
     Whole

\* ... and so do the halves.
LEMMA HalvesFit ==
  ASSUME NEW p \in Ranks, NEW f, NEW g, <<f, g>> \in Halves, NEW n \in Nat,
         f = "DoubleASTSet" => n >= 2
  PROVE  Fit(p, Script(p, f, n), Script(Peer(p), g, n))
<1>1. CASE f = "ShuffleSet" /\ g = "ShuffleGet"
  BY <1>1, FitShuffle DEF Script, TranslationScript
<1>2. CASE f = "ASTSend" /\ g = "ASTRecv"
  BY <1>2, FitASTSend DEF Script, TranslationScript
<1>3. CASE f = "ASTSet" /\ g = "ASTGet"
  BY <1>3, FitASTSet DEF Script, TranslationScript
<1>4. CASE f = "SetA" /\ g = "GetA"
  BY <1>4, FitSetA DEF Script, TranslationScript
<1>5. CASE f = "BatchShuffleSet" /\ g = "BatchShuffleGet"
  BY <1>5, FitBatchShuffle, TranslationScriptsAssumption DEF Script,
     TranslationScript
<1>6. CASE f = "_BatchShuffleSet" /\ g = "_BatchShuffleGet"
  BY <1>6, FitSgrrShuffle, TranslationScriptsAssumption DEF Script,
     TranslationScript
<1>7. CASE f = "DoubleASTSetRound" /\ g = "DoubleASTGetRound"
  BY <1>7, FitDoubleRound DEF Script, TranslationScript
<1>8. CASE f = "DoubleASTSet" /\ g = "DoubleASTGet"
  BY <1>8, FitDoubleAST DEF Script, TranslationScript
<1>9. CASE f = "DoubleSetRound_2k" /\ g = "DoubleGetRound_2k"
  BY <1>9, FitDoubleRound_2k DEF Script, TranslationScript
<1>10. CASE f = "SetRound" /\ g = "GetRound"
  BY <1>10, FitSetRound DEF Script, TranslationScript
<1>11. CASE f = "_DoubleSetMerge" /\ g = "_DoubleGetMerge"
  BY <1>11, FitMerge DEF Script, TranslationScript
<1>12. CASE f = "_DoubleSetLayer" /\ g = "_DoubleGetLayer"
  BY <1>12, FitLayer DEF Script, TranslationScript
<1>13. CASE f = "ASTSet_batch_basic_2k" /\ g = "ASTGet_batch_basic_2k"
  BY <1>13, FitASTBatch DEF Script, TranslationScript
<1>14. CASE f = "DoubleASTSet_batch_basic_2k" /\ g = "DoubleASTGet_batch_basic_2k"
  BY <1>14, FitDoubleASTBatch DEF Script, TranslationScript
<1>15. CASE f = "_DoubleASTSet_batch_basic_2k" /\ g = "_DoubleASTGet_batch_basic_2k"
  BY <1>15, FitTwoASTBatch DEF Script, TranslationScript
<1>16. CASE f = "ASTSet_2k" /\ g = "ASTGet_2k"
  BY <1>16, FitAST_2k DEF Script, TranslationScript
<1>17. CASE f = "DoubleASTSet_2k" /\ g = "DoubleASTGet_2k"
  BY <1>17, FitDoubleAST_2k DEF Script, TranslationScript
<1>18. CASE f = "_DoubleASTSet_2k" /\ g = "_DoubleASTGet_2k"
  BY <1>18, FitTwoAST_2k DEF Script, TranslationScript
<1>19. CASE f = "cr.BatchShuffleSet" /\ g = "cr.BatchShuffleGet"
  BY <1>19, FitCrBatchShuffle DEF Script, TranslationScript
<1>20. CASE f = "cr._BatchShuffleSet" /\ g = "cr._BatchShuffleGet"
  BY <1>20, FitCrSgrrShuffle DEF Script, TranslationScript
<1>21. CASE f = "cr.ASTSet_2k" /\ g = "cr.ASTGet_2k"
  BY <1>21, FitRequests, CalledFacts DEF Script, TranslationScript
<1>22. CASE f = "cr.DoubleASTSet_2k" /\ g = "cr.DoubleASTGet_2k"
  BY <1>22, FitRequests, CalledFacts DEF Script, TranslationScript
<1>23. CASE f = "cr._DoubleASTSet_2k" /\ g = "cr._DoubleASTGet_2k"
  BY <1>23, FitRequests, CalledFacts DEF Script, TranslationScript
<1>24. QED
  BY <1>1, <1>2, <1>3, <1>4, <1>5, <1>6, <1>7, <1>8, <1>9, <1>10, <1>11, <1>12,
     <1>13, <1>14, <1>15, <1>16, <1>17, <1>18, <1>19, <1>20, <1>21, <1>22, <1>23 DEF
     Halves
=============================================================================
