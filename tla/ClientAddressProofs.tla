------------------------ MODULE ClientAddressProofs -------------------------
(***************************************************************************)
(* Whatever header a client sends, whichever address of its block it uses, *)
(* through no proxy, one or two, and however the proxies are listed and    *)
(* forward, ClientIP finds the client: its requests are counted to the key *)
(* of its block and to no other.                                           *)
(***************************************************************************)
EXTENDS ClientAddress, TLAPS

-----------------------------------------------------------------------------
(***************************************************************************)
(* Sequences of up to three elements                                       *)
(***************************************************************************)

LEMMA Tuples ==
    ASSUME NEW E, NEW s \in Seq(E)
    PROVE  /\ Len(s) = 1 => s = <<s[1]>>
           /\ Len(s) = 2 => s = <<s[1], s[2]>>
           /\ Len(s) = 3 => s = <<s[1], s[2], s[3]>>
<1>1. ASSUME Len(s) = 1 PROVE s = <<s[1]>>
  BY <1>1
<1>2. ASSUME Len(s) = 2 PROVE s = <<s[1], s[2]>>
  BY <1>2
<1>3. ASSUME Len(s) = 3 PROVE s = <<s[1], s[2], s[3]>>
  BY <1>3
<1> QED
  BY <1>1, <1>2, <1>3

(* A sequence of two or three elements is known by its elements. *)
LEMMA IsPair ==
    ASSUME NEW E, NEW s \in Seq(E), NEW x, NEW y, Len(s) = 2, s[1] = x, s[2] = y
    PROVE  s = <<x, y>>
<1>1. s = <<s[1], s[2]>>
  BY Tuples
<1> QED
  BY <1>1

LEMMA IsTriple ==
    ASSUME NEW E, NEW s \in Seq(E), NEW x, NEW y, NEW z,
           Len(s) = 3, s[1] = x, s[2] = y, s[3] = z
    PROVE  s = <<x, y, z>>
<1>1. s = <<s[1], s[2], s[3]>>
  BY Tuples
<1> QED
  BY <1>1

LEMMA Appended ==
    ASSUME NEW E, NEW x \in E, NEW y \in E, NEW z \in E
    PROVE  /\ Append(<<>>, x) = <<x>>
           /\ Append(<<x>>, y) = <<x, y>>
           /\ Append(<<x, y>>, z) = <<x, y, z>>
<1>1. Append(<<>>, x) = <<x>>
  OBVIOUS
<1>2. Append(<<x>>, y) = <<x, y>>
  <2> DEFINE s == Append(<<x>>, y)
  <2>1. s \in Seq(E) /\ Len(s) = 2 /\ s[1] = x /\ s[2] = y
    OBVIOUS
  <2> HIDE DEF s
  <2>2. s = <<x, y>>
    BY <2>1, IsPair
  <2> QED
    BY <2>2 DEF s
<1>3. Append(<<x, y>>, z) = <<x, y, z>>
  <2> DEFINE s == Append(<<x, y>>, z)
  <2>1. s \in Seq(E) /\ Len(s) = 3 /\ s[1] = x /\ s[2] = y /\ s[3] = z
    OBVIOUS
  <2> HIDE DEF s
  <2>2. s = <<x, y, z>>
    BY <2>1, IsTriple
  <2> QED
    BY <2>2 DEF s
<1> QED
  BY <1>1, <1>2, <1>3

LEMMA Joined ==
    ASSUME NEW E, NEW x \in E, NEW y \in E, NEW z \in E
    PROVE  /\ <<x>> \o <<y>> = <<x, y>>
           /\ <<x, y>> \o <<z>> = <<x, y, z>>
           /\ <<x>> \o <<y, z>> = <<x, y, z>>
<1>1. <<x>> \o <<y>> = <<x, y>>
  <2> DEFINE s == <<x>> \o <<y>>
  <2>1. s \in Seq(E) /\ Len(s) = 2 /\ s[1] = x /\ s[2] = y
    OBVIOUS
  <2> HIDE DEF s
  <2>2. s = <<x, y>>
    BY <2>1, IsPair
  <2> QED
    BY <2>2 DEF s
<1>2. <<x, y>> \o <<z>> = <<x, y, z>>
  <2> DEFINE s == <<x, y>> \o <<z>>
  <2>1. s \in Seq(E) /\ Len(s) = 3 /\ s[1] = x /\ s[2] = y /\ s[3] = z
    OBVIOUS
  <2> HIDE DEF s
  <2>2. s = <<x, y, z>>
    BY <2>1, IsTriple
  <2> QED
    BY <2>2 DEF s
<1>3. <<x>> \o <<y, z>> = <<x, y, z>>
  <2> DEFINE s == <<x>> \o <<y, z>>
  <2>1. s \in Seq(E) /\ Len(s) = 3 /\ s[1] = x /\ s[2] = y /\ s[3] = z
    OBVIOUS
  <2> HIDE DEF s
  <2>2. s = <<x, y, z>>
    BY <2>1, IsTriple
  <2> QED
    BY <2>2 DEF s
<1> QED
  BY <1>1, <1>2, <1>3

-----------------------------------------------------------------------------

(* What a line is made of. *)
Item == Entry \cup {Garbage}

(* The function FlattenSeq builds: the first i lines of s, joined. *)
Unrolls(s, f) == f = [i \in 1 .. Len(s) |-> IF i = 1 THEN s[i] ELSE f[i - 1] \o s[i]]

LEMMA UnrollsAt ==
    ASSUME NEW s, NEW f, Unrolls(s, f), NEW i \in 1 .. Len(s)
    PROVE  (i = 1 => f[i] = s[i]) /\ (i # 1 => f[i] = f[i - 1] \o s[i])
<1>1. f = [k \in 1 .. Len(s) |-> IF k = 1 THEN s[k] ELSE f[k - 1] \o s[k]]
  BY DEF Unrolls
<1>2. f[i] = IF i = 1 THEN s[i] ELSE f[i - 1] \o s[i]
  BY <1>1, Zenon
<1> QED
  BY <1>2, Zenon

LEMMA FlattenAs ==
    ASSUME NEW s, Len(s) # 0, NEW g, Unrolls(s, g)
    PROVE  \E f : Unrolls(s, f) /\ Ext!FlattenSeq(s) = f[Len(s)]
<1>1. Unrolls(s, CHOOSE f : Unrolls(s, f))
  OBVIOUS
<1>2. Ext!FlattenSeq(s) = (CHOOSE f : Unrolls(s, f))[Len(s)]
  BY DEF Ext!FlattenSeq, Unrolls
<1> QED
  BY <1>1, <1>2

LEMMA FlattenOne ==
    ASSUME NEW a \in Seq(Item)
    PROVE  Ext!FlattenSeq(<<a>>) = a
<1> DEFINE s == <<a>>
           g == [i \in 1 .. Len(s) |-> a]
<1>1. Len(s) = 1 /\ Len(s) # 0 /\ 1 \in 1 .. Len(s) /\ s[1] = a
  OBVIOUS
<1> HIDE DEF s
<1>2. Unrolls(s, g)
  BY <1>1 DEF Unrolls
<1> HIDE DEF g
<1>3. PICK f : Unrolls(s, f) /\ Ext!FlattenSeq(s) = f[Len(s)]
  BY <1>1, <1>2, FlattenAs
<1>4. f[1] = a
  BY <1>1, <1>3, UnrollsAt, Zenon
<1> QED
  BY <1>1, <1>3, <1>4 DEF s

LEMMA FlattenTwo ==
    ASSUME NEW a \in Seq(Item), NEW b \in Seq(Item)
    PROVE  Ext!FlattenSeq(<<a, b>>) = a \o b
<1> DEFINE s == <<a, b>>
           g == [i \in 1 .. Len(s) |-> IF i = 1 THEN a ELSE a \o b]
<1>1. Len(s) = 2 /\ Len(s) # 0 /\ 1 \in 1 .. Len(s) /\ 2 \in 1 .. Len(s) /\ 2 # 1 /\ 2 - 1 = 1 /\ s[1] = a /\ s[2] = b
  OBVIOUS
<1> HIDE DEF s
<1>2. Unrolls(s, g)
  BY <1>1 DEF Unrolls
<1> HIDE DEF g
<1>3. PICK f : Unrolls(s, f) /\ Ext!FlattenSeq(s) = f[Len(s)]
  BY <1>1, <1>2, FlattenAs
<1>4. f[1] = a
  BY <1>1, <1>3, UnrollsAt, Zenon
<1>5. f[2] = f[2 - 1] \o b
  BY <1>1, <1>3, UnrollsAt, Zenon
<1> QED
  BY <1>1, <1>3, <1>4, <1>5, Zenon DEF s

LEMMA FlattenThree ==
    ASSUME NEW a \in Seq(Item), NEW b \in Seq(Item), NEW c \in Seq(Item),
           NEW ab, ab = a \o b, NEW abc, abc = ab \o c
    PROVE  Ext!FlattenSeq(<<a, b, c>>) = abc
<1> DEFINE s == <<a, b, c>>
           g == [i \in 1 .. Len(s) |-> IF i = 1 THEN a ELSE IF i = 2 THEN ab ELSE abc]
<1>1. Len(s) = 3 /\ Len(s) # 0 /\ 1 \in 1 .. Len(s) /\ 2 \in 1 .. Len(s) /\ 3 \in 1 .. Len(s)
      /\ 2 # 1 /\ 2 - 1 = 1 /\ 3 # 1 /\ 3 - 1 = 2 /\ s[1] = a /\ s[2] = b /\ s[3] = c
  OBVIOUS
<1> HIDE DEF s
<1>2. Unrolls(s, g)
  BY <1>1 DEF Unrolls
<1> HIDE DEF g
<1>3. PICK f : Unrolls(s, f) /\ Ext!FlattenSeq(s) = f[Len(s)]
  BY <1>1, <1>2, FlattenAs
<1>4. f[1] = a
  BY <1>1, <1>3, UnrollsAt, Zenon
<1>5. f[2] = f[2 - 1] \o b /\ f[3] = f[3 - 1] \o c
  BY <1>1, <1>3, UnrollsAt, Zenon
<1> QED
  BY <1>1, <1>3, <1>4, <1>5, Zenon DEF s

LEMMA PartsOf ==
    ASSUME NEW x \in Item, NEW y \in Item, NEW z \in Item
    PROVE  /\ Parts(<< <<x>> >>) = <<x>>
           /\ Parts(<< <<x, y>> >>) = <<x, y>>
           /\ Parts(<< <<x, y, z>> >>) = <<x, y, z>>
           /\ Parts(<< <<x>>, <<y>> >>) = <<x, y>>
           /\ Parts(<< <<x>>, <<y, z>> >>) = <<x, y, z>>
           /\ Parts(<< <<x, y>>, <<z>> >>) = <<x, y, z>>
           /\ Parts(<< <<x>>, <<y>>, <<z>> >>) = <<x, y, z>>
<1>1. /\ <<x>> \in Seq(Item) /\ <<y>> \in Seq(Item) /\ <<z>> \in Seq(Item)
      /\ <<x, y>> \in Seq(Item) /\ <<y, z>> \in Seq(Item) /\ <<x, y, z>> \in Seq(Item)
  OBVIOUS
<1>2. /\ <<x>> \o <<y>> = <<x, y>> /\ <<x>> \o <<y, z>> = <<x, y, z>>
      /\ <<x, y>> \o <<z>> = <<x, y, z>>
  BY Joined
<1>3. /\ << <<x>> >> # <<>> /\ << <<x, y>> >> # <<>> /\ << <<x, y, z>> >> # <<>>
      /\ << <<x>>, <<y>> >> # <<>> /\ << <<x>>, <<y, z>> >> # <<>> /\ << <<x, y>>, <<z>> >> # <<>>
      /\ << <<x>>, <<y>>, <<z>> >> # <<>>
  OBVIOUS
<1>4. /\ Ext!FlattenSeq(<< <<x>> >>) = <<x>>
      /\ Ext!FlattenSeq(<< <<x, y>> >>) = <<x, y>>
      /\ Ext!FlattenSeq(<< <<x, y, z>> >>) = <<x, y, z>>
  BY <1>1, FlattenOne
<1>5. /\ Ext!FlattenSeq(<< <<x>>, <<y>> >>) = <<x, y>>
      /\ Ext!FlattenSeq(<< <<x>>, <<y, z>> >>) = <<x, y, z>>
      /\ Ext!FlattenSeq(<< <<x, y>>, <<z>> >>) = <<x, y, z>>
  BY <1>1, <1>2, FlattenTwo
<1>6. Ext!FlattenSeq(<< <<x>>, <<y>>, <<z>> >>) = <<x, y, z>>
  <2> DEFINE p == <<x>>
             q == <<y>>
             r == <<z>>
  <2>1. p \in Seq(Item) /\ q \in Seq(Item) /\ r \in Seq(Item)
    BY <1>1
  <2> HIDE DEF p, q, r
  <2> DEFINE pq == <<x, y>>
             pqr == <<x, y, z>>
  <2>2. pq = p \o q
    BY <1>2 DEF p, q
  <2>3. pqr = pq \o r
    BY <1>2 DEF r
  <2> HIDE DEF pq, pqr
  <2>4. Ext!FlattenSeq(<<p, q, r>>) = pqr
    BY <2>1, <2>2, <2>3, FlattenThree
  <2> QED
    BY <2>4 DEF p, q, r, pqr
<1> QED
  BY <1>3, <1>4, <1>5, <1>6 DEF Parts

(* What a further proxy makes of the lines, for the lines there can be: it *)
(* adds its entry as a new line, or to the last line.                      *)
LEMMA ForwardTo ==
    ASSUME NEW a \in Seq(Item), NEW b \in Seq(Item), NEW e \in Item
    PROVE  /\ Forward(<<>>, e, TRUE) = << <<e>> >> /\ Forward(<<>>, e, FALSE) = << <<e>> >>
           /\ Forward(<<a>>, e, TRUE) = <<a, <<e>> >>
           /\ Forward(<<a>>, e, FALSE) = <<Append(a, e)>>
           /\ Forward(<<a, b>>, e, TRUE) = <<a, b, <<e>> >>
           /\ Forward(<<a, b>>, e, FALSE) = <<a, Append(b, e)>>
<1> DEFINE n == <<e>>
           S == Seq(Item)
<1>1. n \in S /\ a \in S /\ b \in S
  OBVIOUS
<1> HIDE DEF n, S
<1>2. Append(<<>>, n) = <<n>> /\ Append(<<a>>, n) = <<a, n>> /\ Append(<<a, b>>, n) = <<a, b, n>>
  BY <1>1, Appended, Zenon
<1>3. /\ Len(<<a>>) = 1 /\ <<a>> # <<>> /\ <<a>>[1] = a
      /\ Len(<<a, b>>) = 2 /\ <<a, b>> # <<>> /\ <<a, b>>[2] = b
  OBVIOUS
<1>4. ASSUME NEW m PROVE [<<a>> EXCEPT ![1] = m] = <<m>> /\ [<<a, b>> EXCEPT ![2] = m] = <<a, m>>
  <2>1. [<<a>> EXCEPT ![1] = m] = <<m>>
    OBVIOUS
  <2>2. [<<a, b>> EXCEPT ![2] = m] = <<a, m>>
    OBVIOUS
  <2> QED
    BY <2>1, <2>2
<1>5. Forward(<<>>, e, TRUE) = <<n>> /\ Forward(<<>>, e, FALSE) = <<n>>
  BY <1>2, Zenon DEF Forward, n
<1>6. Forward(<<a>>, e, TRUE) = <<a, n>> /\ Forward(<<a, b>>, e, TRUE) = <<a, b, n>>
  BY <1>2, Zenon DEF Forward, n
<1>7. Forward(<<a>>, e, FALSE) = <<Append(a, e)>>
  BY <1>3, <1>4, Zenon DEF Forward
<1>8. Forward(<<a, b>>, e, FALSE) = <<a, Append(b, e)>>
  BY <1>3, <1>4, Zenon DEF Forward
<1> QED
  BY <1>5, <1>6, <1>7, <1>8 DEF n

-----------------------------------------------------------------------------
(***************************************************************************)
(* What the server receives, through no proxy, one or two                  *)
(***************************************************************************)

(* The lines when one proxy has added e, and a second one f. *)
AfterOne(e) ==
    {<< <<e>> >>} \cup {<< <<x, e>> >> : x \in Item} \cup {<< <<x>>, <<e>> >> : x \in Item}

AfterTwo(e, f) ==
    {<< <<e, f>> >>, << <<e>>, <<f>> >>}
    \cup {<< <<x, e, f>> >> : x \in Item} \cup {<< <<x, e>>, <<f>> >> : x \in Item}
    \cup {<< <<x>>, <<e, f>> >> : x \in Item} \cup {<< <<x>>, <<e>>, <<f>> >> : x \in Item}

LEMMA UnmapRecord ==
    ASSUME NEW b, NEW h, NEW m
    PROVE  Unmap([block |-> b, host |-> h, mapped |-> m])
             = [block |-> b, host |-> h, mapped |-> FALSE]
<1> DEFINE n == FALSE
<1> HIDE DEF n
<1>1. [[block |-> b, host |-> h, mapped |-> m] EXCEPT !.mapped = n]
        = [block |-> b, host |-> h, mapped |-> n]
  OBVIOUS
<1> QED
  BY <1>1, Zenon DEF Unmap, n

LEMMA SpellingRecord ==
    ASSUME NEW b, NEW a \in Spellings(b)
    PROVE  \E h \in {0, 1}, m \in BOOLEAN : /\ a = [block |-> b, host |-> h, mapped |-> m]
                                            /\ b \notin V6 => h = 0
<1>1. CASE b \in V6
  BY <1>1 DEF Spellings
<1>2. CASE b \notin V6
  <2>1. a \in [block : {b}, host : {0}, mapped : BOOLEAN]
    BY <1>2 DEF Spellings
  <2> QED
    BY <1>2, <2>1
<1> QED
  BY <1>1, <1>2

LEMMA IsSpelling ==
    ASSUME NEW b, NEW h \in {0, 1}, b \notin V6 => h = 0,
           NEW a, a = [block |-> b, host |-> h, mapped |-> FALSE]
    PROVE  a \in Spellings(b)
  BY DEF Spellings

LEMMA SpellingFacts ==
    ASSUME NEW b \in Clients \cup Proxies, NEW a \in Spellings(b)
    PROVE  /\ a \in Address /\ Unmap(a) \in Address /\ Unmap(a) \in Spellings(b)
           /\ a.block = b /\ a.host \in {0, 1} /\ (b \notin V6 => a.host = 0)
           /\ Unmap(a) = [block |-> b, host |-> a.host, mapped |-> FALSE]
<1>1. PICK h \in {0, 1}, m \in BOOLEAN : /\ a = [block |-> b, host |-> h, mapped |-> m]
                                         /\ b \notin V6 => h = 0
  BY SpellingRecord
<1>2. Unmap(a) = [block |-> b, host |-> h, mapped |-> FALSE]
  BY <1>1, UnmapRecord
<1>3. a.block = b /\ a.host = h
  BY <1>1
<1>4. Unmap(a) \in Spellings(b)
  BY <1>1, <1>2, IsSpelling
<1>5. a \in Address /\ Unmap(a) \in Address
  BY <1>4 DEF Address
<1> QED
  BY <1>1, <1>2, <1>3, <1>4, <1>5

LEMMA ForgedLines ==
    ASSUME NEW lines \in Forged
    PROVE  lines = <<>> \/ \E x \in Item : lines = << <<x>> >>
<1>1. CASE lines = <<>>
  BY <1>1
<1>2. CASE lines = << <<Garbage>> >>
  BY <1>2 DEF Item
<1>3. CASE lines \in {<<<<[addr |-> a, port |-> FALSE]>>>> : a \in {Unmap(x) : x \in Address}}
  <2>1. PICK x \in Address : lines = <<<<[addr |-> Unmap(x), port |-> FALSE]>>>>
    BY <1>3
  <2>2. Unmap(x) \in Address
    <3>1. PICK b \in Clients \cup Proxies : x \in Spellings(b)
      BY DEF Address
    <3> QED
      BY <3>1, SpellingFacts
  <2>3. [addr |-> Unmap(x), port |-> FALSE] \in Item
    BY <2>2 DEF Item, Entry
  <2> QED
    BY <2>1, <2>3
<1> QED
  BY <1>1, <1>2, <1>3 DEF Forged

LEMMA ForwardEntries ==
    ASSUME NEW x \in Item, NEW y \in Item, NEW z \in Item
    PROVE  /\ Forward(<<>>, z, TRUE) = << <<z>> >> /\ Forward(<<>>, z, FALSE) = << <<z>> >>
           /\ Forward(<< <<x>> >>, z, TRUE) = << <<x>>, <<z>> >>
           /\ Forward(<< <<x>> >>, z, FALSE) = << <<x, z>> >>
           /\ Forward(<< <<x, y>> >>, z, TRUE) = << <<x, y>>, <<z>> >>
           /\ Forward(<< <<x, y>> >>, z, FALSE) = << <<x, y, z>> >>
           /\ Forward(<< <<x>>, <<y>> >>, z, TRUE) = << <<x>>, <<y>>, <<z>> >>
           /\ Forward(<< <<x>>, <<y>> >>, z, FALSE) = << <<x>>, <<y, z>> >>
<1> DEFINE p == <<x>>
           q == <<y>>
           r == <<x, y>>
<1>1. p \in Seq(Item) /\ q \in Seq(Item) /\ r \in Seq(Item)
  OBVIOUS
<1>2. Append(p, z) = <<x, z>> /\ Append(q, z) = <<y, z>> /\ Append(r, z) = <<x, y, z>>
  BY Appended
<1> HIDE DEF p, q, r
<1>3. /\ Forward(<<>>, z, TRUE) = << <<z>> >> /\ Forward(<<>>, z, FALSE) = << <<z>> >>
      /\ Forward(<<p>>, z, TRUE) = <<p, <<z>> >> /\ Forward(<<p>>, z, FALSE) = <<Append(p, z)>>
  BY <1>1, ForwardTo
<1>4. Forward(<<r>>, z, TRUE) = <<r, <<z>> >> /\ Forward(<<r>>, z, FALSE) = <<Append(r, z)>>
  BY <1>1, ForwardTo
<1>5. /\ Forward(<<p, q>>, z, TRUE) = <<p, q, <<z>> >>
      /\ Forward(<<p, q>>, z, FALSE) = <<p, Append(q, z)>>
  BY <1>1, ForwardTo
<1> QED
  BY <1>2, <1>3, <1>4, <1>5, Zenon DEF p, q, r

LEMMA FirstHop ==
    ASSUME NEW lines \in Forged, NEW e \in Item, NEW newLine \in BOOLEAN
    PROVE  Forward(lines, e, newLine) \in AfterOne(e)
<1>1. Forward(<<>>, e, TRUE) \in AfterOne(e) /\ Forward(<<>>, e, FALSE) \in AfterOne(e)
  BY ForwardEntries DEF AfterOne
<1>2. ASSUME NEW x \in Item
      PROVE  /\ Forward(<< <<x>> >>, e, TRUE) \in AfterOne(e)
             /\ Forward(<< <<x>> >>, e, FALSE) \in AfterOne(e)
  <2>1. /\ Forward(<< <<x>> >>, e, TRUE) = << <<x>>, <<e>> >>
        /\ Forward(<< <<x>> >>, e, FALSE) = << <<x, e>> >>
    BY ForwardEntries
  <2> QED
    BY <2>1 DEF AfterOne
<1>3. lines = <<>> \/ \E x \in Item : lines = << <<x>> >>
  BY ForgedLines
<1>4. newLine = TRUE \/ newLine = FALSE
  OBVIOUS
<1> QED
  BY <1>1, <1>2, <1>3, <1>4, Zenon

LEMMA SecondHop ==
    ASSUME NEW e \in Item, NEW f \in Item, NEW newLine \in BOOLEAN, NEW lines \in AfterOne(e)
    PROVE  Forward(lines, f, newLine) \in AfterTwo(e, f)
<1>1. /\ Forward(<< <<e>> >>, f, TRUE) \in AfterTwo(e, f)
      /\ Forward(<< <<e>> >>, f, FALSE) \in AfterTwo(e, f)
  <2>1. /\ Forward(<< <<e>> >>, f, TRUE) = << <<e>>, <<f>> >>
        /\ Forward(<< <<e>> >>, f, FALSE) = << <<e, f>> >>
    BY ForwardEntries
  <2> QED
    BY <2>1 DEF AfterTwo
<1>2. ASSUME NEW x \in Item
      PROVE  /\ Forward(<< <<x, e>> >>, f, TRUE) \in AfterTwo(e, f)
             /\ Forward(<< <<x, e>> >>, f, FALSE) \in AfterTwo(e, f)
  <2>1. /\ Forward(<< <<x, e>> >>, f, TRUE) = << <<x, e>>, <<f>> >>
        /\ Forward(<< <<x, e>> >>, f, FALSE) = << <<x, e, f>> >>
    BY ForwardEntries
  <2> QED
    BY <2>1 DEF AfterTwo
<1>3. ASSUME NEW x \in Item
      PROVE  /\ Forward(<< <<x>>, <<e>> >>, f, TRUE) \in AfterTwo(e, f)
             /\ Forward(<< <<x>>, <<e>> >>, f, FALSE) \in AfterTwo(e, f)
  <2>1. /\ Forward(<< <<x>>, <<e>> >>, f, TRUE) = << <<x>>, <<e>>, <<f>> >>
        /\ Forward(<< <<x>>, <<e>> >>, f, FALSE) = << <<x>>, <<e, f>> >>
    BY ForwardEntries
  <2> QED
    BY <2>1 DEF AfterTwo
<1>4. \/ lines = << <<e>> >>
      \/ \E x \in Item : lines = << <<x, e>> >> \/ lines = << <<x>>, <<e>> >>
  BY DEF AfterOne
<1>5. newLine = TRUE \/ newLine = FALSE
  OBVIOUS
<1> QED
  BY <1>1, <1>2, <1>3, <1>4, <1>5, Zenon

LEMMA PartsAfterOne ==
    ASSUME NEW e \in Item, NEW lines \in AfterOne(e)
    PROVE  Parts(lines) = <<e>> \/ \E x \in Item : Parts(lines) = <<x, e>>
<1>1. CASE lines = << <<e>> >>
  BY <1>1, PartsOf
<1>2. ASSUME NEW x \in Item, lines = << <<x, e>> >> \/ lines = << <<x>>, <<e>> >>
      PROVE  Parts(lines) = <<x, e>>
  BY <1>2, PartsOf
<1> QED
  BY <1>1, <1>2 DEF AfterOne

LEMMA PartsAfterTwo ==
    ASSUME NEW e \in Item, NEW f \in Item, NEW lines \in AfterTwo(e, f)
    PROVE  Parts(lines) = <<e, f>> \/ \E x \in Item : Parts(lines) = <<x, e, f>>
<1>1. ASSUME lines = << <<e, f>> >> \/ lines = << <<e>>, <<f>> >>
      PROVE  Parts(lines) = <<e, f>>
  BY <1>1, PartsOf
<1>2. ASSUME NEW x \in Item
      PROVE  /\ Parts(<< <<x, e, f>> >>) = <<x, e, f>>
             /\ Parts(<< <<x, e>>, <<f>> >>) = <<x, e, f>>
             /\ Parts(<< <<x>>, <<e, f>> >>) = <<x, e, f>>
             /\ Parts(<< <<x>>, <<e>>, <<f>> >>) = <<x, e, f>>
  BY PartsOf, Zenon
<1> QED
  BY <1>1, <1>2 DEF AfterTwo

-----------------------------------------------------------------------------
(***************************************************************************)
(* Which addresses a server that starts trusts                             *)
(***************************************************************************)

LEMMA ListedFacts ==
    ASSUME NEW p, NEW e \in Listed(p)
    PROVE  /\ unmapPrefix(e).block = p
           /\ unmapPrefix(e).mapped = FALSE
           /\ unmapPrefix(e).bits \in {"address", "block", "all"}
<1>1. \E m \in BOOLEAN, w \in {"address", "block", "all"} :
        e = [block |-> p, mapped |-> m, bits |-> w]
  BY DEF Listed
<1>2. PICK m \in BOOLEAN, w \in {"address", "block", "all"} :
        e = [block |-> p, mapped |-> m, bits |-> w]
  BY <1>1
<1> DEFINE n == FALSE
<1> HIDE DEF n
<1>3. [e EXCEPT !.mapped = n] = [block |-> p, mapped |-> n, bits |-> w]
  BY <1>2
<1>4. unmapPrefix(e) = [block |-> p, mapped |-> n, bits |-> w]
  BY <1>3, Zenon DEF unmapPrefix, n
<1>5. /\ unmapPrefix(e).block = p /\ unmapPrefix(e).mapped = n
      /\ unmapPrefix(e).bits \in {"address", "block", "all"}
  BY <1>4
<1> QED
  BY <1>5, Zenon DEF n

(* Every proxy is trusted under the address it calls from. *)
LEMMA ProxiesTrusted ==
    ASSUME NEW list \in TrustLists, ~Refused(list), NEW p \in Proxies,
           NEW a \in Spellings(p), a.host = 0
    PROVE  isTrusted(Unmap(a), ParseTrustedProxies(list))
<1>1. PICK e \in list : list \cap Listed(p) = {e}
  BY DEF TrustLists
<1>2. e \in Listed(p)
  BY <1>1
<1> DEFINE q == unmapPrefix(e)
           u == Unmap(a)
<1>3. q.block = p /\ q.mapped = FALSE
  BY <1>2, ListedFacts
<1>4. u = [block |-> p, host |-> 0, mapped |-> FALSE]
  BY SpellingFacts
<1>5. u.block = p /\ u.host = 0 /\ u.mapped = FALSE
  BY <1>4
<1>6. q \in ParseTrustedProxies(list)
  BY DEF ParseTrustedProxies
<1> HIDE DEF q, u
<1>7. Contains(q, u)
  BY <1>3, <1>5, Zenon DEF Contains
<1>8. isTrusted(u, ParseTrustedProxies(list))
  BY <1>6, <1>7 DEF isTrusted
<1> QED
  BY <1>8 DEF u

(* No client is: what is listed is a proxy's own, and nothing trusts all. *)
LEMMA ClientsNotTrusted ==
    ASSUME NEW list \in TrustLists, ~Refused(list), NEW c \in Clients, NEW a \in Spellings(c)
    PROVE  ~isTrusted(Unmap(a), ParseTrustedProxies(list))
<1> SUFFICES ASSUME NEW q \in ParseTrustedProxies(list), Contains(q, Unmap(a))
             PROVE  FALSE
  BY DEF isTrusted
<1>1. PICK e \in list : q = unmapPrefix(e)
  BY DEF ParseTrustedProxies
<1>2. PICK p \in Proxies : e \in Listed(p)
  BY DEF TrustLists
<1>3. q.block = p
  BY <1>1, <1>2, ListedFacts
<1>4. q.bits # "all"
  BY <1>1 DEF Refused
<1>5. Unmap(a) = [block |-> c, host |-> a.host, mapped |-> FALSE]
  BY SpellingFacts
<1>6. Unmap(a).block = c
  BY <1>5
<1>7. q.block = Unmap(a).block
  BY <1>4, Zenon DEF Contains
<1>8. p = c
  BY <1>3, <1>6, <1>7
<1> QED
  BY <1>2, <1>8, BlockAssumption

-----------------------------------------------------------------------------
(***************************************************************************)
(* The client is found                                                     *)
(***************************************************************************)

(* A trusted peer, and an entry n that is not a trusted proxy's with only  *)
(* trusted proxies' entries after it: the walk from the right ends there.  *)
LEMMA WalkEndsAt ==
    ASSUME NEW peer, NEW lines, NEW trusted, NEW n \in Nat,
           isTrusted(Unmap(peer), trusted),
           Len(Parts(lines)) \in Nat, n \in 1 .. Len(Parts(lines)),
           Parts(lines)[n] # Garbage,
           ~isTrusted(parseForwardedEntry(Parts(lines)[n]), trusted),
           \A j \in 1 .. Len(Parts(lines)) : j > n =>
              /\ Parts(lines)[j] # Garbage
              /\ isTrusted(parseForwardedEntry(Parts(lines)[j]), trusted)
    PROVE  ClientIP(peer, lines, trusted) = parseForwardedEntry(Parts(lines)[n])
<1> DEFINE parts == Parts(lines)
           ends == {i \in 1 .. Len(parts) : \/ parts[i] = Garbage
                                            \/ ~isTrusted(parseForwardedEntry(parts[i]), trusted)}
           last == CHOOSE i \in ends : \A j \in ends : j <= i
<1>1. n \in ends /\ \A j \in ends : j <= n
  OBVIOUS
<1>2. last \in ends /\ \A j \in ends : j <= last
  BY <1>1
<1>3. last = n
  BY <1>1, <1>2
<1>4. ClientIP(peer, lines, trusted)
        = IF \/ ~isTrusted(Unmap(peer), trusted) \/ ends = {} \/ parts[last] = Garbage
          THEN Unmap(peer) ELSE parseForwardedEntry(parts[last])
  BY Zenon DEF ClientIP
<1> HIDE DEF ends, last
<1>5. ends # {} /\ parts[last] # Garbage
  BY <1>1, <1>3
<1> QED
  BY <1>3, <1>4, <1>5

(* The entry a proxy adds for the address it was called from. *)
EntryOf(a, port) == [addr |-> a, port |-> port]

LEMMA EntryFacts ==
    ASSUME NEW a \in Address, NEW port \in BOOLEAN
    PROVE  /\ EntryOf(a, port) \in Item /\ EntryOf(a, port) # Garbage
           /\ parseForwardedEntry(EntryOf(a, port)) = Unmap(a)
<1>1. EntryOf(a, port) \in Entry
  BY DEF EntryOf, Entry
<1>2. EntryOf(a, port).addr = a
  BY DEF EntryOf
<1> QED
  BY <1>1, <1>2, GarbageAssumption DEF Item, parseForwardedEntry

LEMMA ProxyAddressFacts ==
    ASSUME NEW a \in ProxyAddress
    PROVE  /\ a \in Address
           /\ \A list \in TrustLists :
                ~Refused(list) => isTrusted(Unmap(a), ParseTrustedProxies(list))
<1>1. PICK p \in Proxies : a \in Spellings(p) /\ a.host = 0
  BY DEF ProxyAddress
<1> QED
  BY <1>1, SpellingFacts, ProxiesTrusted

LEMMA ThroughShape ==
    ASSUME NEW r, NEW a, NEW s \in Through(r, a)
    PROVE  \E port \in BOOLEAN, newLine \in BOOLEAN :
              s.peer = a /\ s.lines = Forward(r.lines, EntryOf(r.peer, port), newLine)
<1>1. PICK port \in BOOLEAN, newLine \in BOOLEAN :
        s = [peer |-> a, lines |-> Forward(r.lines, EntryOf(r.peer, port), newLine)]
  BY DEF Through, EntryOf
<1> DEFINE l == Forward(r.lines, EntryOf(r.peer, port), newLine)
<1> HIDE DEF l
<1>2. s = [peer |-> a, lines |-> l]
  BY <1>1 DEF l
<1>3. s.peer = a /\ s.lines = l
  BY <1>2
<1> QED
  BY <1>3 DEF l

LEMMA OneHopShape ==
    ASSUME NEW c \in Clients, NEW r \in OneHop(c)
    PROVE  /\ r.peer \in ProxyAddress
           /\ \E a \in Spellings(c), port \in BOOLEAN : r.lines \in AfterOne(EntryOf(a, port))
<1>1. PICK d \in Direct(c), a \in ProxyAddress : r \in Through(d, a)
  BY DEF OneHop
<1>2. d.peer \in Spellings(c) /\ d.lines \in Forged
  BY DEF Direct
<1>3. PICK port \in BOOLEAN, newLine \in BOOLEAN :
        r.peer = a /\ r.lines = Forward(d.lines, EntryOf(d.peer, port), newLine)
  BY <1>1, ThroughShape
<1>4. d.peer \in Address
  BY <1>2, SpellingFacts
<1>5. EntryOf(d.peer, port) \in Item
  BY <1>4, EntryFacts
<1>6. Forward(d.lines, EntryOf(d.peer, port), newLine) \in AfterOne(EntryOf(d.peer, port))
  BY <1>2, <1>5, FirstHop
<1> QED
  BY <1>2, <1>3, <1>6

LEMMA TwoHopsShape ==
    ASSUME NEW c \in Clients, NEW r \in TwoHops(c)
    PROVE  /\ r.peer \in ProxyAddress
           /\ \E a \in Spellings(c), b \in ProxyAddress, p \in BOOLEAN, q \in BOOLEAN :
                 r.lines \in AfterTwo(EntryOf(a, p), EntryOf(b, q))
<1>1. PICK d \in OneHop(c), b \in ProxyAddress : r \in Through(d, b)
  BY DEF TwoHops
<1>2. d.peer \in ProxyAddress
  BY OneHopShape
<1>3. PICK a \in Spellings(c), p \in BOOLEAN : d.lines \in AfterOne(EntryOf(a, p))
  BY OneHopShape
<1>4. PICK q \in BOOLEAN, newLine \in BOOLEAN :
        r.peer = b /\ r.lines = Forward(d.lines, EntryOf(d.peer, q), newLine)
  BY <1>1, ThroughShape
<1>5. EntryOf(a, p) \in Item /\ EntryOf(d.peer, q) \in Item
  BY <1>2, SpellingFacts, ProxyAddressFacts, EntryFacts
<1>6. Forward(d.lines, EntryOf(d.peer, q), newLine)
        \in AfterTwo(EntryOf(a, p), EntryOf(d.peer, q))
  BY <1>3, <1>5, SecondHop
<1> QED
  BY <1>2, <1>4, <1>6

(* ClientIP finds an address of the client, whichever way the request came. *)
LEMMA ClientFound ==
    ASSUME NEW c \in Clients, NEW list \in TrustLists, ~Refused(list),
           NEW r \in Direct(c) \cup OneHop(c) \cup TwoHops(c)
    PROVE  \E a \in Spellings(c) :
              ClientIP(r.peer, r.lines, ParseTrustedProxies(list)) = Unmap(a)
<1> DEFINE T == ParseTrustedProxies(list)
           Found(a) == ClientIP(r.peer, r.lines, T) = Unmap(a)
<1>1. \A a \in Spellings(c) : a \in Address /\ ~isTrusted(Unmap(a), T)
  BY SpellingFacts, ClientsNotTrusted
<1>2. \A b \in ProxyAddress : b \in Address /\ isTrusted(Unmap(b), T)
  BY ProxyAddressFacts
<1> HIDE DEF T
<1>3. CASE r \in Direct(c)
  <2>1. r.peer \in Spellings(c)
    BY <1>3 DEF Direct
  <2>2. ~isTrusted(Unmap(r.peer), T)
    BY <1>1, <2>1
  <2>3. Found(r.peer)
    BY <2>2, Zenon DEF ClientIP
  <2> QED
    BY <2>1, <2>3 DEF T
<1>4. CASE r \in OneHop(c)
  <2>1. isTrusted(Unmap(r.peer), T)
    BY <1>2, <1>4, OneHopShape
  <2>2. PICK a \in Spellings(c), port \in BOOLEAN : r.lines \in AfterOne(EntryOf(a, port))
    BY <1>4, OneHopShape
  <2> DEFINE e == EntryOf(a, port)
             parts == Parts(r.lines)
  <2>3. e \in Item /\ e # Garbage /\ parseForwardedEntry(e) = Unmap(a)
    BY <1>1, EntryFacts
  <2>4. parts = <<e>> \/ \E x \in Item : parts = <<x, e>>
    BY <2>2, <2>3, PartsAfterOne
  <2> HIDE DEF e, parts
  <2>5. /\ Len(parts) \in {1, 2} /\ parts[Len(parts)] = e
    BY <2>4
  <2>6. \A j \in 1 .. Len(parts) : ~(j > Len(parts))
    BY <2>5
  <2>7. Len(parts) \in Nat /\ Len(parts) \in 1 .. Len(parts)
    BY <2>5
  <2>8. ~isTrusted(parseForwardedEntry(parts[Len(parts)]), T) /\ parts[Len(parts)] # Garbage
    BY <1>1, <2>3, <2>5
  <2>9. ClientIP(r.peer, r.lines, T) = parseForwardedEntry(parts[Len(parts)])
    BY <2>1, <2>6, <2>7, <2>8, WalkEndsAt DEF parts
  <2>10. Found(a)
    BY <2>3, <2>5, <2>9
  <2> QED
    BY <2>10 DEF T
<1>5. CASE r \in TwoHops(c)
  <2>1. isTrusted(Unmap(r.peer), T)
    BY <1>2, <1>5, TwoHopsShape
  <2>2. PICK a \in Spellings(c), b \in ProxyAddress, p \in BOOLEAN, q \in BOOLEAN :
          r.lines \in AfterTwo(EntryOf(a, p), EntryOf(b, q))
    BY <1>5, TwoHopsShape
  <2> DEFINE e == EntryOf(a, p)
             f == EntryOf(b, q)
             parts == Parts(r.lines)
             n == Len(parts) - 1
  <2>3. e \in Item /\ e # Garbage /\ parseForwardedEntry(e) = Unmap(a)
    BY <1>1, EntryFacts
  <2>4. f \in Item /\ f # Garbage /\ parseForwardedEntry(f) = Unmap(b)
    BY <1>2, EntryFacts
  <2>5. parts = <<e, f>> \/ \E x \in Item : parts = <<x, e, f>>
    BY <2>2, <2>3, <2>4, PartsAfterTwo
  <2> HIDE DEF e, f, parts
  <2>6. \/ Len(parts) = 2 /\ parts[1] = e /\ parts[2] = f
        \/ Len(parts) = 3 /\ parts[2] = e /\ parts[3] = f
    BY <2>5
  <2>7. /\ Len(parts) \in Nat /\ n \in Nat /\ n \in 1 .. Len(parts)
        /\ \A j \in 1 .. Len(parts) : j > n => j = Len(parts)
        /\ parts[n] = e /\ parts[Len(parts)] = f
    <3>1. CASE Len(parts) = 2
      <4>1. n = 1 /\ parts[1] = e /\ parts[2] = f
        BY <2>6, <3>1
      <4> QED
        BY <3>1, <4>1
    <3>2. CASE Len(parts) = 3
      <4>1. n = 2 /\ parts[2] = e /\ parts[3] = f
        BY <2>6, <3>2
      <4> QED
        BY <3>2, <4>1
    <3> QED
      BY <2>6, <3>1, <3>2
  <2> HIDE DEF n
  <2>8. ~isTrusted(parseForwardedEntry(parts[n]), T) /\ parts[n] # Garbage
    BY <1>1, <2>3, <2>7
  <2>9. \A j \in 1 .. Len(parts) : j > n =>
           parts[j] # Garbage /\ isTrusted(parseForwardedEntry(parts[j]), T)
    BY <1>2, <2>4, <2>7
  <2>10. ClientIP(r.peer, r.lines, T) = parseForwardedEntry(parts[n])
    BY <2>1, <2>7, <2>8, <2>9, WalkEndsAt DEF parts
  <2>11. Found(a)
    BY <2>3, <2>7, <2>10
  <2> QED
    BY <2>11 DEF T
<1> QED
  BY <1>3, <1>4, <1>5

(* A client's own key is one of the limiter's. *)
LEMMA OwnKeyIsKey ==
    ASSUME NEW c \in Clients
    PROVE  OwnKey(c) \in LimiterKeys
<1> DEFINE a == [block |-> c, host |-> 0, mapped |-> FALSE]
<1>1. a \in Spellings(c)
  BY IsSpelling
<1>2. a \in Address
  BY <1>1, SpellingFacts
<1>3. Unmap(a) = a
  BY UnmapRecord
<1> HIDE DEF a
<1>4. RateLimitKey(Unmap(a)) \in LimiterKeys
  BY <1>2 DEF LimiterKeys
<1> QED
  BY <1>3, <1>4 DEF OwnKey, a

(* Every address of a client has the client's own key. *)
LEMMA OwnAddresses ==
    ASSUME NEW c \in Clients, NEW a \in Spellings(c)
    PROVE  RateLimitKey(Unmap(a)) = OwnKey(c)
<1> DEFINE u == Unmap(a)
           z == [block |-> c, host |-> 0, mapped |-> FALSE]
<1>1. u = [block |-> c, host |-> a.host, mapped |-> FALSE] /\ (c \notin V6 => a.host = 0)
  BY SpellingFacts
<1>2. u.block = c /\ z.block = c
  BY <1>1
<1>3. ASSUME NEW h, NEW m
      PROVE  [[block |-> c, host |-> h, mapped |-> m] EXCEPT !.host = 0]
               = [block |-> c, host |-> 0, mapped |-> m]
  OBVIOUS
<1>4. [u EXCEPT !.host = 0] = z /\ [z EXCEPT !.host = 0] = z
  BY <1>1, <1>3, Zenon
<1>5. c \notin V6 => u = z
  BY <1>1
<1> HIDE DEF u, z
<1>6. RateLimitKey(u) = RateLimitKey(z)
  BY <1>2, <1>4, <1>5, Zenon DEF RateLimitKey
<1> QED
  BY <1>6 DEF u, z, OwnKey

(* However a client's requests reach a server that starts - with whatever  *)
(* X-Forwarded-For, under any spelling of any address of its block,        *)
(* through up to two proxies, with a port or without, on one header line   *)
(* or several, the proxies listed one by one, by block or mapped - they    *)
(* are counted to the client's own key (ClientIP, RateLimitKey).           *)
THEOREM CountedToOwnKey == \A c \in Clients : KeysFor(c) \subseteq {OwnKey(c)}
<1> SUFFICES ASSUME NEW c \in Clients, NEW k \in KeysFor(c)
             PROVE  k = OwnKey(c)
  OBVIOUS
<1>1. PICK r \in Direct(c) \cup OneHop(c) \cup TwoHops(c), list \in {l \in TrustLists : ~Refused(l)} :
        k = RateLimitKey(ClientIP(r.peer, r.lines, ParseTrustedProxies(list)))
  BY DEF KeysFor
<1>2. PICK a \in Spellings(c) : ClientIP(r.peer, r.lines, ParseTrustedProxies(list)) = Unmap(a)
  BY ClientFound
<1>3. k = RateLimitKey(Unmap(a))
  BY <1>1, <1>2
<1> QED
  BY <1>3, OwnAddresses

=============================================================================
