-------------------------- MODULE HttpRequestProofs --------------------------
(***************************************************************************)
(* For any texts, sizes, number of changes and any failures: what is       *)
(* written to the socket is at every moment the beginning of one response. *)
(* The invariant says which one can still come of it: what was written and *)
(* what is on its way (`pending') make up the head, or all of a response.  *)
(* When nothing fails it is the one that was promised: PInv follows the    *)
(* decisions of the handler, and Asks, which says with positions what a    *)
(* request is, is shown to be what the loops of http_request_parse find.   *)
(***************************************************************************)
EXTENDS HttpRequest, SequenceTheorems, WellFoundedInduction, TLAPS

Types ==
  /\ text \in Texts /\ arrived \in 0 .. Len(text)
  /\ peer \in {"open", "closed", "reset", "broken"}
  /\ fs \in [path : Objects, index : Objects]
  /\ changes \in 0 .. MaxChanges
  /\ got \in Seq(STRING)
  /\ pc \in {"read", "decide", "headers", "directory", "opendir", "fopen", "fread",
             "send", "done", "dead"}
  /\ todo \in Seq(Item)
  /\ then \in {"send", "fopen", "fread", "opendir", "done"}
  /\ name \in {"path", "index"} /\ inode \in Objects /\ len \in -1 .. MaxSize
  /\ data \in Seq(Item) /\ out \in Seq(Item)

(* Nothing waits to be sent before the body is known, and a body is no     *)
(* longer than the announced length, or a single page or list.             *)
BodyOK ==
  /\ pc \notin {"headers", "send", "done", "dead"} => data = <<>>
  /\ pc = "headers" => todo # <<>> /\ (then # "send" => data = <<>>)
  /\ Len(data) <= IF len > 1 THEN len ELSE 1

pending ==
  IF pc = "headers" THEN IF then = "send" THEN todo \o data ELSE todo
  ELSE IF pc = "send" THEN data ELSE <<>>

(* The next place where more is decided about the response.                *)
stage == IF pc = "headers" THEN then ELSE pc

(* What will have been written there.                                      *)
Targets ==
  CASE stage \in {"read", "decide", "directory"} -> {<<>>}
    [] stage = "fopen" -> {<<Line(200), Type>>}
    [] stage = "opendir" -> {Empty}
    [] stage = "fread" -> {<<Line(200), Type, Length(len), Blank>>}
    [] OTHER -> Responses \cup {Empty}

Heading(r) ==
  /\ IsPrefix(out, r)
  /\ peer # "broken" /\ pc # "dead" => r = out \o pending

OnTheWay == \E r \in Targets : Heading(r)

IInv == Types /\ BodyOK /\ OnTheWay

(* Where a good request leads, as long as nothing is wrong: to the file    *)
(* that is called `name', or to the list of the directory.                 *)
Quiet == changes = 0 /\ peer = "open" /\ fs.index.kind # "dir"

Content(f) == Whole(f.size, [i \in 1 .. f.size |-> "byte"])

Answer ==
  CASE fs.path.kind = "file" -> Content(fs.path)
    [] fs.path.kind = "dir" /\ fs.index.kind = "file" -> Content(fs.index)
    [] fs.path.kind = "dir" /\ fs.index.kind = "none" ->
         IF fs.path.readable THEN Listing ELSE Empty
    [] OTHER -> Refusal(404)

Chosen ==
  \/ fs.path.kind = "file" /\ name = "path"
  \/ fs.path.kind = "dir" /\ fs.index.kind = "file" /\ name = "index"

(* How far the handler is on the way to what was promised.                 *)
Course ==
  /\ stage = "directory" => Expected(got) = Answer /\ fs.path.kind = "dir"
  /\ stage = "opendir" =>
       Expected(got) = Answer /\ fs.path.kind = "dir" /\ fs.index.kind = "none"
  /\ stage = "fopen" => Expected(got) = Answer /\ Chosen
  /\ stage = "fread" =>
       Expected(got) = Answer /\ Chosen /\ inode = fs[name] /\ len = inode.size
  /\ stage \in {"send", "done"} => Expected(got) = out \o pending
  /\ pc = "dead" => ~fs[name].readable \/ fs[name].size > Stack

PInv ==
  /\ fs.index.kind # "other"
  /\ Quiet => Course
-----------------------------------------------------------------------------
LEMMA PrefixOfConcat ==
  ASSUME NEW S, NEW s \in Seq(S), NEW t \in Seq(S)
  PROVE  IsPrefix(s, s \o t)
<1>1. Len(s) <= Len(s \o t)
  BY ConcatProperties, LenProperties
<1>2. CASE s = <<>>
  BY <1>1, <1>2, SubSeqEmpty, EmptySeq DEF IsPrefix
<1>3. CASE s # <<>>
  <2>1. Len(s) \in 1 .. Len(s)
    BY <1>3, EmptySeq
  <2>2. SubSeq(s \o t, 1, Len(s)) = SubSeq(s, 1, Len(s))
    BY <2>1, SubSeqOfConcat1
  <2> QED
    BY <1>1, <2>2 DEF IsPrefix
<1> QED
  BY <1>2, <1>3

LEMMA PrefixTransitive ==
  ASSUME NEW S, NEW s \in Seq(S), NEW t \in Seq(S), NEW u \in Seq(S),
         IsPrefix(s, t), IsPrefix(t, u)
  PROVE  IsPrefix(s, u)
<1>1. /\ Len(s) <= Len(t) /\ Len(t) <= Len(u)
      /\ \A i \in 1 .. Len(s) : SubSeq(s, 1, Len(s))[i] = SubSeq(t, 1, Len(s))[i]
      /\ \A i \in 1 .. Len(t) : SubSeq(t, 1, Len(t))[i] = SubSeq(u, 1, Len(t))[i]
  BY DEF IsPrefix
<1>2. \A i \in 1 .. Len(s) : s[i] = u[i]
  BY <1>1, LenProperties
<1>3. SubSeq(s, 1, Len(s)) = SubSeq(u, 1, Len(s))
  BY <1>1, <1>2, LenProperties
<1> QED
  BY <1>1, <1>3, LenProperties DEF IsPrefix

LEMMA EmptyPrefix ==
  ASSUME NEW S, NEW s \in Seq(S)
  PROVE  IsPrefix(<<>>, s) /\ (IsPrefix(s, <<>>) => s = <<>>)
<1>1. IsPrefix(<<>>, s)
  <2>1. <<>> \in Seq(S)
    BY EmptySeq
  <2>2. IsPrefix(<<>>, <<>> \o s)
    BY <2>1, PrefixOfConcat
  <2>3. <<>> \o s = s
    BY ConcatEmptySeq
  <2> QED
    BY <2>2, <2>3
<1>2. IsPrefix(s, <<>>) => s = <<>>
  BY EmptySeq, LenProperties DEF IsPrefix
<1> QED
  BY <1>1, <1>2

(* A sequence is its first item and the rest; it may be cut anywhere.      *)
LEMMA Cut ==
  ASSUME NEW S, NEW s \in Seq(S), s # <<>>
  PROVE  /\ s = <<Head(s)>> \o Tail(s)
         /\ \A k \in 1 .. Len(s) :
              /\ SubSeq(s, 1, k) \in Seq(S) /\ SubSeq(s, k + 1, Len(s)) \in Seq(S)
              /\ Len(SubSeq(s, k + 1, Len(s))) = Len(s) - k
              /\ s = SubSeq(s, 1, k) \o SubSeq(s, k + 1, Len(s))
<1>1. Len(s) \in Nat \ {0} /\ SubSeq(s, 1, Len(s)) = s
  BY EmptySeq, SubSeqFull
<1>2. s = <<s[1]>> \o SubSeq(s, 2, Len(s))
  BY <1>1, SubSeqRecursiveFirst
<1>3. Tail(s) = SubSeq(s, 2, Len(s))
  BY TailIsSubSeq
<1>4. Head(s) = s[1]
  BY <1>1
<1>5. ASSUME NEW k \in 1 .. Len(s)
      PROVE  /\ SubSeq(s, 1, k) \in Seq(S) /\ SubSeq(s, k + 1, Len(s)) \in Seq(S)
             /\ Len(SubSeq(s, k + 1, Len(s))) = Len(s) - k
             /\ s = SubSeq(s, 1, k) \o SubSeq(s, k + 1, Len(s))
  <2>1. \A i \in 1 .. Len(s) : s[i] \in S
    BY ElementOfSeq
  <2>2. SubSeq(s, 1, k) \in Seq(S)
    <3>1. \A i \in 1 .. k : s[i] \in S
      BY <1>1, <2>1
    <3> QED
      BY <3>1, SubSeqProperties
  <2>3. /\ SubSeq(s, k + 1, Len(s)) \in Seq(S)
        /\ Len(SubSeq(s, k + 1, Len(s))) = Len(s) - k
    <3>1. \A i \in k + 1 .. Len(s) : s[i] \in S
      BY <1>1, <2>1
    <3>2. k + 1 \in Int /\ Len(s) \in Int
      BY <1>1
    <3>3. /\ SubSeq(s, k + 1, Len(s)) \in Seq(S)
          /\ Len(SubSeq(s, k + 1, Len(s)))
               = IF k + 1 <= Len(s) THEN Len(s) - (k + 1) + 1 ELSE 0
      BY <3>1, <3>2, SubSeqProperties, ZenonT(30)
    <3>4. CASE k + 1 <= Len(s)
      BY <3>3, <3>4, <1>1
    <3>5. CASE k = Len(s)
      BY <3>3, <3>5, <1>1
    <3>6. k + 1 <= Len(s) \/ k = Len(s)
      <4>1. Len(s) \in Nat
        BY <1>1
      <4> QED
        BY <4>1
    <3> QED
      BY <3>4, <3>5, <3>6, Zenon
  <2>4. SubSeq(s, 1, k) \o SubSeq(s, k + 1, Len(s)) = SubSeq(s, 1, Len(s))
    <3>1. /\ 1 \in 1 .. Len(s) + 1
          /\ k \in 1 - 1 .. Len(s)
          /\ Len(s) \in k .. Len(s)
      BY <1>1
    <3> QED
      BY <3>1, ConcatAdjacentSubSeq, ZenonT(30)
  <2> QED
    BY <1>1, <2>2, <2>3, <2>4
<1> QED
  BY <1>2, <1>3, <1>4, <1>5
(* A concatenation, known by its items.                                    *)
LEMMA Joined ==
  ASSUME NEW S, NEW s \in Seq(S), NEW t \in Seq(S), NEW u \in Seq(S),
         Len(u) = Len(s) + Len(t),
         \A i \in 1 .. Len(s) : u[i] = s[i],
         \A i \in 1 .. Len(t) : u[Len(s) + i] = t[i]
  PROVE  s \o t = u
<1>1. /\ s \o t \in Seq(S) /\ Len(s \o t) = Len(s) + Len(t)
      /\ \A i \in 1 .. Len(s) + Len(t) :
           (s \o t)[i] = IF i <= Len(s) THEN s[i] ELSE t[i - Len(s)]
  BY ConcatProperties
<1>2. Len(s) \in Nat /\ Len(t) \in Nat
  BY LenProperties
<1>3. ASSUME NEW i \in 1 .. Len(u) PROVE (s \o t)[i] = u[i]
  <2>1. CASE i <= Len(s)
    BY <1>1, <1>2, <2>1
  <2>2. CASE i > Len(s)
    <3>1. i - Len(s) \in 1 .. Len(t) /\ Len(s) + (i - Len(s)) = i
      BY <1>2, <2>2
    <3>2. u[Len(s) + (i - Len(s))] = t[i - Len(s)]
      BY <3>1
    <3>3. (s \o t)[i] = t[i - Len(s)]
      BY <1>1, <1>2, <2>2
    <3> QED
      BY <3>1, <3>2, <3>3
  <2> QED
    BY <1>2, <2>1, <2>2
<1> QED
  BY <1>1, <1>3, SeqEqual

LEMMA Regrouped ==
  ASSUME NEW s \in Seq(Item), NEW t \in Seq(Item), NEW u \in Seq(Item)
  PROVE  (s \o t) \o u = s \o (t \o u)
BY ConcatAssociative

LEMMA Tuples ==
  ASSUME NEW S
  PROVE  /\ \A a \in S : <<a>> \in Seq(S)
         /\ \A a, b \in S : <<a, b>> \in Seq(S)
         /\ \A a, b, c \in S : <<a, b, c>> \in Seq(S)
         /\ \A a, b, c, d \in S : <<a, b, c, d>> \in Seq(S)
OBVIOUS

LEMMA TwoAndOne ==
  ASSUME NEW a \in Item, NEW b \in Item, NEW c \in Item
  PROVE  <<a, b>> \o <<c>> = <<a, b, c>>
<1> DEFINE s == <<a, b>>
           t == <<c>>
           u == <<a, b, c>>
<1>1. s \in Seq(Item) /\ t \in Seq(Item) /\ u \in Seq(Item)
  OBVIOUS
<1>2. /\ Len(u) = Len(s) + Len(t)
      /\ \A i \in 1 .. Len(s) : u[i] = s[i]
      /\ \A i \in 1 .. Len(t) : u[Len(s) + i] = t[i]
  OBVIOUS
<1> HIDE DEF s, t, u
<1>3. s \o t = u
  BY <1>1, <1>2, Joined, Zenon
<1> QED
  BY <1>3 DEF s, t, u

LEMMA TwoAndTwo ==
  ASSUME NEW a \in Item, NEW b \in Item, NEW c \in Item, NEW d \in Item
  PROVE  <<a, b>> \o <<c, d>> = <<a, b, c, d>>
<1> DEFINE s == <<a, b>>
           t == <<c, d>>
           u == <<a, b, c, d>>
<1>1. s \in Seq(Item) /\ t \in Seq(Item) /\ u \in Seq(Item)
  OBVIOUS
<1>2. /\ Len(u) = Len(s) + Len(t)
      /\ \A i \in 1 .. Len(s) : u[i] = s[i]
      /\ \A i \in 1 .. Len(t) : u[Len(s) + i] = t[i]
  OBVIOUS
<1> HIDE DEF s, t, u
<1>3. s \o t = u
  BY <1>1, <1>2, Joined, Zenon
<1> QED
  BY <1>3 DEF s, t, u

LEMMA ThreeAndOne ==
  ASSUME NEW a \in Item, NEW b \in Item, NEW c \in Item, NEW d \in Item
  PROVE  <<a, b, c>> \o <<d>> = <<a, b, c, d>>
<1> DEFINE s == <<a, b, c>>
           t == <<d>>
           u == <<a, b, c, d>>
<1>1. s \in Seq(Item) /\ t \in Seq(Item) /\ u \in Seq(Item)
  OBVIOUS
<1>2. /\ Len(u) = Len(s) + Len(t)
      /\ \A i \in 1 .. Len(s) : u[i] = s[i]
      /\ \A i \in 1 .. Len(t) : u[Len(s) + i] = t[i]
  OBVIOUS
<1> HIDE DEF s, t, u
<1>3. s \o t = u
  BY <1>1, <1>2, Joined, Zenon
<1> QED
  BY <1>3 DEF s, t, u
-----------------------------------------------------------------------------
(* The lines of a head, the pages and the bytes are items.                 *)
LEMMA Items ==
  /\ \A n \in Int : /\ Line(n) \in Item /\ Length(n) \in Item /\ Page(n) \in Item
                    /\ <<"byte", n>> \in Item /\ <<"junk", n>> \in Item
  /\ Line(200) \in Item /\ Type \in Item /\ Blank \in Item /\ List \in Item
<1>1. 0 \in Int /\ 200 \in Int
  OBVIOUS
<1> QED
  BY <1>1, Zenon DEF Line, Length, Page, Type, Blank, List, Item

LEMMA Heads ==
  /\ Empty \in Seq(Item) /\ Listing \in Seq(Item)
  /\ <<Line(200), Type>> \in Seq(Item) /\ <<Blank>> \in Seq(Item) /\ <<List>> \in Seq(Item)
  /\ <<Line(200), Type>> \o <<Blank>> = Empty
  /\ Empty \o <<List>> = Listing
<1>1. Line(200) \in Item /\ Type \in Item /\ Blank \in Item /\ List \in Item
  BY Items, Zenon
<1>2. Empty \in Seq(Item)
  BY <1>1, Tuples, Zenon DEF Empty
<1>3. Listing \in Seq(Item)
  BY <1>1, Tuples, Zenon DEF Listing
<1>4. <<Line(200), Type>> \in Seq(Item) /\ <<Blank>> \in Seq(Item) /\ <<List>> \in Seq(Item)
  BY <1>1, Tuples, Zenon
<1>5. <<Line(200), Type>> \o <<Blank>> = Empty
  <2>1. <<Line(200), Type>> \o <<Blank>> = <<Line(200), Type, Blank>>
    BY <1>1, TwoAndOne
  <2> QED
    BY <2>1 DEF Empty
<1>6. Empty \o <<List>> = Listing
  BY <1>1, ThreeAndOne DEF Empty, Listing
<1> QED
  BY <1>2, <1>3, <1>4, <1>5, <1>6, Zenon

LEMMA NumberedHeads ==
  ASSUME NEW n \in Int
  PROVE  /\ Refusal(n) \in Seq(Item) /\ <<Page(n)>> \in Seq(Item)
         /\ <<Line(n), Type, Blank>> \in Seq(Item)
         /\ <<Length(n), Blank>> \in Seq(Item)
         /\ <<Line(200), Type, Length(n), Blank>> \in Seq(Item)
         /\ <<Line(n), Type, Blank>> \o <<Page(n)>> = Refusal(n)
         /\ <<Line(200), Type>> \o <<Length(n), Blank>>
              = <<Line(200), Type, Length(n), Blank>>
<1>1. /\ Line(n) \in Item /\ Length(n) \in Item /\ Page(n) \in Item
      /\ Line(200) \in Item /\ Type \in Item /\ Blank \in Item
  BY Items, Zenon
<1>2. <<Page(n)>> \in Seq(Item) /\ <<Length(n), Blank>> \in Seq(Item)
  BY <1>1, Tuples, Zenon
<1>3. <<Line(n), Type, Blank>> \in Seq(Item)
  BY <1>1, Tuples, Zenon
<1>4. <<Line(200), Type, Length(n), Blank>> \in Seq(Item)
  BY <1>1, Tuples, Zenon
<1>5. Refusal(n) \in Seq(Item)
  BY <1>1, Tuples, Zenon DEF Refusal
<1>6. <<Line(n), Type, Blank>> \o <<Page(n)>> = Refusal(n)
  BY <1>1, ThreeAndOne DEF Refusal
<1>7. <<Line(200), Type>> \o <<Length(n), Blank>>
       = <<Line(200), Type, Length(n), Blank>>
  BY <1>1, TwoAndTwo
<1> QED
  BY <1>2, <1>3, <1>4, <1>5, <1>6, <1>7, Zenon

LEMMA BodyType ==
  ASSUME NEW n \in -1 .. MaxSize, NEW part \in [1 .. n -> {"byte", "junk"}]
  PROVE  /\ [i \in 1 .. n |-> <<part[i], i>>] \in Seq(Item)
         /\ n > 0 => Len([i \in 1 .. n |-> <<part[i], i>>]) = n
         /\ n <= 0 => [i \in 1 .. n |-> <<part[i], i>>] = <<>>
<1> DEFINE body == [i \in 1 .. n |-> <<part[i], i>>]
<1>1. n \in Int
  BY RequestAssumption
<1>2. ASSUME NEW i \in 1 .. n PROVE <<part[i], i>> \in Item
  <2>1. i \in Int /\ (part[i] = "byte" \/ part[i] = "junk")
    BY <1>1
  <2> QED
    BY <2>1, Items, Zenon
<1>3. CASE n > 0
  <2>1. n \in Nat
    BY <1>1, <1>3
  <2>2. body \in Seq(Item) /\ Len(body) = n
    BY <1>2, <2>1
  <2> QED
    BY <1>1, <1>3, <2>2
<1>4. CASE n <= 0
  <2>1. 1 .. n = 1 .. 0
    BY <1>1, <1>4
  <2>2. body = [i \in 1 .. 0 |-> <<part[i], i>>]
    BY <2>1
  <2>3. [i \in 1 .. 0 |-> <<part[i], i>>] = <<>>
    OBVIOUS
  <2>4. body = <<>>
    BY <2>2, <2>3, Zenon
  <2>5. body \in Seq(Item)
    BY <2>4, EmptySeq
  <2> QED
    BY <1>1, <1>4, <2>4, <2>5
<1> QED
  BY <1>1, <1>3, <1>4

LEMMA WholeType ==
  ASSUME NEW n \in -1 .. MaxSize, NEW part \in [1 .. n -> {"byte", "junk"}]
  PROVE  /\ Whole(n, part) \in Seq(Item)
         /\ <<Line(200), Type, Length(n), Blank>> \in Seq(Item)
         /\ IsPrefix(<<Line(200), Type, Length(n), Blank>>, Whole(n, part))
<1>1. <<Line(200), Type, Length(n), Blank>> \in Seq(Item)
  <2>1. n \in Int
    BY RequestAssumption
  <2> QED
    BY <2>1, NumberedHeads, Zenon
<1> DEFINE head == <<Line(200), Type, Length(n), Blank>>
           body == [i \in 1 .. n |-> <<part[i], i>>]
<1>2. head \in Seq(Item) /\ body \in Seq(Item)
  BY <1>1, BodyType, Zenon
<1>3. Whole(n, part) = head \o body
  BY Zenon DEF Whole
<1> HIDE DEF head, body
<1>4. head \o body \in Seq(Item)
  BY <1>2, ConcatProperties, Zenon
<1>5. IsPrefix(head, head \o body)
  BY <1>2, PrefixOfConcat, Zenon
<1> QED
  BY <1>2, <1>3, <1>4, <1>5, Zenon DEF head

LEMMA ResponseTypes ==
  ASSUME len \in -1 .. MaxSize
  PROVE  /\ Targets \subseteq Seq(Item)
         /\ Responses \cup {Empty} \subseteq Seq(Item)
<1>1. /\ Refusal(400) \in Seq(Item) /\ Refusal(403) \in Seq(Item)
      /\ Refusal(404) \in Seq(Item) /\ Listing \in Seq(Item) /\ Empty \in Seq(Item)
  <2>1. ASSUME NEW n \in {400, 403, 404} PROVE Refusal(n) \in Seq(Item)
    <3>1. n \in Int
      OBVIOUS
    <3> QED
      BY <3>1, NumberedHeads
  <2>2. Listing \in Seq(Item) /\ Empty \in Seq(Item)
    BY Heads
  <2> QED
    BY <2>1, <2>2
<1>2. \A part \in [1 .. len -> {"byte", "junk"}] : Whole(len, part) \in Seq(Item)
  BY WholeType
<1>3. Responses \cup {Empty} \subseteq Seq(Item)
  <2>1. ASSUME NEW w \in Responses PROVE w \in Seq(Item)
    <3>1. CASE w \in {Refusal(400), Refusal(403), Refusal(404), Listing}
      BY <1>1, <3>1
    <3>2. CASE w \in {Whole(n, part) : n \in {len}, part \in [1 .. len -> {"byte", "junk"}]}
      BY <1>2, <3>2
    <3> QED
      BY <3>1, <3>2 DEF Responses
  <2>2. ASSUME NEW w \in Responses \cup {Empty} PROVE w \in Seq(Item)
    <3>1. w \in Responses \/ w = Empty
      OBVIOUS
    <3>2. Empty \in Seq(Item)
      BY Heads, Zenon
    <3> QED
      BY <2>1, <3>1, <3>2, Zenon
  <2> QED
    BY <2>2, Zenon
<1>4. len \in Int
  BY RequestAssumption
<1>5. /\ <<>> \in Seq(Item) /\ <<Line(200), Type>> \in Seq(Item)
      /\ <<Line(200), Type, Length(len), Blank>> \in Seq(Item)
  <2>1. <<>> \in Seq(Item)
    BY EmptySeq
  <2>2. <<Line(200), Type>> \in Seq(Item)
    BY Heads, Zenon
  <2>3. <<Line(200), Type, Length(len), Blank>> \in Seq(Item)
    BY <1>4, NumberedHeads, Zenon
  <2> QED
    BY <2>1, <2>2, <2>3, Zenon
<1>6. ASSUME NEW w \in Targets PROVE w \in Seq(Item)
  <2>1. \/ w \in Responses \cup {Empty} \/ w = <<>> \/ w = <<Line(200), Type>>
        \/ w = <<Line(200), Type, Length(len), Blank>>
    BY DEF Targets
  <2> QED
    BY <1>3, <1>5, <2>1, Zenon
<1> QED
  BY <1>3, <1>6, Zenon

(* Whatever has begun can still become a response.                         *)
LEMMA Completes ==
  ASSUME len \in -1 .. MaxSize, NEW r \in Targets, NEW s \in Seq(Item), IsPrefix(s, r)
  PROVE  \E whole \in Responses \cup {Empty} : IsPrefix(s, whole)
<1>1. CASE r \in Responses \cup {Empty}
  BY <1>1
<1>2. CASE r = <<>>
  <2>1. s = <<>>
    BY <1>2, EmptyPrefix
  <2>2. IsPrefix(s, Empty)
    BY <2>1, Heads, EmptyPrefix
  <2> QED
    BY <2>2
<1>3. CASE r = <<Line(200), Type>>
  <2>1. r \in Seq(Item) /\ <<Blank>> \in Seq(Item) /\ r \o <<Blank>> = Empty
    BY <1>3, Heads
  <2>2. IsPrefix(r, Empty)
    BY <2>1, PrefixOfConcat
  <2> QED
    BY <2>1, <2>2, PrefixTransitive, Heads
<1>4. CASE r = <<Line(200), Type, Length(len), Blank>>
  <2> DEFINE part == [i \in 1 .. len |-> "byte"]
  <2>1. part \in [1 .. len -> {"byte", "junk"}]
    OBVIOUS
  <2>2. Whole(len, part) \in Responses
    BY <2>1 DEF Responses
  <2>3. IsPrefix(s, Whole(len, part))
    BY <1>4, <2>1, WholeType, PrefixTransitive
  <2> QED
    BY <2>2, <2>3
<1> QED
  BY <1>1, <1>2, <1>3, <1>4 DEF Targets
-----------------------------------------------------------------------------
LEMMA Start == Init => IInv
<1> SUFFICES ASSUME Init PROVE IInv
  OBVIOUS
<1> USE DEF Init
<1>1. Types
  <2>1. text \in Seq(STRING) /\ 0 \in -1 .. MaxSize /\ 0 \in 0 .. MaxChanges
    BY RequestAssumption
  <2>2. fs \in [path : Objects, index : Objects]
    OBVIOUS
  <2> QED
    BY <2>1, <2>2, LenProperties, EmptySeq DEF Types
<1>2. BodyOK
  BY DEF BodyOK
<1>3. Targets = {<<>>} /\ pending = <<>>
  BY DEF Targets, stage, pending
<1>4. Heading(<<>>)
  BY <1>3, EmptyPrefix, ConcatEmptySeq, EmptySeq DEF Heading
<1> QED
  BY <1>1, <1>2, <1>3, <1>4 DEF IInv, OnTheWay

(* Nothing that the client or other users do touches the response.         *)
LEMMA Aside ==
  ASSUME IInv, UNCHANGED <<pc, todo, then, len, data, out>>, peer' = "broken" => peer = "broken",
         peer = "broken" => peer' = "broken"
  PROVE  BodyOK' /\ OnTheWay'
<1>1. BodyOK'
  BY DEF IInv, BodyOK
<1>2. Targets' = Targets /\ pending' = pending
  BY DEF Targets, stage, Responses, pending
<1>3. \A r : Heading(r) => Heading(r)'
  BY <1>2 DEF Heading
<1> QED
  BY <1>1, <1>2, <1>3 DEF IInv, OnTheWay

(* What is written next is decided: x will follow.                         *)
LEMMA NewStage ==
  ASSUME IInv, pc \notin {"headers", "send", "dead"}, UNCHANGED <<out, peer>>,
         len' \in -1 .. MaxSize, NEW x \in Seq(Item), pending' = x,
         \A r \in Targets : r \o x \in Targets'
  PROVE  OnTheWay'
<1>1. PICK r \in Targets : Heading(r)
  BY DEF IInv, OnTheWay
<1>2. r \in Seq(Item) /\ out \in Seq(Item)
  BY ResponseTypes DEF IInv, Types
<1>3. IsPrefix(out, r \o x)
  <2>1. r \o x \in Seq(Item)
    BY <1>2, ConcatProperties
  <2>2. IsPrefix(r, r \o x)
    BY <1>2, PrefixOfConcat
  <2> QED
    BY <1>1, <1>2, <2>1, <2>2, PrefixTransitive DEF Heading
<1>4. peer # "broken" => r = out
  <2>1. pending = <<>>
    BY DEF pending
  <2> QED
    BY <1>1, <1>2, <2>1, ConcatEmptySeq DEF Heading
<1>5. Heading(r \o x)'
  BY <1>3, <1>4 DEF Heading
<1> QED
  BY <1>1, <1>5 DEF OnTheWay

LEMMA Dies ==
  ASSUME IInv, UNCHANGED <<out, len>>, pc' = "dead"
  PROVE  OnTheWay'
<1>1. PICK r \in Targets : Heading(r)
  BY DEF IInv, OnTheWay
<1>2. len \in -1 .. MaxSize /\ out \in Seq(Item)
  BY DEF IInv, Types
<1>3. PICK whole \in Responses \cup {Empty} : IsPrefix(out, whole)
  BY <1>1, <1>2, Completes DEF Heading
<1>4. Targets' = Responses \cup {Empty}
  BY DEF Targets, stage, Responses
<1>5. Heading(whole)'
  BY <1>3 DEF Heading
<1> QED
  BY <1>3, <1>4, <1>5 DEF OnTheWay

(* x is written, or lost with all that would follow; y is still to come.   *)
LEMMA Sends ==
  ASSUME IInv, NEW x \in Seq(Item), NEW y \in Seq(Item), NEW to,
         pc # "dead", pending = x \o y, pending' = y, Targets' = Targets,
         Written(x, to)
  PROVE  OnTheWay'
<1>1. PICK r \in Targets : Heading(r)
  BY DEF IInv, OnTheWay
<1>2. out \in Seq(Item)
  BY DEF IInv, Types
<1>3. CASE peer' = "broken"
  <2>1. out' = out
    BY <1>3 DEF Written
  <2>2. Heading(r)'
    BY <1>1, <1>3, <2>1 DEF Heading
  <2> QED
    BY <1>1, <2>2 DEF OnTheWay
<1>4. CASE peer' # "broken"
  <2>1. out' = out \o x /\ peer # "broken"
    BY <1>4 DEF Written
  <2>2. r = out \o (x \o y)
    BY <1>1, <2>1 DEF Heading
  <2>3. r = out' \o y
    <3>1. out \o (x \o y) = (out \o x) \o y
      BY <1>2, Regrouped, Zenon
    <3> QED
      BY <2>1, <2>2, <3>1, Zenon
  <2>4. out' \in Seq(Item)
    BY <1>2, <2>1, ConcatProperties
  <2>5. IsPrefix(out', r)
    BY <2>3, <2>4, PrefixOfConcat
  <2>6. Heading(r)'
    BY <2>3, <2>5 DEF Heading
  <2> QED
    BY <1>1, <2>6 DEF OnTheWay
<1> QED
  BY <1>3, <1>4
-----------------------------------------------------------------------------
LEMMA ClientKeeps ==
  ASSUME IInv, Arrive \/ Leave
  PROVE  IInv'
<1>1. Types'
  <2>1. Len(text) \in Nat
    BY RequestAssumption, LenProperties DEF IInv, Types
  <2>2. CASE Arrive
    BY <2>1, <2>2 DEF IInv, Types, Arrive, file
  <2>3. CASE Leave
    BY <2>3 DEF IInv, Types, Leave, file
  <2> QED
    BY <2>2, <2>3
<1>2. BodyOK' /\ OnTheWay'
  BY Aside DEF Arrive, Leave, file
<1> QED
  BY <1>1, <1>2 DEF IInv

LEMMA FilesKeep ==
  ASSUME IInv, Replace \/ Resize
  PROVE  IInv'
<1>1. Types'
  <2>1. MaxChanges \in Nat /\ MaxSize \in Nat
    BY RequestAssumption
  <2>2. CASE Replace
    <3>1. changes' \in 0 .. MaxChanges
      BY <2>1, <2>2 DEF IInv, Types, Replace
    <3>2. fs' \in [path : Objects, index : Objects]
      BY <2>2 DEF IInv, Types, Replace
    <3> QED
      BY <2>2, <3>1, <3>2 DEF IInv, Types, Replace, client, file
  <2>3. CASE Resize
    <3>1. changes' \in 0 .. MaxChanges
      BY <2>1, <2>3 DEF IInv, Types, Resize
    <3>2. inode' \in Objects
      BY <2>3 DEF IInv, Types, Resize, Objects
    <3> QED
      BY <2>3, <3>1, <3>2 DEF IInv, Types, Resize, client
  <2> QED
    BY <2>2, <2>3
<1>2. BodyOK' /\ OnTheWay'
  BY Aside DEF Replace, Resize, client, file
<1> QED
  BY <1>1, <1>2 DEF IInv

LEMMA ParseKeeps ==
  ASSUME IInv, http_request_parse
  PROVE  IInv'
<1> USE DEF http_request_parse
<1>1. got' \in Seq(STRING)
  <2>1. text \in Seq(STRING) /\ Texts \cup {<<>>} \subseteq Seq(STRING)
    BY RequestAssumption, EmptySeq DEF IInv, Types
  <2>2. arrived \in Nat /\ arrived <= Len(text) /\ LIBHTTP_REQUEST_MAX_SIZE \in Nat
    BY <2>1, RequestAssumption, LenProperties DEF IInv, Types
  <2> DEFINE both == {arrived, LIBHTTP_REQUEST_MAX_SIZE}
  <2>3. \E m \in both : \A n \in both : m <= n
    BY <2>2
  <2>4. Min(both) \in both /\ \A n \in both : Min(both) <= n
    <3> HIDE DEF both
    <3> QED
      BY <2>3, Zenon DEF Min
  <2>5. Min(both) \in 0 .. Len(text)
    <3>1. Min(both) \in Nat /\ Min(both) <= arrived
      <4> HIDE DEF Min
      <4> QED
        BY <2>2, <2>4
    <3>2. Len(text) \in Nat
      BY <2>1, LenProperties
    <3> HIDE DEF both
    <3> QED
      BY <2>2, <3>1, <3>2
  <2>6. SubSeq(text, 1, Min(both)) \in Seq(STRING)
    <3> HIDE DEF both
    <3>1. \A i \in 1 .. Min(both) : text[i] \in STRING
      BY <2>1, <2>5, LenProperties
    <3>2. 1 \in Int /\ Min(both) \in Int
      BY <2>5
    <3> QED
      BY <3>1, <3>2, SubSeqProperties, ZenonT(30)
  <2> QED
    BY <2>1, <2>6
<1>2. Types'
  BY <1>1 DEF IInv, Types, client, file
<1>3. BodyOK'
  BY DEF IInv, BodyOK, file
<1>4. OnTheWay'
  <2>1. <<>> \in Seq(Item) /\ pending' = <<>>
    BY EmptySeq DEF pending
  <2>2. Targets = {<<>>} /\ Targets' = {<<>>}
    BY DEF Targets, stage
  <2>3. \A r \in Targets : r \o <<>> \in Targets'
    BY <2>1, <2>2, ConcatEmptySeq
  <2> QED
    BY <2>1, <2>3, NewStage DEF IInv, Types, client, file
<1> QED
  BY <1>2, <1>3, <1>4 DEF IInv

(* Respond decides about a head, and maybe the body with it.               *)
LEMMA RespondKeeps ==
  ASSUME IInv, pc \notin {"headers", "send", "dead"}, UNCHANGED <<out, peer>>,
         len' \in -1 .. MaxSize,
         NEW head \in Seq(Item), head # <<>>,
         NEW next \in {"send", "fopen", "fread", "opendir"},
         Respond(head, next),
         data' \in Seq(Item), next # "send" => data' = <<>>,
         Len(data') <= IF len' > 1 THEN len' ELSE 1,
         \A r \in Targets : r \o (IF next = "send" THEN head \o data' ELSE head) \in Targets'
  PROVE  BodyOK' /\ OnTheWay'
<1> DEFINE x == IF next = "send" THEN head \o data' ELSE head
<1>1. pc' = "headers" /\ todo' = head /\ then' = next
  BY DEF Respond
<1>2. BodyOK'
  BY <1>1 DEF BodyOK
<1>3. pending' = x
  BY <1>1 DEF pending
<1>4. x \in Seq(Item)
  BY ConcatProperties
<1>5. OnTheWay'
  <2> HIDE DEF x
  <2>1. \A r \in Targets : r \o x \in Targets'
    BY DEF x
  <2> QED
    BY <1>3, <1>4, <2>1, NewStage
<1> QED
  BY <1>2, <1>5

LEMMA RefuseKeeps ==
  ASSUME IInv, pc = "decide", NEW n \in {400, 403, 404}, Refuse(n),
         UNCHANGED <<client, fs, changes, got, inode, len, out>>
  PROVE  IInv'
<1>1. /\ pc' = "headers" /\ todo' = <<Line(n), Type, Blank>> /\ then' = "send"
      /\ data' = <<Page(n)>> /\ name' = name /\ peer' = peer
  BY DEF Refuse, Respond, client
<1>2. n \in Int
  OBVIOUS
<1>3. /\ <<Line(n), Type, Blank>> \in Seq(Item) /\ <<Page(n)>> \in Seq(Item)
      /\ <<Line(n), Type, Blank>> \o <<Page(n)>> = Refusal(n) /\ Refusal(n) \in Seq(Item)
  <2>1. <<Line(n), Type, Blank>> \in Seq(Item)
    BY <1>2, NumberedHeads, Zenon
  <2>2. <<Page(n)>> \in Seq(Item)
    BY <1>2, NumberedHeads, Zenon
  <2>3. <<Line(n), Type, Blank>> \o <<Page(n)>> = Refusal(n)
    BY <1>2, NumberedHeads, Zenon
  <2>4. Refusal(n) \in Seq(Item)
    BY <1>2, NumberedHeads, Zenon
  <2> QED
    BY <2>1, <2>2, <2>3, <2>4, Zenon
<1>4. Types'
  BY <1>1, <1>3 DEF IInv, Types, client
<1>5. BodyOK' /\ OnTheWay'
  <2>1. Targets = {<<>>}
    BY DEF Targets, stage
  <2>2. Targets' = Responses' \cup {Empty}
    BY <1>1 DEF Targets, stage
  <2>3. Refusal(n) \in Responses'
    BY DEF Responses
  <2>4. \A r \in Targets : r \o (<<Line(n), Type, Blank>> \o data') \in Targets'
    <3>1. <<>> \o Refusal(n) = Refusal(n)
      BY <1>3, ConcatEmptySeq, Zenon
    <3>2. <<Line(n), Type, Blank>> \o data' = Refusal(n)
      BY <1>1, <1>3, Zenon
    <3>3. Refusal(n) \in Targets'
      BY <2>2, <2>3, Zenon
    <3>4. <<>> \o (<<Line(n), Type, Blank>> \o data') \in Targets'
      BY <3>1, <3>2, <3>3, Zenon
    <3> QED
      BY <2>1, <3>4, Zenon
  <2>5. Len(data') = 1
    BY <1>1
  <2>6. <<Line(n), Type, Blank>> # <<>>
    OBVIOUS
  <2>7. len' \in -1 .. MaxSize /\ Len(data') <= IF len' > 1 THEN len' ELSE 1
    BY <2>5, RequestAssumption DEF IInv, Types
  <2> DEFINE head == <<Line(n), Type, Blank>>
  <2>8. Respond(head, "send") /\ data' \in Seq(Item) /\ head \in Seq(Item)
    BY <1>1, <1>3 DEF Respond
  <2> HIDE DEF head
  <2>9. head # <<>> /\ \A r \in Targets : r \o (head \o data') \in Targets'
    BY <2>4, <2>6 DEF head
  <2> QED
    BY <1>1, <2>7, <2>8, <2>9, RespondKeeps
<1> QED
  BY <1>4, <1>5 DEF IInv

LEMMA ServeFileKeeps ==
  ASSUME IInv, pc \in {"decide", "directory"}, NEW n \in {"path", "index"}, serve_file(n),
         UNCHANGED <<client, fs, changes, got, inode, len, out>>
  PROVE  IInv'
<1>1. /\ Respond(<<Line(200), Type>>, "fopen")
      /\ pc' = "headers" /\ todo' = <<Line(200), Type>> /\ then' = "fopen"
      /\ data' = data /\ name' = n /\ peer' = peer
  BY DEF serve_file, Respond, client
<1>2. <<Line(200), Type>> \in Seq(Item)
  BY Heads
<1>3. Types'
  BY <1>1, <1>2 DEF IInv, Types, client
<1>4. BodyOK' /\ OnTheWay'
  <2> DEFINE head == <<Line(200), Type>>
  <2>1. head # <<>>
    OBVIOUS
  <2>2. Targets = {<<>>} /\ Targets' = {head}
    BY <1>1 DEF Targets, stage
  <2> HIDE DEF head
  <2>3. head \in Seq(Item) /\ Respond(head, "fopen")
    BY <1>1, <1>2 DEF head
  <2>4. \A r \in Targets : r \o head \in Targets'
    BY <2>2, <2>3, ConcatEmptySeq
  <2>5. data' = <<>>
    BY <1>1 DEF IInv, BodyOK
  <2>6. /\ len' \in -1 .. MaxSize /\ Len(data') <= IF len' > 1 THEN len' ELSE 1
        /\ data' \in Seq(Item)
    BY <1>1 DEF IInv, Types, BodyOK
  <2> QED
    BY <1>1, <2>1, <2>3, <2>4, <2>5, <2>6, RespondKeeps
<1> QED
  BY <1>3, <1>4 DEF IInv
LEMMA DecideKeeps ==
  ASSUME IInv, handle_files_request
  PROVE  IInv'
<1>1. pc = "decide" /\ UNCHANGED <<client, fs, changes, got, inode, len, out>>
  BY DEF handle_files_request
<1>2. \/ \E n \in {400, 403, 404} : Refuse(n)
      \/ serve_file("path")
      \/ pc' = "directory" /\ UNCHANGED <<todo, then, name, data>>
  <2> DEFINE path == parsed(got)
  <2>1. CASE path = <<>> \/ path[1] # "/"
    <3>1. Refuse(400)
      BY <2>1 DEF handle_files_request
    <3> QED
      BY <3>1
  <2>2. CASE path # <<>> /\ path[1] = "/" /\ strstr(path)
    <3>1. Refuse(403)
      BY <2>2 DEF handle_files_request
    <3> QED
      BY <3>1
  <2>3. CASE path # <<>> /\ path[1] = "/" /\ ~strstr(path)
    <3>1. CASE fs.path.kind = "dir"
      BY <2>3, <3>1 DEF handle_files_request
    <3>2. CASE fs.path.kind = "file"
      BY <2>3, <3>2 DEF handle_files_request
    <3>3. CASE fs.path.kind \notin {"dir", "file"}
      BY <2>3, <3>3 DEF handle_files_request
    <3> QED
      BY <3>1, <3>2, <3>3
  <2> QED
    BY <2>1, <2>2, <2>3
<1>3. CASE \E n \in {400, 403, 404} : Refuse(n)
  BY <1>1, <1>3, RefuseKeeps
<1>4. CASE serve_file("path")
  BY <1>1, <1>4, ServeFileKeeps
<1>5. CASE pc' = "directory" /\ UNCHANGED <<todo, then, name, data>>
  <2>1. Types'
    BY <1>1, <1>5 DEF IInv, Types, client
  <2>2. BodyOK'
    BY <1>1, <1>5 DEF IInv, BodyOK
  <2>3. <<>> \in Seq(Item) /\ pending' = <<>>
    BY <1>5, EmptySeq DEF pending
  <2>4. Targets = {<<>>} /\ Targets' = {<<>>}
    BY <1>1, <1>5 DEF Targets, stage
  <2>5. \A r \in Targets : r \o <<>> \in Targets'
    BY <2>3, <2>4, ConcatEmptySeq
  <2>6. OnTheWay'
    BY <1>1, <2>1, <2>3, <2>5, NewStage DEF Types, client
  <2> QED
    BY <2>1, <2>2, <2>6 DEF IInv
<1> QED
  BY <1>2, <1>3, <1>4, <1>5

LEMMA DirectoryKeeps ==
  ASSUME IInv, serve_directory
  PROVE  IInv'
<1>1. pc = "directory" /\ UNCHANGED <<client, fs, changes, got, inode, len, out>>
  BY DEF serve_directory
<1>2. CASE fs.index.kind # "none"
  BY <1>1, <1>2, ServeFileKeeps DEF serve_directory
<1>3. CASE fs.index.kind = "none"
  <2>1. /\ Respond(Empty, "opendir") /\ UNCHANGED <<name, data>>
        /\ pc' = "headers" /\ todo' = Empty /\ then' = "opendir" /\ peer' = peer
    BY <1>1, <1>3 DEF serve_directory, Respond, Empty, client
  <2>2. Empty \in Seq(Item) /\ Empty # <<>>
    BY Heads DEF Empty
  <2>3. Types'
    BY <1>1, <2>1, <2>2 DEF IInv, Types, client
  <2>4. Targets = {<<>>} /\ Targets' = {Empty}
    BY <1>1, <2>1 DEF Targets, stage
  <2>5. \A r \in Targets : r \o Empty \in Targets'
    BY <2>2, <2>4, ConcatEmptySeq
  <2>6. data' = <<>>
    BY <1>1, <2>1 DEF IInv, BodyOK
  <2>7. /\ len' \in -1 .. MaxSize /\ Len(data') <= IF len' > 1 THEN len' ELSE 1
        /\ data' \in Seq(Item)
    BY <1>1, <2>1 DEF IInv, Types, BodyOK
  <2>8. BodyOK' /\ OnTheWay'
    BY <1>1, <2>1, <2>2, <2>5, <2>6, <2>7, RespondKeeps
  <2> QED
    BY <2>3, <2>8 DEF IInv
<1> QED
  BY <1>2, <1>3

LEMMA OpendirKeeps ==
  ASSUME IInv, opendir
  PROVE  IInv'
<1>1. /\ pc = "opendir" /\ Targets = {Empty}
      /\ UNCHANGED <<client, fs, changes, got, todo, then, file, out>>
      /\ peer' = peer /\ len' = len /\ data = <<>>
  BY DEF opendir, Targets, stage, client, file, IInv, BodyOK
<1>2. Empty \in Seq(Item) /\ <<List>> \in Seq(Item) /\ Empty \o <<List>> = Listing
  BY Heads
<1>3. len \in -1 .. MaxSize
  BY DEF IInv, Types
<1>4. CASE data' = <<List>> /\ pc' = "send"
  <2>1. Types'
    BY <1>1, <1>2, <1>4 DEF IInv, Types, client, file
  <2>2. BodyOK'
    <3>1. Len(data') = 1
      BY <1>4
    <3> QED
      BY <1>1, <1>3, <1>4, <3>1, RequestAssumption DEF BodyOK
  <2>3. Targets' = Responses' \cup {Empty} /\ Listing \in Responses' /\ pending' = <<List>>
    BY <1>4 DEF Targets, stage, Responses, pending
  <2>4. \A r \in Targets : r \o <<List>> \in Targets'
    BY <1>1, <1>2, <2>3, Zenon
  <2>5. OnTheWay'
    <3> DEFINE x == <<List>>
    <3>1. x \in Seq(Item) /\ pending' = x /\ \A r \in Targets : r \o x \in Targets'
      BY <1>2, <2>3, <2>4
    <3> HIDE DEF x
    <3> QED
      BY <1>1, <1>3, <3>1, NewStage
  <2> QED
    BY <2>1, <2>2, <2>5 DEF IInv
<1>5. CASE pc' = "done" /\ UNCHANGED data
  <2>1. Types'
    BY <1>1, <1>5 DEF IInv, Types, client, file
  <2>2. BodyOK'
    BY <1>1, <1>5 DEF IInv, BodyOK
  <2>3. Targets' = Responses' \cup {Empty} /\ pending' = <<>>
    BY <1>5 DEF Targets, stage, pending
  <2>4. <<>> \in Seq(Item) /\ \A r \in Targets : r \o <<>> \in Targets'
    BY <1>1, <1>2, <2>3, ConcatEmptySeq, EmptySeq
  <2>5. OnTheWay'
    BY <1>1, <1>3, <2>3, <2>4, NewStage
  <2> QED
    BY <2>1, <2>2, <2>5 DEF IInv
<1> QED
  BY <1>4, <1>5 DEF opendir
LEMMA FopenKeeps ==
  ASSUME IInv, fopen
  PROVE  IInv'
<1>1. /\ pc = "fopen" /\ Targets = {<<Line(200), Type>>} /\ data = <<>>
      /\ UNCHANGED <<client, fs, changes, got, name, data, out>> /\ peer' = peer
  BY DEF fopen, Targets, stage, client, IInv, BodyOK
<1>2. CASE pc' = "dead" /\ UNCHANGED <<inode, len, todo, then>>
  <2>1. Types'
    BY <1>1, <1>2 DEF IInv, Types, client
  <2>2. BodyOK'
    BY <1>1, <1>2 DEF IInv, BodyOK
  <2>3. OnTheWay'
    BY <1>1, <1>2, Dies
  <2> QED
    BY <2>1, <2>2, <2>3 DEF IInv
<1>3. CASE /\ inode' = fs[name]
           /\ len' \in IF fs[name].kind = "file" THEN {fs[name].size} ELSE -1 .. MaxSize
           /\ Respond(<<Length(len'), Blank>>, "fread")
  <2>1. fs[name] \in Objects
    BY DEF IInv, Types
  <2>2. len' \in -1 .. MaxSize
    BY <1>3, <2>1, RequestAssumption DEF Objects
  <2>3. len' \in Int
    BY <2>2, RequestAssumption
  <2>4. /\ <<Length(len'), Blank>> \in Seq(Item)
        /\ <<Line(200), Type>> \o <<Length(len'), Blank>>
             = <<Line(200), Type, Length(len'), Blank>>
    BY <2>3, NumberedHeads, Zenon
  <2>5. pc' = "headers" /\ todo' = <<Length(len'), Blank>> /\ then' = "fread"
    BY <1>3 DEF Respond
  <2>6. Types'
    BY <1>1, <1>3, <2>1, <2>2, <2>4, <2>5 DEF IInv, Types, client
  <2>7. Targets' = {<<Line(200), Type, Length(len'), Blank>>}
    BY <2>5 DEF Targets, stage
  <2>8. \A r \in Targets : r \o <<Length(len'), Blank>> \in Targets'
    BY <1>1, <2>4, <2>7, Zenon
  <2>9. BodyOK' /\ OnTheWay'
    <3> DEFINE head == <<Length(len'), Blank>>
    <3>1. head # <<>>
      OBVIOUS
    <3>2. /\ head \in Seq(Item) /\ Respond(head, "fread")
          /\ \A r \in Targets : r \o head \in Targets'
      BY <1>3, <2>4, <2>8
    <3>3. data' = <<>> /\ data' \in Seq(Item) /\ Len(data') <= IF len' > 1 THEN len' ELSE 1
      BY <1>1, <2>2, RequestAssumption, EmptySeq
    <3> HIDE DEF head
    <3> QED
      BY <1>1, <2>2, <3>1, <3>2, <3>3, RespondKeeps
  <2> QED
    BY <2>6, <2>9 DEF IInv
<1> QED
  BY <1>2, <1>3 DEF fopen

LEMMA FreadKeeps ==
  ASSUME IInv, fread
  PROVE  IInv'
<1>1. /\ pc = "fread" /\ Targets = {<<Line(200), Type, Length(len), Blank>>} /\ data = <<>>
      /\ UNCHANGED <<client, fs, changes, got, todo, then, file, out>>
      /\ peer' = peer /\ len' = len
  BY DEF fread, Targets, stage, client, file, IInv, BodyOK
<1>2. CASE pc' = "dead" /\ UNCHANGED data
  <2>1. Types'
    BY <1>1, <1>2 DEF IInv, Types, client, file
  <2>2. BodyOK'
    BY <1>1, <1>2 DEF IInv, BodyOK
  <2>3. OnTheWay'
    BY <1>1, <1>2, Dies
  <2> QED
    BY <2>1, <2>2, <2>3 DEF IInv
<1>3. CASE /\ data' = [i \in 1 .. len |-> <<IF i <= inode.size THEN "byte" ELSE "junk", i>>]
           /\ pc' = IF len > 0 THEN "send" ELSE "done"
  <2> DEFINE part == [i \in 1 .. len |-> IF i <= inode.size THEN "byte" ELSE "junk"]
  <2>1. len \in -1 .. MaxSize /\ len \in Int
    BY RequestAssumption DEF IInv, Types
  <2>2. part \in [1 .. len -> {"byte", "junk"}]
    OBVIOUS
  <2>3. data' = [i \in 1 .. len |-> <<part[i], i>>]
    BY <1>3
  <2> HIDE DEF part
  <2>4. /\ data' \in Seq(Item) /\ (len > 0 => Len(data') = len)
        /\ (len <= 0 => data' = <<>>)
    BY <2>1, <2>2, <2>3, BodyType, Zenon
  <2>5. Types'
    BY <1>1, <1>3, <2>4 DEF IInv, Types, client, file
  <2>6. BodyOK'
    <3>1. len <= 0 => Len(data') = 0
      BY <2>4
    <3>2. Len(data') <= IF len > 1 THEN len ELSE 1
      BY <2>1, <2>4, <3>1
    <3>3. pc' \in {"send", "done"}
      BY <1>3
    <3> QED
      BY <1>1, <3>2, <3>3 DEF BodyOK
  <2>7. Whole(len, part) \in Responses'
    BY <1>1, <2>2 DEF Responses
  <2>8. Targets' = Responses' \cup {Empty}
    BY <1>3 DEF Targets, stage
  <2>9. <<Line(200), Type, Length(len), Blank>> \o data' = Whole(len, part)
    BY <2>3, Zenon DEF Whole
  <2>10. \A r \in Targets : r \o data' \in Targets'
    BY <1>1, <2>7, <2>8, <2>9, Zenon
  <2>11. pending' = data'
    BY <1>3, <2>1, <2>4 DEF pending
  <2>12. OnTheWay'
    <3>1. pc \notin {"headers", "send", "dead"} /\ UNCHANGED <<out, peer>> /\ len' \in -1 .. MaxSize
      BY <1>1, <2>1
    <3> DEFINE x == data'
    <3>2. x \in Seq(Item) /\ pending' = x /\ \A r \in Targets : r \o x \in Targets'
      BY <2>4, <2>10, <2>11
    <3> HIDE DEF x
    <3> QED
      BY <3>1, <3>2, NewStage, Zenon
  <2> QED
    BY <2>5, <2>6, <2>12 DEF IInv
<1> QED
  BY <1>2, <1>3 DEF fread

(* An item of the head is written, or lost: it was the next one to come.    *)
LEMMA HeaderWrites ==
  ASSUME IInv, http_send_header,
         Written(<<Head(todo)>>, IF Len(todo) = 1 THEN then ELSE "headers")
  PROVE  /\ stage' = stage /\ pc' # "dead"
         /\ Len(todo) # 1 => Tail(todo) # <<>>
         /\ <<Head(todo)>> \in Seq(Item) /\ pending' \in Seq(Item)
         /\ pending = <<Head(todo)>> \o pending'
<1>1. /\ pc = "headers" /\ todo # <<>> /\ todo' = Tail(todo) /\ then' = then /\ data' = data
  BY DEF http_send_header, IInv, BodyOK
<1>2. /\ Head(todo) \in Item /\ Tail(todo) \in Seq(Item) /\ todo \in Seq(Item)
      /\ Len(Tail(todo)) = Len(todo) - 1 /\ todo = <<Head(todo)>> \o Tail(todo)
  BY <1>1, HeadTailProperties, Cut DEF IInv, Types
<1>3. Len(todo) \in Nat \ {0} /\ data \in Seq(Item) /\ <<Head(todo)>> \in Seq(Item)
  BY <1>1, <1>2, EmptySeq, Tuples DEF IInv, Types
<1>4. Len(todo) = 1 => Tail(todo) = <<>>
  <2>1. Len(todo) = 1 => Len(Tail(todo)) = 0
    BY <1>2, <1>3
  <2> QED
    BY <1>2, <2>1, EmptySeq
<1>5. Len(todo) # 1 => Tail(todo) # <<>>
  <2>1. Len(todo) # 1 => Len(Tail(todo)) # 0
    BY <1>2, <1>3
  <2>2. Len(<<>>) = 0
    OBVIOUS
  <2> QED
    BY <2>1, <2>2, Zenon
<1>6. /\ pc' = IF Len(todo) = 1 THEN then ELSE "headers"
      /\ then \in {"send", "fopen", "fread", "opendir", "done"}
  BY DEF Written, IInv, Types
<1>7. stage' = stage /\ pc' # "dead"
  BY <1>1, <1>6 DEF stage
<1> DEFINE y == IF then = "send" THEN Tail(todo) \o data ELSE Tail(todo)
<1>8. y \in Seq(Item)
  BY <1>2, <1>3, ConcatProperties
<1>9. pending = <<Head(todo)>> \o y
  <2>1. (<<Head(todo)>> \o Tail(todo)) \o data = <<Head(todo)>> \o (Tail(todo) \o data)
    BY <1>2, <1>3, Regrouped, Zenon
  <2>2. pending = IF then = "send" THEN todo \o data ELSE todo
    BY <1>1, Zenon DEF pending
  <2>3. CASE then = "send"
    BY <1>2, <2>1, <2>2, <2>3, Zenon
  <2>4. CASE then # "send"
    BY <1>2, <2>2, <2>4, Zenon
  <2> QED
    BY <2>3, <2>4
<1>10. pending' = y
  <2>1. CASE Len(todo) = 1
    <3>1. <<>> \o data = data
      BY <1>3, ConcatEmptySeq
    <3> QED
      BY <1>1, <1>4, <1>6, <2>1, <3>1 DEF pending
  <2>2. CASE Len(todo) # 1
    BY <1>1, <1>6, <2>2 DEF pending
  <2> QED
    BY <2>1, <2>2
<1> HIDE DEF y
<1> QED
  BY <1>3, <1>5, <1>7, <1>8, <1>9, <1>10, Zenon

LEMMA HeaderKeeps ==
  ASSUME IInv, http_send_header
  PROVE  IInv'
<1>1. /\ pc = "headers" /\ todo # <<>> /\ todo' = Tail(todo) /\ then' = then /\ data' = data
      /\ UNCHANGED <<text, arrived, fs, changes, got, then, file, data>> /\ len' = len
  BY DEF http_send_header, file, IInv, BodyOK
<1>2. Head(todo) \in Item /\ Tail(todo) \in Seq(Item)
  BY <1>1, HeadTailProperties DEF IInv, Types
<1>3. CASE Killed
  <2>1. pc' = "dead" /\ out' = out /\ peer' = peer
    BY <1>3 DEF Killed
  <2>2. Types'
    BY <1>1, <1>2, <2>1 DEF IInv, Types, file
  <2>3. BodyOK'
    BY <1>1, <2>1 DEF IInv, BodyOK
  <2>4. OnTheWay'
    BY <1>1, <2>1, Dies
  <2> QED
    BY <2>2, <2>3, <2>4 DEF IInv
<1>4. ASSUME Written(<<Head(todo)>>, IF Len(todo) = 1 THEN then ELSE "headers")
      PROVE  IInv'
  <2>1. /\ pc' = IF Len(todo) = 1 THEN then ELSE "headers"
        /\ peer' \in {"open", "closed", "reset", "broken"}
        /\ out' = out \o <<Head(todo)>> \/ out' = out
    BY <1>4 DEF Written, IInv, Types
  <2>2. /\ stage' = stage
        /\ Len(todo) # 1 => Tail(todo) # <<>>
        /\ <<Head(todo)>> \in Seq(Item) /\ pending' \in Seq(Item)
        /\ pending = <<Head(todo)>> \o pending'
    BY <1>4, HeaderWrites, Zenon
  <2>3. out' \in Seq(Item)
    <3>1. out \in Seq(Item)
      BY DEF IInv, Types
    <3>2. out \o <<Head(todo)>> \in Seq(Item)
      BY <2>2, <3>1, ConcatProperties, Zenon
    <3> QED
      BY <2>1, <3>1, <3>2, Zenon
  <2>4. then \in {"send", "fopen", "fread", "opendir", "done"}
    BY DEF IInv, Types
  <2>5. Types'
    BY <1>1, <1>2, <2>1, <2>3 DEF IInv, Types, file
  <2>6. BodyOK'
    BY <1>1, <2>1, <2>2, <2>4 DEF IInv, BodyOK
  <2>7. Targets' = Targets
    BY <1>1, <2>2 DEF Targets, Responses
  <2>8. OnTheWay'
    <3> DEFINE x == <<Head(todo)>>
               y == pending'
    <3>1. /\ x \in Seq(Item) /\ y \in Seq(Item) /\ pending = x \o y /\ pending' = y
          /\ Written(x, IF Len(todo) = 1 THEN then ELSE "headers")
      BY <1>4, <2>2
    <3>2. pc # "dead"
      BY <1>1
    <3> HIDE DEF x, y
    <3> QED
      BY <2>7, <3>1, <3>2, Sends, Zenon
  <2> QED
    BY <2>5, <2>6, <2>8 DEF IInv
<1> QED
  BY <1>3, <1>4 DEF http_send_header

(* k items of the body are written, or lost with all of the rest.          *)
LEMMA DataWrites ==
  ASSUME IInv, http_send_data, NEW k \in 1 .. Len(data),
         data' = SubSeq(data, k + 1, Len(data)),
         Written(SubSeq(data, 1, k), IF k = Len(data) \/ peer' = "broken" THEN "done" ELSE "send")
  PROVE  /\ pc' \in {"send", "done"}
         /\ SubSeq(data, 1, k) \in Seq(Item)
         /\ peer' # "broken" =>
              pending = SubSeq(data, 1, k) \o pending' /\ pending' \in Seq(Item)
<1>1. pc = "send" /\ pc' = IF k = Len(data) \/ peer' = "broken" THEN "done" ELSE "send"
  BY DEF http_send_data, Written
<1>2. data \in Seq(Item) /\ Len(data) \in Nat /\ data # <<>>
  BY EmptySeq, LenProperties DEF IInv, Types
<1>3. /\ SubSeq(data, 1, k) \in Seq(Item) /\ data' \in Seq(Item)
      /\ Len(data') = Len(data) - k
      /\ data = SubSeq(data, 1, k) \o data'
  BY <1>2, Cut
<1>4. pending = data
  BY <1>1 DEF pending
<1>5. k = Len(data) => data' = <<>>
  BY <1>2, <1>3, EmptySeq
<1>6. peer' # "broken" => pending' = data'
  BY <1>1, <1>5 DEF pending
<1>7. pc' \in {"send", "done"}
  BY <1>1
<1> QED
  BY <1>3, <1>4, <1>6, <1>7, Zenon

LEMMA DataKeeps ==
  ASSUME IInv, http_send_data
  PROVE  IInv'
<1>1. PICK k \in 1 .. Len(data) :
        /\ data' = SubSeq(data, k + 1, Len(data))
        /\ \/ Written(SubSeq(data, 1, k),
                      IF k = Len(data) \/ peer' = "broken" THEN "done" ELSE "send")
           \/ Killed
  BY DEF http_send_data
<1>2. /\ pc = "send" /\ UNCHANGED <<text, arrived, fs, changes, got, todo, then, file>>
      /\ len' = len
  BY DEF http_send_data, file
<1>3. data \in Seq(Item) /\ out \in Seq(Item) /\ len \in -1 .. MaxSize
  BY DEF IInv, Types
<1>4. data # <<>> /\ Len(data) \in Nat
  BY <1>3, EmptySeq, LenProperties
<1>5. data' \in Seq(Item) /\ Len(data') = Len(data) - k
  BY <1>1, <1>3, <1>4, Cut
<1>6. Len(data') <= IF len > 1 THEN len ELSE 1
  <2>1. Len(data) <= IF len > 1 THEN len ELSE 1
    BY DEF IInv, BodyOK
  <2> QED
    BY <1>3, <1>4, <1>5, <2>1, RequestAssumption
<1>7. CASE Killed
  <2>1. pc' = "dead" /\ out' = out /\ peer' = peer
    BY <1>7 DEF Killed
  <2>2. Types'
    BY <1>2, <1>5, <2>1 DEF IInv, Types, file
  <2>3. BodyOK'
    BY <1>2, <1>6, <2>1 DEF BodyOK
  <2>4. OnTheWay'
    BY <1>2, <2>1, Dies
  <2> QED
    BY <2>2, <2>3, <2>4 DEF IInv
<1>8. ASSUME Written(SubSeq(data, 1, k),
                     IF k = Len(data) \/ peer' = "broken" THEN "done" ELSE "send")
      PROVE  IInv'
  <2>1. /\ peer' \in {"open", "closed", "reset", "broken"}
        /\ out' = out \o SubSeq(data, 1, k) \/ out' = out
    BY <1>8 DEF Written, IInv, Types
  <2>2. /\ pc' \in {"send", "done"}
        /\ SubSeq(data, 1, k) \in Seq(Item)
        /\ peer' # "broken" =>
             pending = SubSeq(data, 1, k) \o pending' /\ pending' \in Seq(Item)
    BY <1>1, <1>8, DataWrites, Zenon
  <2>3. out' \in Seq(Item)
    <3>1. out \o SubSeq(data, 1, k) \in Seq(Item)
      BY <1>3, <2>2, ConcatProperties, Zenon
    <3> QED
      BY <1>3, <2>1, <3>1, Zenon
  <2>4. Types'
    BY <1>2, <1>5, <2>1, <2>2, <2>3 DEF IInv, Types, file
  <2>5. BodyOK'
    BY <1>2, <1>6, <2>2 DEF BodyOK
  <2>6. Targets' = Targets
    BY <1>2, <2>2 DEF Targets, stage, Responses
  <2>7. CASE peer' = "broken"
    <3>1. out' = out
      BY <1>8, <2>7 DEF Written
    <3>2. \A r : Heading(r) => Heading(r)'
      BY <2>7, <3>1 DEF Heading
    <3> QED
      BY <2>4, <2>5, <2>6, <3>2 DEF IInv, OnTheWay
  <2>8. CASE peer' # "broken"
    <3> DEFINE x == SubSeq(data, 1, k)
               y == pending'
    <3>1. /\ x \in Seq(Item) /\ y \in Seq(Item) /\ pending = x \o y /\ pending' = y
          /\ Written(x, IF k = Len(data) \/ peer' = "broken" THEN "done" ELSE "send")
          /\ pc # "dead"
      BY <1>2, <1>8, <2>2, <2>8
    <3> HIDE DEF x, y
    <3>2. OnTheWay'
      BY <2>6, <3>1, Sends, Zenon
    <3> QED
      BY <2>4, <2>5, <3>2 DEF IInv
  <2> QED
    BY <2>7, <2>8
<1> QED
  BY <1>1, <1>7, <1>8
-----------------------------------------------------------------------------
LEMMA Unchanged ==
  ASSUME IInv, UNCHANGED vars
  PROVE  IInv'
<1>1. Types'
  BY DEF IInv, Types, vars, client, file
<1>2. BodyOK' /\ OnTheWay'
  BY Aside DEF vars, client, file
<1> QED
  BY <1>1, <1>2 DEF IInv

LEMMA Step ==
  ASSUME IInv, [Next]_vars
  PROVE  IInv'
<1>1. CASE Arrive \/ Leave
  BY <1>1, ClientKeeps
<1>2. CASE Replace \/ Resize
  BY <1>2, FilesKeep
<1>3. CASE http_request_parse
  BY <1>3, ParseKeeps
<1>4. CASE handle_files_request
  BY <1>4, DecideKeeps
<1>5. CASE serve_directory
  BY <1>5, DirectoryKeeps
<1>6. CASE opendir
  BY <1>6, OpendirKeeps
<1>7. CASE fopen
  BY <1>7, FopenKeeps
<1>8. CASE fread
  BY <1>8, FreadKeeps
<1>9. CASE http_send_header
  BY <1>9, HeaderKeeps
<1>10. CASE http_send_data
  BY <1>10, DataKeeps
<1>11. CASE UNCHANGED vars
  BY <1>11, Unchanged
<1> QED
  BY <1>1, <1>2, <1>3, <1>4, <1>5, <1>6, <1>7, <1>8, <1>9, <1>10, <1>11 DEF Next, Handler

(* In every reachable state of server.c's handler IInv holds.              *)
THEOREM RequestInvariance == Spec => []IInv
BY Start, Step, PTL DEF Spec

(* Every variable of the handler keeps its type, and what waits to be sent *)
(* of a body never exceeds the announced length.                           *)
THEOREM RequestTyping == Spec => []TypeOK
<1>1. IInv => TypeOK
  BY DEF IInv, Types, BodyOK, TypeOK
<1> QED
  BY <1>1, RequestInvariance, PTL

(* What serve_file, serve_directory and the refusals have written is       *)
(* always the beginning of one response, all of it where nothing failed.   *)
THEOREM Framing == Spec => []OneResponse
<1>1. ASSUME IInv
      PROVE  OneResponse
  <2>1. /\ len \in -1 .. MaxSize /\ out \in Seq(Item) /\ Empty \in Seq(Item)
        /\ Listing \in Seq(Item) /\ Listing \in Responses
    BY <1>1, Heads DEF IInv, Types, Responses
  <2>2. IsPrefix(Empty, Listing)
    BY Heads, PrefixOfConcat
  <2>3. PICK r \in Targets : Heading(r)
    BY <1>1 DEF IInv, OnTheWay
  <2>4. CASE pc = "done" /\ peer = "open"
    <3>1. r \in Responses \cup {Empty}
      BY <2>3, <2>4 DEF Targets, stage
    <3>2. r \in Seq(Item) /\ pending = <<>>
      BY <2>1, <2>4, <3>1, ResponseTypes DEF pending
    <3>3. r = out /\ IsPrefix(out, r)
      BY <2>1, <2>3, <2>4, <3>2, ConcatEmptySeq DEF Heading
    <3>4. CASE r \in Responses
      BY <3>3, <3>4 DEF OneResponse
    <3>5. CASE r = Empty
      BY <2>1, <2>2, <3>3, <3>5 DEF OneResponse
    <3> QED
      BY <3>1, <3>4, <3>5
  <2>5. CASE ~(pc = "done" /\ peer = "open")
    <3>1. PICK whole \in Responses \cup {Empty} : IsPrefix(out, whole)
      BY <2>1, <2>3, Completes DEF Heading
    <3>2. CASE whole \in Responses
      BY <2>5, <3>1, <3>2 DEF OneResponse
    <3>3. CASE whole = Empty
      <4>1. IsPrefix(out, Listing)
        BY <2>1, <2>2, <3>1, <3>3, PrefixTransitive
      <4> QED
        BY <2>1, <2>5, <4>1 DEF OneResponse
    <3> QED
      BY <3>1, <3>2, <3>3
  <2> QED
    BY <2>4, <2>5
<1> QED
  BY <1>1, RequestInvariance, PTL
-----------------------------------------------------------------------------
LEMMA Part ==
  ASSUME NEW t \in Seq(STRING), NEW i \in 1 .. Len(t), NEW j \in i .. Len(t), NEW p,
         p = SubSeq(t, i, j)
  PROVE  p \in Seq(STRING) /\ Len(p) = j - i + 1 /\ \A h \in 1 .. j - i + 1 : p[h] = t[i + h - 1]
<1>1. Len(t) \in Nat /\ \A h \in 1 .. Len(t) : t[h] \in STRING
  BY LenProperties, ElementOfSeq
<1>2. \A h \in i .. j : t[h] \in STRING
  BY <1>1
<1>3. i \in Int /\ j \in Int /\ i <= j
  BY <1>1
<1>4. SubSeq(t, i, j) \in Seq(STRING)
  BY <1>2, <1>3, SubSeqProperties, ZenonT(30)
<1>5. Len(SubSeq(t, i, j)) = IF i <= j THEN j - i + 1 ELSE 0
  BY <1>2, <1>3, SubSeqProperties
<1>6. \A h \in 1 .. j - i + 1 : SubSeq(t, i, j)[h] = t[i + h - 1]
  BY <1>2, <1>3, SubSeqProperties
<1> QED
  BY <1>3, <1>4, <1>5, <1>6

(* A loop of http_request_parse stops at the first character that is not   *)
(* of its class: there is one, since the 0 is of none.                     *)
LEMMA FirstPast ==
  ASSUME NEW t \in Seq(STRING), NEW i \in 1 .. Len(t) + 1, NEW Class, NUL \notin Class
  PROVE  /\ past(t, i, Class) \in i .. Len(t) + 1
         /\ char(t, past(t, i, Class)) \notin Class
         /\ \A k \in i .. past(t, i, Class) - 1 : char(t, k) \in Class
<1> DEFINE Ends == {j \in i .. Len(t) + 1 : char(t, j) \notin Class}
<1>1. Len(t) \in Nat
  BY LenProperties
<1>2. Len(t) + 1 \in Ends
  BY <1>1 DEF char
<1>3. Ends \subseteq Nat
  BY <1>1
<1> HIDE DEF Ends
<1>4. PICK j \in Ends : \A k \in Ends : ~(<<k, j>> \in OpToRel(<, Nat))
  BY <1>2, <1>3, NatLessThanWellFounded, WFMin, Zenon
<1>5. \A k \in Ends : ~(k < j)
  BY <1>3, <1>4 DEF OpToRel
<1>6. /\ j \in i .. Len(t) + 1 /\ char(t, j) \notin Class
      /\ \A k \in i .. j - 1 : char(t, k) \in Class
  BY <1>1, <1>5 DEF Ends
<1>7. \E h \in i .. Len(t) + 1 :
        char(t, h) \notin Class /\ \A k \in i .. h - 1 : char(t, k) \in Class
  BY <1>6, Zenon
<1> QED
  BY <1>7, Zenon DEF past

LEMMA OnlyPast ==
  ASSUME NEW t \in Seq(STRING), NEW i \in 1 .. Len(t) + 1, NEW Class, NUL \notin Class,
         NEW j \in i .. Len(t), t[j] \notin Class, \A k \in i .. j - 1 : t[k] \in Class
  PROVE  past(t, i, Class) = j
<1> DEFINE m == past(t, i, Class)
<1>1. /\ m \in i .. Len(t) + 1 /\ char(t, m) \notin Class
      /\ \A k \in i .. m - 1 : char(t, k) \in Class
  BY FirstPast, Zenon
<1>2. Len(t) \in Nat
  BY LenProperties
<1> HIDE DEF m
<1>3. \A k \in i .. j : char(t, k) = t[k]
  BY <1>2 DEF char
<1>4. ~(m < j)
  BY <1>1, <1>2, <1>3
<1>5. ~(j < m)
  BY <1>1, <1>2, <1>3
<1>6. m = j
  BY <1>1, <1>2, <1>4, <1>5
<1> QED
  BY <1>6 DEF m

LEMMA Characters ==
  /\ NUL \notin Capital /\ NUL \notin InPath /\ NUL \notin InLine
  /\ SP \notin Capital /\ SP \notin InPath /\ NL \notin InPath /\ NL \notin InLine
  /\ NUL # SP /\ NUL # NL /\ "A" \in Capital
<1>1. NUL # SP /\ NUL # NL /\ NUL # "A" /\ SP # "A"
  BY Zenon DEF NUL, SP, NL
<1> QED
  BY <1>1 DEF Capital, InPath, InLine

(* The path that http_request_parse finds is the one that is asked for.    *)
LEMMA ParsedIsAsked ==
  ASSUME NEW t \in Seq(STRING), parsed(t) # <<>>
  PROVE  /\ Asks(t, parsed(t)) /\ parsed(t) \in Seq(STRING) /\ Len(parsed(t)) > 0
         /\ \E i, j \in 1 .. Len(t) : parsed(t) = SubSeq(t, i, j)
<1>1. PICK m, e, n, p :
        /\ m = past(t, 1, Capital) /\ e = past(t, m + 1, InPath) /\ n = past(t, e, InLine)
        /\ p = SubSeq(t, m + 1, e - 1) /\ p = parsed(t)
        /\ m > 1 /\ char(t, m) = SP /\ e > m + 1 /\ char(t, n) = NL
  BY DEF parsed
<1>2. Len(t) \in Nat /\ \A h \in 1 .. Len(t) : t[h] \in STRING
  BY LenProperties, ElementOfSeq
<1>3. /\ m \in 1 .. Len(t) + 1
      /\ \A k \in 1 .. m - 1 : char(t, k) \in Capital
  <2>1. 1 \in 1 .. Len(t) + 1
    BY <1>2
  <2> QED
    BY <1>1, <2>1, Characters, FirstPast, Zenon
<1>4. m \in 2 .. Len(t) /\ t[m] = SP
  BY <1>1, <1>2, <1>3, Characters DEF char
<1>5. /\ e \in m + 1 .. Len(t) + 1
      /\ char(t, e) \notin InPath
      /\ \A k \in m + 1 .. e - 1 : char(t, k) \in InPath
  <2>1. m + 1 \in 1 .. Len(t) + 1
    BY <1>2, <1>4
  <2> QED
    BY <1>1, <2>1, Characters, FirstPast, Zenon
<1>6. /\ n \in e .. Len(t) + 1
      /\ \A k \in e .. n - 1 : char(t, k) \in InLine
  <2>1. e \in 1 .. Len(t) + 1
    BY <1>2, <1>4, <1>5
  <2> QED
    BY <1>1, <2>1, Characters, FirstPast, Zenon
<1>7. n \in e .. Len(t) /\ t[n] = NL /\ e \in m + 2 .. Len(t)
  BY <1>1, <1>2, <1>4, <1>5, <1>6, Characters DEF char
<1>8. \A h \in 1 .. Len(t) : char(t, h) = t[h]
  BY DEF char
<1>9. \A h \in 1 .. m - 1 : t[h] = "A"
  BY <1>2, <1>3, <1>4, <1>8 DEF Capital
<1>10. \A h \in m + 1 .. e - 1 : t[h] \in InPath
  BY <1>2, <1>4, <1>5, <1>7, <1>8
<1>11. \A h \in e .. n - 1 : t[h] \in InLine
  BY <1>2, <1>4, <1>5, <1>6, <1>7, <1>8
<1>12. t[e] \in {SP, NL}
  <2>1. t[e] \in STRING /\ t[e] \notin InPath
    BY <1>2, <1>4, <1>5, <1>7, <1>8
  <2>2. t[e] # NUL
    <3>1. CASE e = n
      BY <1>7, <3>1, Characters
    <3>2. CASE e # n
      <4>1. e \in e .. n - 1
        BY <1>2, <1>4, <1>7, <3>2
      <4> QED
        BY <1>11, <4>1, Characters
    <3> QED
      BY <3>1, <3>2
  <2> QED
    BY <2>1, <2>2 DEF InPath
<1>13. \A h \in 1 .. n : t[h] # NUL
  <2> TAKE h \in 1 .. n
  <2>1. CASE h < m
    <3>1. h \in 1 .. m - 1
      BY <1>2, <1>4, <1>7, <2>1
    <3> QED
      BY <1>9, <3>1, Characters
  <2>2. CASE h = m
    BY <1>4, <2>2, Characters
  <2>3. CASE m < h /\ h < e
    <3>1. h \in m + 1 .. e - 1
      BY <1>2, <1>4, <1>7, <2>3
    <3> QED
      BY <1>10, <3>1, Characters
  <2>4. CASE e <= h /\ h < n
    <3>1. h \in e .. n - 1
      BY <1>2, <1>4, <1>7, <2>4
    <3> QED
      BY <1>11, <3>1, Characters
  <2>5. CASE h = n
    BY <1>7, <2>5, Characters
  <2> QED
    BY <1>2, <1>4, <1>7, <2>1, <2>2, <2>3, <2>4, <2>5
<1>14. /\ p \in Seq(STRING) /\ Len(p) = e - 1 - m
       /\ \A h \in 1 .. e - 1 - m : p[h] = t[m + h]
  <2>1. m + 1 \in 1 .. Len(t) /\ e - 1 \in m + 1 .. Len(t)
    BY <1>2, <1>4, <1>7
  <2>2. PICK a, b : a = m + 1 /\ b = e - 1
    OBVIOUS
  <2>3. a \in 1 .. Len(t) /\ b \in a .. Len(t) /\ p = SubSeq(t, a, b)
    BY <1>1, <2>1, <2>2
  <2>4. p \in Seq(STRING) /\ Len(p) = b - a + 1 /\ \A h \in 1 .. b - a + 1 : p[h] = t[a + h - 1]
    BY <2>3, Part, Zenon
  <2> QED
    BY <1>4, <1>7, <2>2, <2>4
<1>15. ToSet(p) \cap {SP, NL} = {}
  <2> SUFFICES ASSUME NEW h \in DOMAIN p PROVE p[h] \notin {SP, NL}
    BY DEF ToSet
  <2>1. h \in 1 .. e - 1 - m
    BY <1>14
  <2>2. m + h \in m + 1 .. e - 1 /\ p[h] = t[m + h]
    BY <1>4, <1>7, <1>14, <2>1
  <2> QED
    BY <1>10, <2>2, Characters
<1>16. Asks(t, p)
  <2>1. /\ m \in 1 .. Len(t) /\ e \in 1 .. Len(t) /\ n \in 1 .. Len(t)
        /\ 1 < m /\ m + 1 < e /\ e <= n
    BY <1>2, <1>4, <1>7
  <2>2. p = SubSeq(t, m + 1, e - 1)
    BY <1>1
  <2>3. \A h \in e .. n - 1 : t[h] # NL
    BY <1>11, Characters
  <2> QED
    BY <1>4, <1>7, <1>9, <1>12, <1>13, <1>15, <2>1, <2>2, <2>3, Zenon DEF Asks
<1>17. Len(p) > 0
  BY <1>4, <1>7, <1>14
<1>18. m + 1 \in 1 .. Len(t) /\ e - 1 \in 1 .. Len(t) /\ p = SubSeq(t, m + 1, e - 1)
  <2>1. m + 1 \in 1 .. Len(t) /\ e - 1 \in 1 .. Len(t)
    BY <1>2, <1>4, <1>7
  <2> QED
    BY <1>1, <2>1, Zenon
<1> QED
  BY <1>1, <1>14, <1>16, <1>17, <1>18

(* There is no other.                                                      *)
LEMMA AskedIsParsed ==
  ASSUME NEW t \in Seq(STRING), NEW p, Asks(t, p)
  PROVE  p = parsed(t) /\ p # <<>>
<1>1. PICK i, j, k \in 1 .. Len(t) :
        /\ 1 < i /\ i + 1 < j /\ j <= k
        /\ \A h \in 1 .. i - 1 : t[h] = "A"
        /\ t[i] = SP /\ p = SubSeq(t, i + 1, j - 1) /\ ToSet(p) \cap {SP, NL} = {}
        /\ t[j] \in {SP, NL}
        /\ t[k] = NL /\ \A h \in j .. k - 1 : t[h] # NL
        /\ \A h \in 1 .. k : t[h] # NUL
  BY Zenon DEF Asks
<1>2. Len(t) \in Nat /\ \A h \in 1 .. Len(t) : t[h] \in STRING
  BY LenProperties, ElementOfSeq
<1>3. /\ p \in Seq(STRING) /\ Len(p) = j - 1 - i
      /\ \A h \in 1 .. j - 1 - i : p[h] = t[i + h]
  <2>1. i + 1 \in 1 .. Len(t) /\ j - 1 \in i + 1 .. Len(t)
    BY <1>1, <1>2
  <2>2. PICK a, b : a = i + 1 /\ b = j - 1
    OBVIOUS
  <2>3. a \in 1 .. Len(t) /\ b \in a .. Len(t) /\ p = SubSeq(t, a, b)
    BY <1>1, <2>1, <2>2
  <2>4. p \in Seq(STRING) /\ Len(p) = b - a + 1 /\ \A h \in 1 .. b - a + 1 : p[h] = t[a + h - 1]
    BY <2>3, Part, Zenon
  <2> QED
    BY <1>1, <1>2, <2>2, <2>4
<1>4. past(t, 1, Capital) = i
  <2>1. /\ 1 \in 1 .. Len(t) + 1 /\ i \in 1 .. Len(t) /\ t[i] \notin Capital
        /\ \A h \in 1 .. i - 1 : t[h] \in Capital
    BY <1>1, <1>2, Characters
  <2> QED
    BY <2>1, Characters, OnlyPast, Zenon
<1>5. past(t, i + 1, InPath) = j
  <2>1. i + 1 \in 1 .. Len(t) + 1 /\ j \in i + 1 .. Len(t)
    BY <1>1, <1>2
  <2>2. t[j] \notin InPath
    BY <1>1, Characters
  <2>3. ASSUME NEW h \in i + 1 .. j - 1 PROVE t[h] \in InPath
    <3>1. h - i \in DOMAIN p /\ p[h - i] = t[h]
      BY <1>1, <1>2, <1>3
    <3>2. t[h] \notin {SP, NL}
      BY <1>1, <3>1 DEF ToSet
    <3>3. t[h] \in STRING /\ t[h] # NUL
      BY <1>1, <1>2
    <3> QED
      BY <3>2, <3>3 DEF InPath
  <2> QED
    BY <2>1, <2>2, <2>3, Characters, OnlyPast, Zenon
<1>6. past(t, j, InLine) = k
  <2>1. j \in 1 .. Len(t) + 1 /\ k \in j .. Len(t)
    BY <1>1, <1>2
  <2>2. t[k] \notin InLine
    BY <1>1, Characters
  <2>3. ASSUME NEW h \in j .. k - 1 PROVE t[h] \in InLine
    BY <1>1, <1>2 DEF InLine
  <2> QED
    BY <2>1, <2>2, <2>3, Characters, OnlyPast, Zenon
<1>7. char(t, i) = SP /\ char(t, k) = NL /\ i > 1 /\ j > i + 1
  BY <1>1, <1>2 DEF char
<1>8. p = parsed(t)
  BY <1>1, <1>4, <1>5, <1>6, <1>7 DEF parsed
<1>9. p # <<>>
  <2>1. Len(p) > 0
    BY <1>1, <1>2, <1>3
  <2> QED
    BY <2>1
<1> QED
  BY <1>8, <1>9

LEMMA PathsParsed ==
  ASSUME NEW t \in Seq(STRING)
  PROVE  Paths(t) = IF parsed(t) # <<>> /\ parsed(t)[1] = "/" THEN {parsed(t)} ELSE {}
<1>1. \A p \in Paths(t) : p = parsed(t) /\ p # <<>> /\ p[1] = "/"
  <2> TAKE p \in Paths(t)
  <2>1. Asks(t, p) /\ p[1] = "/"
    BY SMT DEF Paths
  <2> QED
    BY <2>1, AskedIsParsed, Zenon
<1>2. ASSUME parsed(t) # <<>>, parsed(t)[1] = "/" PROVE parsed(t) \in Paths(t)
  <2>1. PICK i, j \in 1 .. Len(t) : parsed(t) = SubSeq(t, i, j)
    BY <1>2, ParsedIsAsked, Zenon
  <2>2. Asks(t, parsed(t))
    BY <1>2, ParsedIsAsked, Zenon
  <2> DEFINE parts == {SubSeq(t, k, l) : k, l \in 1 .. Len(t)}
  <2>3. parsed(t) \in parts
    BY <2>1
  <2>4. Paths(t) = {p \in parts : Asks(t, p) /\ p[1] = "/"}
    BY DEF Paths
  <2> HIDE DEF parts
  <2> QED
    BY <1>2, <2>2, <2>3, <2>4, Zenon
<1> QED
  BY <1>1, <1>2, Zenon

LEMMA DotDot ==
  ASSUME NEW p \in Seq(STRING)
  PROVE  strstr(p) <=> <<".", ".">> \in {SubSeq(p, i, i + 1) : i \in 1 .. Len(p) - 1}
<1>1. ASSUME NEW i \in 1 .. Len(p) - 1
      PROVE  <<".", ".">> = SubSeq(p, i, i + 1) <=> p[i] = "." /\ p[i + 1] = "."
  <2>1. PICK j : j = i + 1
    OBVIOUS
  <2>2. i \in 1 .. Len(p) /\ j \in i .. Len(p)
    BY <2>1, LenProperties
  <2> DEFINE q == SubSeq(p, i, j)
  <2>3. q \in Seq(STRING) /\ Len(q) = j - i + 1 /\ \A h \in 1 .. j - i + 1 : q[h] = p[i + h - 1]
    BY <2>2, Part, Zenon
  <2> HIDE DEF q
  <2>4. Len(q) = 2 /\ q[1] = p[i] /\ q[2] = p[i + 1]
    BY <2>1, <2>2, <2>3
  <2>5. PICK dot : dot = "."
    OBVIOUS
  <2> DEFINE d == <<dot, dot>>
  <2>6. (dot \in STRING => d \in Seq(STRING)) /\ Len(d) = 2 /\ d[1] = dot /\ d[2] = dot
    OBVIOUS
  <2> HIDE DEF d
  <2>7. d = q <=> q[1] = dot /\ q[2] = dot
    <3>1. ASSUME q[1] = dot, q[2] = dot PROVE d = q
      <4>1. Len(d) = Len(q) /\ \A h \in 1 .. Len(d) : d[h] = q[h]
        BY <2>4, <2>6, <3>1
      <4>2. dot \in STRING
        <5>1. 1 \in 1 .. Len(q)
          BY <2>4
        <5>2. q[1] \in STRING
          BY <2>3, <5>1, ElementOfSeq, Zenon
        <5> QED
          BY <3>1, <5>2, Zenon
      <4> QED
        BY <2>3, <2>6, <4>1, <4>2, SeqEqual, Zenon
    <3> QED
      BY <2>6, <3>1, Zenon
  <2> QED
    BY <2>1, <2>4, <2>5, <2>7, Zenon DEF q, d
<1>2. strstr(p) <=> \E i \in 1 .. Len(p) - 1 : <<".", ".">> = SubSeq(p, i, i + 1)
  BY <1>1, Zenon DEF strstr
<1> QED
  BY <1>2, Zenon

(* handle_files_request decides as it should.                              *)
LEMMA Decision ==
  ASSUME got \in Seq(STRING)
  PROVE  LET path == parsed(got)
         IN /\ path = <<>> \/ path[1] # "/" => Expected(got) = Refusal(400)
            /\ path # <<>> /\ path[1] = "/" /\ strstr(path) => Expected(got) = Refusal(403)
            /\ path # <<>> /\ path[1] = "/" /\ ~strstr(path) => Expected(got) = Answer
<1> DEFINE path == parsed(got)
           dots == \E p \in Paths(got) :
                     <<".", ".">> \in {SubSeq(p, i, i + 1) : i \in 1 .. Len(p) - 1}
<1>1. Paths(got) = IF path # <<>> /\ path[1] = "/" THEN {path} ELSE {}
  BY PathsParsed, Zenon
<1>2. path # <<>> => path \in Seq(STRING)
  BY ParsedIsAsked, Zenon
<1>3. path # <<>> /\ path[1] = "/" => (dots <=> strstr(path))
  BY <1>1, <1>2, DotDot, Zenon
<1>4. /\ Paths(got) = {} => Expected(got) = Refusal(400)
      /\ Paths(got) # {} /\ dots => Expected(got) = Refusal(403)
      /\ Paths(got) # {} /\ ~dots => Expected(got) = Answer
  <2>1. dots => Paths(got) # {}
    OBVIOUS
  <2> QED
    BY <2>1 DEF Expected, Answer, Content
<1> HIDE DEF path, dots
<1>5. path = <<>> \/ path[1] # "/" <=> Paths(got) = {}
  BY <1>1
<1>6. /\ path = <<>> \/ path[1] # "/" => Expected(got) = Refusal(400)
      /\ path # <<>> /\ path[1] = "/" /\ strstr(path) => Expected(got) = Refusal(403)
      /\ path # <<>> /\ path[1] = "/" /\ ~strstr(path) => Expected(got) = Answer
  BY <1>3, <1>4, <1>5, Zenon
<1> QED
  BY <1>6 DEF path

LEMMA SameAnswer ==
  ASSUME UNCHANGED <<fs, got>>
  PROVE  Expected(got)' = Expected(got) /\ Answer' = Answer
BY DEF Expected, Answer, Content

LEMMA ChosenFile ==
  ASSUME Chosen
  PROVE  Answer = Content(fs[name]) /\ fs[name].kind = "file"
BY DEF Chosen, Answer

(* Before the last decision it is known what has been written.             *)
LEMMA SoFar ==
  ASSUME IInv, NEW r, Targets = {r}, peer # "broken", pc # "dead", pc # "headers", pc # "send"
  PROVE  out = r /\ out \in Seq(Item)
<1>1. out \in Seq(Item) /\ r = out \o pending
  BY DEF IInv, Types, OnTheWay, Heading
<1>2. pending = <<>>
  BY DEF pending
<1> QED
  BY <1>1, <1>2, ConcatEmptySeq

LEMMA CourseSame ==
  ASSUME Course, UNCHANGED <<fs, got, pc, todo, then, name, inode, len, data, out>>
  PROVE  Course'
<1>1. Expected(got)' = Expected(got) /\ Answer' = Answer
  BY SameAnswer
<1>2. stage' = stage /\ pending' = pending /\ (Chosen' <=> Chosen)
  BY DEF stage, pending, Chosen
<1> QED
  BY <1>1, <1>2 DEF Course
-----------------------------------------------------------------------------
LEMMA FilesPromise ==
  ASSUME IInv, PInv, Replace \/ Resize
  PROVE  PInv'
<1>1. changes \in Nat /\ changes' = changes + 1
  BY DEF IInv, Types, Replace, Resize
<1>2. ~Quiet'
  BY <1>1 DEF Quiet
<1>3. fs'.index.kind # "other"
  <2>1. fs \in [path : Objects, index : Objects]
    BY DEF IInv, Types
  <2> QED
    BY <2>1 DEF PInv, Replace, Resize, client
<1> QED
  BY <1>2, <1>3 DEF PInv

LEMMA ClientPromise ==
  ASSUME PInv, Arrive \/ Leave \/ http_request_parse \/ UNCHANGED vars
  PROVE  PInv'
<1>1. UNCHANGED <<fs, changes, todo, then, name, inode, len, data, out>>
  BY DEF Arrive, Leave, http_request_parse, vars, client, file
<1>2. CASE Leave
  <2>1. ~Quiet'
    BY <1>2 DEF Leave, Quiet
  <2> QED
    BY <1>1, <2>1 DEF PInv
<1>3. CASE Arrive \/ UNCHANGED vars
  <2>1. UNCHANGED <<got, pc, peer>>
    BY <1>3 DEF Arrive, vars, client
  <2>2. Quiet' => Quiet
    BY <1>1, <2>1 DEF Quiet
  <2>3. Course => Course'
    BY <1>1, <2>1, CourseSame
  <2> QED
    BY <1>1, <2>2, <2>3 DEF PInv
<1>4. CASE http_request_parse
  <2>1. pc' = "decide"
    BY <1>4 DEF http_request_parse
  <2>2. Course'
    BY <2>1 DEF Course, stage
  <2> QED
    BY <1>1, <2>2 DEF PInv
<1> QED
  BY <1>2, <1>3, <1>4

LEMMA DecidePromise ==
  ASSUME IInv, PInv, handle_files_request
  PROVE  PInv'
<1>1. /\ pc = "decide"
      /\ UNCHANGED <<fs, got, changes, peer, inode, len, out>>
  BY DEF handle_files_request, client
<1>2. fs.index.kind # "other" /\ fs'.index.kind # "other"
  BY <1>1 DEF PInv
<1> SUFFICES ASSUME Quiet' PROVE Course'
  BY <1>2 DEF PInv
<1>3. peer # "broken" /\ fs.index.kind # "dir"
  BY <1>1 DEF Quiet
<1>4. out = <<>>
  <2>1. Targets = {<<>>}
    BY <1>1 DEF Targets, stage
  <2> QED
    BY <1>1, <1>3, <2>1, SoFar
<1>5. Expected(got)' = Expected(got) /\ Answer' = Answer
  BY <1>1, SameAnswer
<1>6. ASSUME NEW n \in {400, 403, 404}, Refuse(n), Expected(got) = Refusal(n)
      PROVE  Course'
  <2>1. /\ pc' = "headers" /\ todo' = <<Line(n), Type, Blank>> /\ then' = "send"
        /\ data' = <<Page(n)>>
    BY <1>6 DEF Refuse, Respond
  <2>2. pending' = todo' \o data'
    BY <2>1 DEF pending
  <2>3. n \in Int
    OBVIOUS
  <2>4. <<Line(n), Type, Blank>> \o <<Page(n)>> = Refusal(n) /\ Refusal(n) \in Seq(Item)
    <3>1. <<Line(n), Type, Blank>> \o <<Page(n)>> = Refusal(n)
      BY <2>3, NumberedHeads, Zenon
    <3>2. Refusal(n) \in Seq(Item)
      BY <2>3, NumberedHeads, Zenon
    <3> QED
      BY <3>1, <3>2, Zenon
  <2>5. pending' = Refusal(n) /\ pending' \in Seq(Item)
    BY <2>1, <2>2, <2>4, Zenon
  <2>6. out' \o pending' = Refusal(n)
    BY <1>1, <1>4, <2>5, ConcatEmptySeq
  <2>7. stage' = "send" /\ pc' # "dead"
    BY <2>1 DEF stage
  <2> QED
    BY <1>5, <1>6, <2>6, <2>7 DEF Course
<1> DEFINE path == parsed(got)
<1>7. got \in Seq(STRING) /\ fs.path.kind \in {"none", "file", "dir", "other"}
  BY DEF IInv, Types, Objects
<1>8. /\ path = <<>> \/ path[1] # "/" => Expected(got) = Refusal(400)
      /\ path # <<>> /\ path[1] = "/" /\ strstr(path) => Expected(got) = Refusal(403)
      /\ path # <<>> /\ path[1] = "/" /\ ~strstr(path) => Expected(got) = Answer
  BY <1>7, Decision, Zenon
<1>9. CASE path = <<>> \/ path[1] # "/"
  <2>1. Refuse(400)
    BY <1>9 DEF handle_files_request
  <2> QED
    BY <1>6, <1>8, <1>9, <2>1
<1>10. CASE path # <<>> /\ path[1] = "/" /\ strstr(path)
  <2>1. Refuse(403)
    BY <1>10 DEF handle_files_request
  <2> QED
    BY <1>6, <1>8, <1>10, <2>1
<1>11. CASE path # <<>> /\ path[1] = "/" /\ ~strstr(path)
  <2>1. CASE fs.path.kind = "dir"
    <3>1. pc' = "directory"
      BY <1>11, <2>1 DEF handle_files_request
    <3>2. stage' = "directory"
      BY <3>1 DEF stage
    <3> QED
      BY <1>1, <1>5, <1>8, <1>11, <2>1, <3>1, <3>2 DEF Course
  <2>2. CASE fs.path.kind = "file"
    <3>1. serve_file("path")
      BY <1>11, <2>2 DEF handle_files_request
    <3>2. stage' = "fopen" /\ pc' = "headers" /\ name' = "path"
      BY <3>1 DEF serve_file, Respond, stage
    <3>3. Chosen'
      BY <1>1, <2>2, <3>2 DEF Chosen
    <3> QED
      BY <1>5, <1>8, <1>11, <3>2, <3>3 DEF Course
  <2>3. CASE fs.path.kind \notin {"dir", "file"}
    <3>1. Refuse(404)
      BY <1>11, <2>3 DEF handle_files_request
    <3>2. Answer = Refusal(404)
      BY <2>3 DEF Answer
    <3> QED
      BY <1>6, <1>8, <1>11, <3>1, <3>2
  <2> QED
    BY <2>1, <2>2, <2>3
<1> QED
  BY <1>9, <1>10, <1>11

LEMMA DirectoryPromise ==
  ASSUME IInv, PInv, serve_directory
  PROVE  PInv'
<1>1. /\ pc = "directory" /\ stage = "directory"
      /\ UNCHANGED <<fs, got, changes, peer>>
  BY DEF serve_directory, client, stage
<1>2. fs.index.kind # "other" /\ fs'.index.kind # "other"
  BY <1>1 DEF PInv
<1> SUFFICES ASSUME Quiet' PROVE Course'
  BY <1>2 DEF PInv
<1>3. Expected(got)' = Answer' /\ fs.path.kind = "dir" /\ fs.index.kind # "dir"
  <2>1. Quiet
    BY <1>1 DEF Quiet
  <2> QED
    BY <1>1, <2>1, SameAnswer DEF PInv, Course, Quiet
<1>4. fs.index.kind \in {"none", "file"}
  BY <1>2, <1>3 DEF IInv, Types, Objects
<1>5. CASE fs.index.kind = "file"
  <2>1. stage' = "fopen" /\ pc' = "headers" /\ name' = "index"
    BY <1>5 DEF serve_directory, serve_file, Respond, stage
  <2>2. Chosen'
    BY <1>1, <1>3, <1>5, <2>1 DEF Chosen
  <2> QED
    BY <1>3, <2>1, <2>2 DEF Course
<1>6. CASE fs.index.kind = "none"
  <2>1. stage' = "opendir" /\ pc' = "headers"
    BY <1>6 DEF serve_directory, Respond, stage
  <2> QED
    BY <1>1, <1>3, <1>6, <2>1 DEF Course
<1> QED
  BY <1>4, <1>5, <1>6

LEMMA OpendirPromise ==
  ASSUME IInv, PInv, opendir
  PROVE  PInv'
<1>1. /\ pc = "opendir" /\ stage = "opendir" /\ Targets = {Empty}
      /\ UNCHANGED <<fs, got, changes, peer, out>>
  BY DEF opendir, client, stage, Targets
<1>2. fs.index.kind # "other" /\ fs'.index.kind # "other"
  BY <1>1 DEF PInv
<1> SUFFICES ASSUME Quiet' PROVE Course'
  BY <1>2 DEF PInv
<1>3. Quiet /\ peer # "broken"
  BY <1>1 DEF Quiet
<1>4. /\ Expected(got)' = Answer
      /\ fs.path.kind = "dir" /\ fs.index.kind = "none"
  BY <1>1, <1>3, SameAnswer DEF PInv, Course
<1>5. Answer = IF fs.path.readable THEN Listing ELSE Empty
  BY <1>4 DEF Answer
<1>6. out = Empty /\ out \in Seq(Item)
  BY <1>1, <1>3, SoFar
<1>7. CASE fs.path.readable
  <2>1. data' = <<List>> /\ pc' = "send"
    BY <1>4, <1>7 DEF opendir
  <2>2. pending' = <<List>> /\ stage' = "send"
    BY <2>1 DEF pending, stage
  <2>3. out' \o pending' = Listing
    BY <1>1, <1>6, <2>2, Heads, Zenon
  <2> QED
    BY <1>4, <1>5, <1>7, <2>1, <2>2, <2>3 DEF Course
<1>8. CASE ~fs.path.readable
  <2>1. pc' = "done"
    BY <1>8 DEF opendir
  <2>2. pending' = <<>> /\ stage' = "done"
    BY <2>1 DEF pending, stage
  <2>3. out' \o pending' = Empty
    BY <1>1, <1>6, <2>2, ConcatEmptySeq
  <2> QED
    BY <1>4, <1>5, <1>8, <2>1, <2>2, <2>3 DEF Course
<1> QED
  BY <1>7, <1>8

LEMMA FopenPromise ==
  ASSUME IInv, PInv, fopen
  PROVE  PInv'
<1>1. /\ pc = "fopen" /\ stage = "fopen"
      /\ UNCHANGED <<fs, got, changes, peer, name>>
  BY DEF fopen, client, stage
<1>2. fs'.index.kind # "other"
  BY <1>1 DEF PInv
<1> SUFFICES ASSUME Quiet' PROVE Course'
  BY <1>2 DEF PInv
<1>3. Quiet
  BY <1>1 DEF Quiet
<1>4. Expected(got)' = Answer' /\ Chosen /\ Chosen'
  <2>1. Expected(got) = Answer /\ Chosen
    BY <1>1, <1>3 DEF PInv, Course
  <2> QED
    BY <1>1, <2>1, SameAnswer DEF Chosen
<1>5. fs[name].kind = "file"
  BY <1>4, ChosenFile
<1>6. CASE fs[name].readable
  <2>1. /\ inode' = fs[name] /\ len' = fs[name].size
        /\ pc' = "headers" /\ then' = "fread"
    BY <1>5, <1>6 DEF fopen, Respond
  <2>2. stage' = "fread"
    BY <2>1 DEF stage
  <2> QED
    BY <1>1, <1>4, <2>1, <2>2 DEF Course
<1>7. CASE ~fs[name].readable
  <2>1. pc' = "dead"
    BY <1>7 DEF fopen
  <2>2. stage' = "dead"
    BY <2>1 DEF stage
  <2> QED
    BY <1>1, <1>7, <2>1, <2>2 DEF Course
<1> QED
  BY <1>6, <1>7

LEMMA FreadPromise ==
  ASSUME IInv, PInv, fread
  PROVE  PInv'
<1>1. /\ pc = "fread" /\ stage = "fread"
      /\ Targets = {<<Line(200), Type, Length(len), Blank>>}
      /\ UNCHANGED <<fs, got, changes, peer, name, out>>
  BY DEF fread, client, file, stage, Targets
<1>2. fs'.index.kind # "other"
  BY <1>1 DEF PInv
<1> SUFFICES ASSUME Quiet' PROVE Course'
  BY <1>2 DEF PInv
<1>3. Quiet /\ peer # "broken"
  BY <1>1 DEF Quiet
<1>4. Expected(got)' = Answer /\ Chosen /\ inode = fs[name] /\ len = inode.size
  <2>1. Expected(got) = Answer /\ Chosen /\ inode = fs[name] /\ len = inode.size
    BY <1>1, <1>3 DEF PInv, Course
  <2> QED
    BY <1>1, <2>1, SameAnswer
<1>5. Answer = Content(inode)
  BY <1>4, ChosenFile
<1>6. CASE len > Stack
  <2>1. pc' = "dead" /\ stage' = "dead"
    BY <1>6 DEF fread, stage
  <2> QED
    BY <1>1, <1>4, <1>6, <2>1 DEF Course
<1>7. CASE ~(len > Stack)
  <2> DEFINE part == [i \in 1 .. len |-> "byte"]
             head == <<Line(200), Type, Length(len), Blank>>
  <2>1. len \in Nat /\ len \in -1 .. MaxSize
    BY <1>4 DEF IInv, Types, Objects
  <2>2. /\ data' = [i \in 1 .. len |-> <<part[i], i>>]
        /\ pc' = IF len > 0 THEN "send" ELSE "done"
    BY <1>4, <1>7, <2>1 DEF fread
  <2>3. part \in [1 .. len -> {"byte", "junk"}]
    OBVIOUS
  <2>4. Content(inode) = head \o [i \in 1 .. len |-> <<part[i], i>>]
    BY <1>4, Zenon DEF Content, Whole
  <2>5. out = head
    BY <1>1, <1>3, SoFar
  <2> HIDE DEF part, head
  <2>6. len <= 0 => data' = <<>>
    BY <2>1, <2>2, <2>3, BodyType, Zenon
  <2>7. pending' = data' /\ stage' \in {"send", "done"} /\ pc' # "dead"
    BY <2>2, <2>6, <2>1 DEF pending, stage
  <2>8. out' \o pending' = Content(inode)
    BY <1>1, <2>2, <2>4, <2>5, <2>7, Zenon
  <2>9. Expected(got)' = out' \o pending'
    BY <1>4, <1>5, <2>8, Zenon
  <2> QED
    BY <2>7, <2>9 DEF Course
<1> QED
  BY <1>6, <1>7

LEMMA HeaderPromise ==
  ASSUME IInv, PInv, http_send_header
  PROVE  PInv'
<1>1. /\ pc = "headers"
      /\ UNCHANGED <<fs, got, changes, name, inode, len, then>>
  BY DEF http_send_header, file
<1>2. fs'.index.kind # "other"
  BY <1>1 DEF PInv
<1> SUFFICES ASSUME Quiet' PROVE Course'
  BY <1>2 DEF PInv
<1> DEFINE to == IF Len(todo) = 1 THEN then ELSE "headers"
<1>3. Written(<<Head(todo)>>, to) /\ peer = "open"
  BY DEF http_send_header, Written, Killed, Quiet
<1>4. Quiet /\ out' = out \o <<Head(todo)>>
  BY <1>1, <1>3 DEF Quiet, Written
<1>5. /\ stage' = stage /\ pc' # "dead"
      /\ <<Head(todo)>> \in Seq(Item) /\ pending' \in Seq(Item)
      /\ pending = <<Head(todo)>> \o pending'
  BY <1>3, HeaderWrites, Zenon
<1>6. out' \o pending' = out \o pending
  <2>1. out \in Seq(Item)
    BY DEF IInv, Types
  <2> DEFINE x == <<Head(todo)>>
             y == pending'
  <2>2. x \in Seq(Item) /\ y \in Seq(Item) /\ pending = x \o y /\ out' = out \o x
    BY <1>4, <1>5, Zenon
  <2> HIDE DEF x, y
  <2>3. (out \o x) \o y = out \o (x \o y)
    BY <2>1, <2>2, Regrouped, Zenon
  <2> QED
    BY <2>2, <2>3, Zenon DEF y
<1>7. Expected(got)' = Expected(got) /\ Answer' = Answer /\ (Chosen' <=> Chosen)
  BY <1>1, SameAnswer DEF Chosen
<1> HIDE DEF to
<1> QED
  BY <1>1, <1>4, <1>5, <1>6, <1>7 DEF PInv, Course

LEMMA DataPromise ==
  ASSUME IInv, PInv, http_send_data
  PROVE  PInv'
<1>1. /\ pc = "send" /\ stage = "send" /\ UNCHANGED <<fs, got, changes>>
  BY DEF http_send_data, stage
<1>2. fs'.index.kind # "other"
  BY <1>1 DEF PInv
<1> SUFFICES ASSUME Quiet' PROVE Course'
  BY <1>2 DEF PInv
<1>3. PICK k \in 1 .. Len(data) :
        /\ data' = SubSeq(data, k + 1, Len(data))
        /\ \/ Written(SubSeq(data, 1, k),
                      IF k = Len(data) \/ peer' = "broken" THEN "done" ELSE "send")
           \/ Killed
  BY DEF http_send_data
<1>4. Written(SubSeq(data, 1, k), IF k = Len(data) \/ peer' = "broken" THEN "done" ELSE "send")
  BY <1>3 DEF Killed, Quiet
<1>5. Quiet /\ out' = out \o SubSeq(data, 1, k) /\ peer' # "broken"
  BY <1>1, <1>4 DEF Quiet, Written
<1>6. /\ pc' \in {"send", "done"}
      /\ SubSeq(data, 1, k) \in Seq(Item)
      /\ pending = SubSeq(data, 1, k) \o pending' /\ pending' \in Seq(Item)
  BY <1>3, <1>4, <1>5, DataWrites, Zenon
<1>7. out' \o pending' = out \o pending
  <2>1. out \in Seq(Item)
    BY DEF IInv, Types
  <2> DEFINE x == SubSeq(data, 1, k)
             y == pending'
  <2>2. x \in Seq(Item) /\ y \in Seq(Item) /\ pending = x \o y /\ out' = out \o x
    BY <1>5, <1>6, Zenon
  <2> HIDE DEF x, y
  <2>3. (out \o x) \o y = out \o (x \o y)
    BY <2>1, <2>2, Regrouped, Zenon
  <2> QED
    BY <2>2, <2>3, Zenon DEF y
<1>8. Expected(got)' = Expected(got)
  BY <1>1, SameAnswer
<1>9. Expected(got)' = out' \o pending'
  <2>1. Expected(got) = out \o pending
    BY <1>1, <1>5 DEF PInv, Course
  <2> QED
    BY <1>7, <1>8, <2>1, Zenon
<1>10. stage' \in {"send", "done"} /\ pc' # "dead"
  BY <1>6 DEF stage
<1> QED
  BY <1>9, <1>10 DEF Course

LEMMA PromiseStart == Init => PInv
BY DEF Init, PInv, Course, stage, Objects

LEMMA PromiseStep ==
  ASSUME IInv, PInv, [Next]_vars
  PROVE  PInv'
<1>1. CASE Arrive \/ Leave \/ http_request_parse \/ UNCHANGED vars
  BY <1>1, ClientPromise
<1>2. CASE Replace \/ Resize
  BY <1>2, FilesPromise
<1>3. CASE handle_files_request
  BY <1>3, DecidePromise
<1>4. CASE serve_directory
  BY <1>4, DirectoryPromise
<1>5. CASE opendir
  BY <1>5, OpendirPromise
<1>6. CASE fopen
  BY <1>6, FopenPromise
<1>7. CASE fread
  BY <1>7, FreadPromise
<1>8. CASE http_send_header
  BY <1>8, HeaderPromise
<1>9. CASE http_send_data
  BY <1>9, DataPromise
<1> QED
  BY <1>1, <1>2, <1>3, <1>4, <1>5, <1>6, <1>7, <1>8, <1>9 DEF Next, Handler

(* As long as the client stays and no file changes, server.c:101-110 keeps *)
(* what it promises: the file, the index of the directory, the list of it, *)
(* or the status that fits, for every text, of any length.                 *)
THEOREM PromiseKept == Spec => []Promised
<1>1. ASSUME IInv, PInv PROVE Promised
  <2> SUFFICES ASSUME changes = 0, peer = "open", fs.index.kind # "dir"
               PROVE  /\ pc = "done" => out = Expected(got)
                      /\ pc = "dead" => ~fs[name].readable \/ fs[name].size > Stack
    BY DEF Promised
  <2>1. Course
    BY <1>1 DEF PInv, Quiet
  <2>2. ASSUME pc = "done" PROVE out = Expected(got)
    <3>1. Expected(got) = out \o pending
      BY <2>1, <2>2 DEF Course, stage
    <3>2. pending = <<>> /\ out \in Seq(Item)
      BY <1>1, <2>2 DEF pending, IInv, Types
    <3> QED
      BY <3>1, <3>2, ConcatEmptySeq
  <2> QED
    BY <2>1, <2>2 DEF Course
<1> QED
  BY <1>1, RequestInvariance, PromiseStart, PromiseStep, PTL DEF Spec
=============================================================================
