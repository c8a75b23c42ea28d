-------------------------- MODULE Services_proofs --------------------------
(***************************************************************************)
(* Theorems about the services that MCServices composes, each under its  *)
(* own specification and for every value of the constants: what a snapshot *)
(* port reads back (SnapshotFiles), that earlier hints win (ShapeHints),  *)
(* that what a service reports is what happened (FrameCounter,           *)
(* PluginManager, MaterialRegistries, EventOrder), and that what is drawn *)
(* follows from what was set (PostFxPasses, MaterialRules, ShaderStages). *)
(***************************************************************************)
EXTENDS MCServices, Induction

(* An appended element comes last and moves no other.                    *)
LEMMA AppendShape ==
    ASSUME NEW S, NEW s \in Seq(S), NEW e \in S
    PROVE  /\ Append(s, e) \in Seq(S) /\ Len(Append(s, e)) = Len(s) + 1
           /\ Append(s, e)[Len(s) + 1] = e
           /\ \A k \in 1..Len(s) : Append(s, e)[k] = s[k]
OBVIOUS

(* What a sequence over a set holds is in the set.                       *)
LEMMA ElementIn ==
    ASSUME NEW S, NEW s \in Seq(S), NEW k \in DOMAIN s
    PROVE  s[k] \in S
OBVIOUS

(* Every port writes four fields, no two alike and none like the closing *)
(* one.                                                                  *)
LEMMA FieldsShape ==
    ASSUME NEW port \in Ports
    PROVE  /\ Len(FieldsOf(port)) = 4
           /\ ToSet(FieldsOf(port)) = {FieldsOf(port)[k] : k \in 1..4}
           /\ \A k \in 1..4 : FieldsOf(port)[k] # "end"
           /\ \A k, l \in 1..4 : FieldsOf(port)[k] = FieldsOf(port)[l] => k = l
<1>1. \/ FieldsOf(port) = PostFxStackSnapshot
      \/ FieldsOf(port) = TerrainSnapshot
      \/ FieldsOf(port) = WaterSnapshot
    BY DEF FieldsOf, Ports
<1>2. ToSet(FieldsOf(port)) = {FieldsOf(port)[k] : k \in 1..4}
    BY <1>1 DEF PostFxStackSnapshot, TerrainSnapshot, WaterSnapshot, ToSet
<1>3. Len(FieldsOf(port)) = 4
    BY <1>1 DEF PostFxStackSnapshot, TerrainSnapshot, WaterSnapshot
<1>4. \A k \in 1..4 : k = 1 \/ k = 2 \/ k = 3 \/ k = 4
    OBVIOUS
<1>5. \A k \in 1..4 : FieldsOf(port)[k] # "end"
    <2>1. CASE FieldsOf(port) = PostFxStackSnapshot
        BY <2>1, <1>4 DEF PostFxStackSnapshot
    <2>2. CASE FieldsOf(port) = TerrainSnapshot
        BY <2>2, <1>4 DEF TerrainSnapshot
    <2>3. CASE FieldsOf(port) = WaterSnapshot
        BY <2>3, <1>4 DEF WaterSnapshot
    <2> QED  BY <1>1, <2>1, <2>2, <2>3
<1>6. \A k, l \in 1..4 : FieldsOf(port)[k] = FieldsOf(port)[l] => k = l
    BY <1>1, <1>4 DEF PostFxStackSnapshot, TerrainSnapshot, WaterSnapshot
<1> QED  BY <1>2, <1>3, <1>5, <1>6

(* The closing field is told from every other by its name.               *)
LEMMA CloseName == Close[1] = "end"
BY DEF Close

Saved == UNION {{<<port, snapshot>> : snapshot \in SnapshotsOf(port)} : port \in Ports}

TextOf(by) == to_string_pretty(by[1], by[2])

(* A snapshot begun by a save is one of its port, and its text the four  *)
(* fields and the close.                                                 *)
LEMMA TextShape ==
    ASSUME NEW by \in Saved
    PROVE  /\ by[1] \in Ports /\ by[2] \in SnapshotsOf(by[1]) /\ by = <<by[1], by[2]>>
           /\ Len(TextOf(by)) = 5 /\ TextOf(by)[5] = Close
           /\ \A k \in 1..4 :
                 TextOf(by)[k] = <<FieldsOf(by[1])[k], by[2][FieldsOf(by[1])[k]]>>
<1>1. by[1] \in Ports /\ by[2] \in SnapshotsOf(by[1]) /\ by = <<by[1], by[2]>>
    BY DEF Saved
<1> DEFINE F == FieldsOf(by[1])
           piece(k) == <<F[k], by[2][F[k]]>>
           S == {piece(k) : k \in 1..4} \cup {Close}
           body == [k \in 1..4 |-> piece(k)]
<1>2. TextOf(by) = Append(body, Close)
    BY <1>1, FieldsShape DEF TextOf, to_string_pretty
<1>3. body \in Seq(S) /\ Len(body) = 4 /\ \A k \in 1..4 : body[k] = piece(k)
    <2>1. \A k \in 1..4 : piece(k) \in S
        OBVIOUS
    <2> HIDE DEF piece, S
    <2> QED  BY <2>1
<1>4. Close \in S
    OBVIOUS
<1>5. /\ Len(TextOf(by)) = Len(body) + 1 /\ TextOf(by)[Len(body) + 1] = Close
      /\ \A k \in 1..Len(body) : TextOf(by)[k] = body[k]
    <2> HIDE DEF body, S
    <2>1. body \in Seq(S) /\ Close \in S
        BY <1>3, <1>4
    <2>2. /\ Len(Append(body, Close)) = Len(body) + 1 /\ Append(body, Close)[Len(body) + 1] = Close
          /\ \A k \in 1..Len(body) : Append(body, Close)[k] = body[k]
        BY <2>1, AppendShape
    <2> QED  BY <1>2, <2>2
<1> QED
    <2> HIDE DEF S, body, piece
    <2>1. Len(body) = 4 /\ 4 + 1 = 5 /\ \A k \in 1..4 : body[k] = piece(k)
        BY <1>3
    <2>2. Len(TextOf(by)) = 5 /\ TextOf(by)[5] = Close /\ \A k \in 1..4 : TextOf(by)[k] = piece(k)
        BY <1>5, <2>1
    <2> QED  BY <1>1, <2>2 DEF piece

PartOf(by, n) == [k \in 1..n |-> TextOf(by)[k]]

(* What a save has written after n pieces is the first n fields.         *)
LEMMA PartShape ==
    ASSUME NEW by \in Saved, NEW n \in 0..5
    PROVE  /\ PartOf(by, n) \in Seq({TextOf(by)[k] : k \in 1..5}) /\ Len(PartOf(by, n)) = n
           /\ \A k \in 1..n : PartOf(by, n)[k] = TextOf(by)[k]
<1>1. \A k \in 1..n : TextOf(by)[k] \in {TextOf(by)[j] : j \in 1..5}
    OBVIOUS
<1> QED  BY <1>1 DEF PartOf

(* One more piece on what was written is one piece more of the text.     *)
LEMMA PartGrows ==
    ASSUME NEW by \in Saved, NEW n \in 0..4
    PROVE  Overwritten(PartOf(by, n), n + 1, TextOf(by)[n + 1]) = PartOf(by, n + 1)
<1> DEFINE S == {TextOf(by)[k] : k \in 1..5}
           e == TextOf(by)[n + 1]
           s == PartOf(by, n)
           t == PartOf(by, n + 1)
<1>1. s \in Seq(S) /\ Len(s) = n /\ \A k \in 1..n : s[k] = TextOf(by)[k]
    <2>1. n \in 0..5
        OBVIOUS
    <2> QED  BY <2>1, PartShape
<1>2. n + 1 \in 0..5 /\ n + 1 \in 1..5
    OBVIOUS
<1>3. t \in Seq(S) /\ Len(t) = n + 1 /\ \A k \in 1..n + 1 : t[k] = TextOf(by)[k]
    BY <1>2, PartShape
<1>4. e \in S
    BY <1>2
<1>5. /\ Append(s, e) \in Seq(S) /\ Len(Append(s, e)) = n + 1 /\ Append(s, e)[n + 1] = e
      /\ \A k \in 1..n : Append(s, e)[k] = s[k]
    <2> HIDE DEF S, s, e
    <2> QED  BY <1>1, <1>4, AppendShape
<1>6. \A k \in 1..n + 1 : Append(s, e)[k] = t[k]
    <2>1. \A k \in 1..n + 1 : k \in 1..n \/ k = n + 1
        OBVIOUS
    <2>2. n + 1 \in 1..n + 1 /\ t[n + 1] = e
        BY <1>3
    <2>3. \A k \in 1..n : k \in 1..n + 1
        OBVIOUS
    <2> HIDE DEF s, t, e
    <2> QED  BY <1>1, <1>3, <1>5, <2>1, <2>2, <2>3
<1>7. Append(s, e) = t
    <2> HIDE DEF s, t, e, S
    <2> QED  BY <1>3, <1>5, <1>6
<1> QED
    <2> HIDE DEF s, t, e, S
    <2>1. Overwritten(s, n + 1, e) = Append(s, e)
        BY <1>1 DEF Overwritten
    <2> QED  BY <1>7, <2>1 DEF s, t, e

(* A text that was not written to its end has no closing brace.          *)
LEMMA PartRefused ==
    ASSUME NEW by \in Saved, NEW n \in 0..4, NEW port \in Ports
    PROVE  from_str(port, PartOf(by, n)) = NoSnapshot
<1>1. Len(PartOf(by, n)) = n /\ \A k \in 1..n : PartOf(by, n)[k] = TextOf(by)[k]
    <2>1. n \in 0..5
        OBVIOUS
    <2> QED  BY <2>1, PartShape
<1>2. CASE n = 0
    BY <1>1, <1>2 DEF from_str
<1>3. CASE n # 0
    <2>1. n \in 1..4 /\ n \in 1..n
        BY <1>3
    <2>2. PartOf(by, n)[n] = <<FieldsOf(by[1])[n], by[2][FieldsOf(by[1])[n]]>>
        BY <1>1, <2>1, TextShape
    <2>3. FieldsOf(by[1])[n] # "end"
        BY <2>1, TextShape, FieldsShape
    <2>4. PartOf(by, n)[n][1] # Close[1]
        BY <2>2, <2>3, CloseName
    <2> QED  BY <1>1, <2>4 DEF from_str
<1> QED  BY <1>2, <1>3

ValueOf(by, field) == IF field \in ToSet(FieldsOf(by[1])) THEN by[2][field] ELSE default(field)

(* A whole text holds the snapshot's value in each field its port writes,*)
(* and serde's default stands for the others.                            *)
LEMMA WholeValue ==
    ASSUME NEW by \in Saved, NEW field, field # "end"
    PROVE  ValueIn(PartOf(by, 5), field) = ValueOf(by, field)
<1> DEFINE text == PartOf(by, 5)
           F == FieldsOf(by[1])
           at == {k \in 1..Len(text) : text[k][1] = field}
<1>1. Len(text) = 5 /\ \A k \in 1..5 : text[k] = TextOf(by)[k]
    <2>1. 5 \in 0..5
        OBVIOUS
    <2> QED  BY <2>1, PartShape
<1>2. by[1] \in Ports
    BY TextShape
<1>3. \A k \in 1..5 : k \in 1..4 \/ k = 5
    OBVIOUS
<1>4. \A k \in 1..4 : k \in 1..5 /\ text[k] = <<F[k], by[2][F[k]]>>
    BY <1>1, TextShape
<1>5. text[5] = Close
    BY <1>1, TextShape
<1>6. at = {k \in 1..4 : F[k] = field}
    <2> HIDE DEF F, text
    <2>1. \A k \in 1..4 : text[k][1] = F[k]
        BY <1>4
    <2>2. text[5][1] = "end"
        BY <1>5, CloseName
    <2> QED  BY <1>1, <1>3, <2>1, <2>2
<1>7. CASE field \in ToSet(F)
    <2>1. PICK k \in 1..4 : F[k] = field
        BY <1>2, <1>7, FieldsShape
    <2>2. at = {k}
        BY <1>2, <1>6, <2>1, FieldsShape
    <2>3. (CHOOSE j \in at : TRUE) = k
        BY <2>2
    <2>4. text[k][2] = by[2][field]
        BY <1>4, <2>1
    <2> QED  BY <1>7, <2>2, <2>3, <2>4 DEF ValueIn, ValueOf
<1>8. CASE field \notin ToSet(F)
    <2>1. at = {}
        BY <1>2, <1>6, <1>8, FieldsShape
    <2> QED  BY <1>8, <2>1 DEF ValueIn, ValueOf
<1> QED  BY <1>7, <1>8


AllReadable(port, by) ==
    \A k \in 1..4 : Readable(port, FieldsOf(port)[k], ValueOf(by, FieldsOf(port)[k]))

(* A whole text is refused for a value, or read as the snapshot.         *)
LEMMA WholeRead ==
    ASSUME NEW by \in Saved, NEW port \in Ports
    PROVE  from_str(port, PartOf(by, 5)) =
               IF AllReadable(port, by) THEN Seen(port, by) ELSE NoSnapshot
<1> DEFINE text == PartOf(by, 5)
           F == FieldsOf(port)
<1>1. Len(text) = 5 /\ \A k \in 1..5 : text[k] = TextOf(by)[k]
    <2>1. 5 \in 0..5
        OBVIOUS
    <2> QED  BY <2>1, PartShape
<1>2. text[Len(text)] = Close
    BY <1>1, TextShape
<1>3. \A k \in 1..Len(text) - 1 : text[k] # Close
    <2>1. by[1] \in Ports
        BY TextShape
    <2>2. \A k \in 1..4 : text[k] = <<FieldsOf(by[1])[k], by[2][FieldsOf(by[1])[k]]>>
        BY <1>1, TextShape
    <2>3. \A k \in 1..4 : FieldsOf(by[1])[k] # "end"
        BY <2>1, FieldsShape
    <2>4. \A k \in 1..4 : text[k][1] # Close[1]
        BY <2>2, <2>3, CloseName
    <2>5. Len(text) - 1 = 4
        BY <1>1
    <2> QED  BY <2>4, <2>5
<1>4. Len(F) = 4 /\ \A k \in 1..4 : F[k] # "end" /\ ValueIn(text, F[k]) = ValueOf(by, F[k])
    BY FieldsShape, WholeValue
<1>5. [f \in ToSet(F) |-> ValueIn(text, f)] = Seen(port, by)
    <2>1. \A f \in ToSet(F) : ValueIn(text, f) = ValueOf(by, f)
        BY <1>4, FieldsShape
    <2> QED  BY <2>1 DEF Seen, ValueOf
<1>6. (\E k \in 1..Len(F) : ~ Readable(port, F[k], ValueIn(text, F[k]))) <=> ~ AllReadable(port, by)
    BY <1>4 DEF AllReadable
<1> QED
    <2> HIDE DEF text, F
    <2>1. from_str(port, text) = IF AllReadable(port, by) THEN Seen(port, by) ELSE NoSnapshot
        <3>1. ~ (Len(text) = 0)
            BY <1>1
        <3> QED  BY <3>1, <1>2, <1>3, <1>5, <1>6 DEF from_str, F
    <2> QED  BY <2>1 DEF text

(* A port reads back what it wrote, but for a number JSON does not have. *)
LEMMA OwnRead ==
    ASSUME NEW by \in Saved
    PROVE  from_str(by[1], PartOf(by, 5)) = IF Finite(by) THEN by[2] ELSE NoSnapshot
<1> DEFINE F == FieldsOf(by[1])
<1>1. by[1] \in Ports /\ by[2] \in SnapshotsOf(by[1])
    BY TextShape
<1>2. by[2] = [f \in ToSet(F) |-> by[2][f]]
    BY <1>1, SnapshotAssumption
<1>3. DOMAIN by[2] = ToSet(F)
    BY <1>2
<1>4. \A f \in ToSet(F) : ValueOf(by, f) = by[2][f]
    BY DEF ValueOf
<1>5. Seen(by[1], by) = by[2]
    <2>1. Seen(by[1], by) = [f \in ToSet(F) |-> by[2][f]]
        BY DEF Seen
    <2> QED  BY <1>2, <2>1
<1>6. by[1] = "postfx" => by[2]["version"] # Negative
    <2>1. by[1] = "postfx" => by[2] \in PostFxSnapshots
        BY <1>1 DEF SnapshotsOf
    <2> QED  BY <2>1, SnapshotAssumption
<1>7. \A f \in ToSet(F) : Readable(by[1], f, ValueOf(by, f)) <=> by[2][f] # NotFinite
    BY <1>4, <1>6 DEF Readable
<1>8. AllReadable(by[1], by) <=> Finite(by)
    <2>1. ToSet(F) = {F[k] : k \in 1..4}
        BY <1>1, FieldsShape
    <2>2. Finite(by) <=> \A f \in ToSet(F) : by[2][f] # NotFinite
        BY <1>3 DEF Finite
    <2>3. AllReadable(by[1], by) <=> \A f \in ToSet(F) : Readable(by[1], f, ValueOf(by, f))
        BY <2>1 DEF AllReadable
    <2> QED  BY <1>7, <2>2, <2>3
<1> QED  BY <1>1, <1>5, <1>8, WholeRead

---------------------------------------------------------------------------
(* A file holds what some save had written when it stopped; an accepted  *)
(* save wrote all of it, and the save under way is the last that began.  *)
FilesInv ==
    \A d \in Destinations :
        \/ files[d] = NoText
        \/ \E by \in begun[d], n \in 0..5 : files[d] = PartOf(by, n)

AcceptedInv ==
    \A d \in Destinations : last[d].accepted =>
        /\ last[d].save \in begun[d]
        /\ ~ RefusesName(last[d].save[1], d)
        /\ files[d] = PartOf(last[d].save, 5)

UnderWay(at, by, n) ==
    /\ job = [phase |-> job.phase, at |-> at, text |-> TextOf(by), done |-> n]
    /\ last[at] = [save |-> by, accepted |-> FALSE]
    /\ ~ RefusesName(by[1], at)
    /\ \/ job.phase = "open" /\ n = 0
       \/ job.phase = "write" /\ files[at] = PartOf(by, n)

JobInv ==
    \/ job = Idle
    \/ \E at \in Destinations : \E by \in begun[at], n \in 0..5 : UnderWay(at, by, n)

SnapshotTypeOK ==
    /\ files = [d \in Destinations |-> files[d]]
    /\ begun \in [Destinations -> SUBSET Saved]
    /\ last \in [Destinations -> [save : Saved \cup {<< >>}, accepted : BOOLEAN]]

SnapshotInv == SnapshotTypeOK /\ FilesInv /\ AcceptedInv /\ JobInv

(* What SnapshotsLoad promises of every reader and of the writer follows *)
(* from what the files hold.                                             *)
LEMMA SnapshotInvLoads ==
    ASSUME SnapshotInv
    PROVE  SnapshotsLoad
<1> USE DEF SnapshotInv, SnapshotTypeOK
<1>1. ASSUME NEW port \in Ports, NEW d \in Destinations
      PROVE  \/ load(port, d) = NoSnapshot
             \/ \E by \in begun[d] : load(port, d) = Seen(port, by)
    <2>1. CASE RefusesName(port, d) \/ files[d] = NoText
        BY <2>1 DEF load
    <2>2. CASE ~ RefusesName(port, d) /\ files[d] # NoText
        <3>1. load(port, d) = from_str(port, files[d])
            BY <2>2 DEF load
        <3>2. PICK by \in begun[d], n \in 0..5 : files[d] = PartOf(by, n)
            BY <2>2 DEF FilesInv
        <3>3. by \in Saved
            OBVIOUS
        <3>4. CASE n = 5
            BY <3>1, <3>2, <3>3, <3>4, WholeRead
        <3>5. CASE n # 5
            <4>1. n \in 0..4
                BY <3>5
            <4> QED  BY <3>1, <3>2, <3>3, <4>1, PartRefused
        <3> QED  BY <3>4, <3>5
    <2> QED  BY <2>1, <2>2
<1>2. ASSUME NEW port \in Ports, NEW d \in Destinations, last[d].accepted,
             port = last[d].save[1]
      PROVE  load(port, d) = IF Finite(last[d].save) THEN last[d].save[2] ELSE NoSnapshot
    <2> DEFINE by == last[d].save
    <2>1. by \in begun[d] /\ ~ RefusesName(port, d) /\ files[d] = PartOf(by, 5)
        BY <1>2 DEF AcceptedInv
    <2>2. by \in Saved
        BY <2>1
    <2>3. Len(PartOf(by, 5)) = 5 /\ Len(NoText) = 1
        <3>1. 5 \in 0..5
            OBVIOUS
        <3> QED  BY <2>2, <3>1, PartShape DEF NoText
    <2> HIDE DEF by
    <2>4. load(port, d) = from_str(port, PartOf(by, 5))
        <3>1. ASSUME files[d] = NoText
              PROVE  FALSE
            <4>1. Len(files[d]) = 5 /\ Len(files[d]) = 1
                BY <2>1, <2>3, <3>1, Zenon
            <4>2. 5 # 1
                OBVIOUS
            <4> QED  BY <4>1, <4>2, Zenon
        <3> QED  BY <2>1, <3>1 DEF load
    <2>5. load(port, d) = IF Finite(by) THEN by[2] ELSE NoSnapshot
        BY <1>2, <2>2, <2>4, OwnRead DEF by
    <2> QED  BY <2>5 DEF by
<1> QED  BY <1>1, <1>2 DEF SnapshotsLoad


(* Every reader sees one whole snapshot of those saved under the name, and *)
(* its writer the last one accepted, whatever fails (save, load).        *)
THEOREM SnapshotsLoadBack == SnapshotSpec => []SnapshotsLoad
<1>1. SnapshotInit => SnapshotInv
    <2> SUFFICES ASSUME SnapshotInit PROVE SnapshotInv
        OBVIOUS
    <2> USE DEF SnapshotInit
    <2>1. SnapshotTypeOK
        BY DEF SnapshotTypeOK
    <2>2. FilesInv
        BY DEF FilesInv
    <2>3. AcceptedInv
        BY DEF AcceptedInv
    <2>4. JobInv
        BY DEF JobInv
    <2> QED  BY <2>1, <2>2, <2>3, <2>4 DEF SnapshotInv
<1>2. SnapshotInv /\ [SnapshotNext]_snapshots => SnapshotInv'
    <2> SUFFICES ASSUME SnapshotInv, [SnapshotNext]_snapshots PROVE SnapshotInv'
        OBVIOUS
    <2> USE DEF SnapshotInv, SnapshotTypeOK
    <2>1. ASSUME NEW port \in Ports, NEW snapshot \in SnapshotsOf(port), NEW d \in Destinations,
                 save(port, d, snapshot)
          PROVE  SnapshotInv'
        <3> DEFINE by == <<port, snapshot>>
        <3>1. by \in Saved /\ TextOf(by) = to_string_pretty(port, snapshot) /\ by[1] = port
            BY DEF Saved, TextOf
        <3> HIDE DEF by
        <3>2. /\ ~ RefusesName(port, d)
              /\ begun' = [begun EXCEPT ![d] = @ \cup {by}]
              /\ last' = [last EXCEPT ![d] = [save |-> by, accepted |-> FALSE]]
              /\ job' \in {Idle, [phase |-> "open", at |-> d, text |-> TextOf(by), done |-> 0]}
              /\ files' = files
            BY <2>1, <3>1 DEF save, by
        <3>3. /\ begun' \in [Destinations -> SUBSET Saved]
              /\ \A e \in Destinations : begun[e] \subseteq begun'[e]
              /\ by \in begun'[d]
            BY <3>1, <3>2
        <3>4. /\ last' \in [Destinations -> [save : Saved \cup {<< >>}, accepted : BOOLEAN]]
              /\ last'[d] = [save |-> by, accepted |-> FALSE]
              /\ \A e \in Destinations : e # d => last'[e] = last[e]
            BY <3>1, <3>2
        <3>5. SnapshotTypeOK'
            BY <3>2, <3>3, <3>4
        <3>6. FilesInv'
            BY <3>2, <3>3 DEF FilesInv, PartOf, TextOf
        <3>7. AcceptedInv'
            BY <3>2, <3>3, <3>4 DEF AcceptedInv, PartOf, TextOf
        <3>8. JobInv'
            <4>1. CASE job' = Idle
                BY <4>1 DEF JobInv
            <4>2. CASE job' = [phase |-> "open", at |-> d, text |-> TextOf(by), done |-> 0]
                <5>1. UnderWay(d, by, 0)'
                    BY <3>1, <3>2, <3>4, <4>2 DEF UnderWay, TextOf
                <5> QED  BY <3>3, <5>1 DEF JobInv
            <4> QED  BY <3>2, <4>1, <4>2
        <3> QED  BY <3>5, <3>6, <3>7, <3>8
    <2>2. ASSUME truncate
          PROVE  SnapshotInv'
        <3>1. PICK at \in Destinations : \E by \in begun[at], n \in 0..5 : UnderWay(at, by, n)
            BY <2>2 DEF truncate, JobInv, Idle
        <3>2. PICK by \in begun[at], n \in 0..5 : UnderWay(at, by, n)
            BY <3>1
        <3>3. job.at = at /\ n = 0 /\ by \in Saved
            BY <2>2, <3>2 DEF truncate, UnderWay
        <3>4. PartOf(by, 0) = << >>
            BY DEF PartOf
        <3>5. /\ files' = [d \in Destinations |-> files'[d]] /\ files'[at] = PartOf(by, 0)
              /\ \A d \in Destinations : d # at => files'[d] = files[d]
            BY <2>2, <3>3, <3>4 DEF truncate
        <3>6. /\ job' = [phase |-> "write", at |-> at, text |-> TextOf(by), done |-> 0]
              /\ begun' = begun /\ last' = last
            BY <2>2, <3>2, <3>3 DEF truncate, UnderWay
        <3>7. SnapshotTypeOK'
            BY <3>5, <3>6
        <3>8. FilesInv'
            BY <3>5, <3>6 DEF FilesInv, PartOf, TextOf
        <3>9. AcceptedInv'
            <4>1. ~ last[at].accepted
                BY <3>2 DEF UnderWay
            <4>2. ASSUME NEW d \in Destinations, last'[d].accepted
                  PROVE  /\ last'[d].save \in begun'[d]
                         /\ ~ RefusesName(last'[d].save[1], d)
                         /\ files'[d] = PartOf(last'[d].save, 5)
                <5>1. last'[d] = last[d] /\ begun'[d] = begun[d] /\ d # at
                    BY <3>6, <4>1, <4>2
                <5>2. files'[d] = files[d]
                    BY <3>5, <5>1
                <5> QED  BY <4>2, <5>1, <5>2 DEF AcceptedInv
            <4> QED  BY <4>2 DEF AcceptedInv, PartOf, TextOf
        <3>10. JobInv'
            <4>1. UnderWay(at, by, 0)'
                BY <3>2, <3>5, <3>6 DEF UnderWay, PartOf, TextOf
            <4> QED  BY <3>6, <4>1 DEF JobInv
        <3> QED  BY <3>7, <3>8, <3>9, <3>10
    <2>3. ASSUME write_piece
          PROVE  SnapshotInv'
        <3>1. PICK at \in Destinations : \E by \in begun[at], n \in 0..5 : UnderWay(at, by, n)
            BY <2>3 DEF write_piece, JobInv, Idle
        <3>2. PICK by \in begun[at], n \in 0..5 : UnderWay(at, by, n)
            BY <3>1
        <3>3. /\ job.at = at /\ job.done = n /\ job.text = TextOf(by) /\ by \in Saved
              /\ job.phase = "write" /\ files[at] = PartOf(by, n)
            BY <2>3, <3>2 DEF write_piece, UnderWay
        <3>4. n \in 0..4 /\ n + 1 \in 0..5
            BY <2>3, <3>3, TextShape DEF write_piece
        <3>5. Overwritten(PartOf(by, n), n + 1, TextOf(by)[n + 1]) = PartOf(by, n + 1)
            BY <3>3, <3>4, PartGrows
        <3>6. /\ files' = [d \in Destinations |-> files'[d]] /\ files'[at] = PartOf(by, n + 1)
              /\ \A d \in Destinations : d # at => files'[d] = files[d]
            BY <2>3, <3>3, <3>5 DEF write_piece
        <3>7. /\ job' = [phase |-> "write", at |-> at, text |-> TextOf(by), done |-> n + 1]
              /\ begun' = begun /\ last' = last
            BY <2>3, <3>2, <3>3 DEF write_piece, UnderWay
        <3>8. SnapshotTypeOK'
            BY <3>6, <3>7
        <3>9. FilesInv'
            <4>1. ASSUME NEW d \in Destinations
                  PROVE  \/ files'[d] = NoText
                         \/ \E b \in begun[d], m \in 0..5 : files'[d] = PartOf(b, m)
                <5>1. CASE d = at
                    BY <3>4, <3>6, <5>1
                <5>2. CASE d # at
                    BY <3>6, <5>2 DEF FilesInv
                <5> QED  BY <5>1, <5>2
            <4> QED  BY <3>7, <4>1 DEF FilesInv, PartOf, TextOf
        <3>10. AcceptedInv'
            BY <3>2, <3>6, <3>7 DEF AcceptedInv, UnderWay, PartOf, TextOf
        <3>11. JobInv'
            <4>1. UnderWay(at, by, n + 1)'
                BY <3>2, <3>6, <3>7 DEF UnderWay, PartOf, TextOf
            <4> QED  BY <3>4, <3>7, <4>1 DEF JobInv
        <3> QED  BY <3>8, <3>9, <3>10, <3>11
    <2>4. ASSUME saved
          PROVE  SnapshotInv'
        <3>1. PICK at \in Destinations : \E by \in begun[at], n \in 0..5 : UnderWay(at, by, n)
            BY <2>4 DEF saved, JobInv, Idle
        <3>2. PICK by \in begun[at], n \in 0..5 : UnderWay(at, by, n)
            BY <3>1
        <3>3. /\ job.at = at /\ job.done = n /\ job.text = TextOf(by) /\ by \in Saved
              /\ job.phase = "write" /\ files[at] = PartOf(by, n)
            BY <2>4, <3>2 DEF saved, UnderWay
        <3>4. n = 5
            BY <2>4, <3>3, TextShape DEF saved
        <3>5. /\ last' \in [Destinations -> [save : Saved \cup {<< >>}, accepted : BOOLEAN]]
              /\ last'[at].save = by /\ \A d \in Destinations : d # at => last'[d] = last[d]
            <4> DEFINE R == [save : Saved \cup {<< >>}, accepted : BOOLEAN]
                       done == [last[at] EXCEPT !.accepted = TRUE]
            <4>1. last' = [last EXCEPT ![at] = done]
                BY <2>4, <3>3 DEF saved
            <4>2. last[at] \in R /\ last[at].save = by
                BY <3>2 DEF UnderWay
            <4>3. done \in R /\ done.save = by
                BY <4>2
            <4> HIDE DEF done, R
            <4>4. last \in [Destinations -> R]
                BY DEF R
            <4>5. last' \in [Destinations -> R]
                BY <4>1, <4>3, <4>4
            <4>6. last'[at] = done /\ \A d \in Destinations : d # at => last'[d] = last[d]
                BY <4>1, <4>4
            <4> QED  BY <4>3, <4>5, <4>6 DEF R
        <3>6. files' = files /\ begun' = begun /\ job' = Idle
            BY <2>4 DEF saved
        <3>7. SnapshotTypeOK' /\ FilesInv'
            BY <3>5, <3>6 DEF FilesInv, PartOf, TextOf
        <3>8. AcceptedInv'
            BY <3>2, <3>3, <3>4, <3>5, <3>6 DEF AcceptedInv, UnderWay, PartOf, TextOf
        <3>9. JobInv'
            BY <3>6 DEF JobInv, Idle
        <3> QED  BY <3>7, <3>8, <3>9
    <2>5. ASSUME fail
          PROVE  SnapshotInv'
        <3>1. SnapshotTypeOK' /\ FilesInv' /\ AcceptedInv'
            BY <2>5 DEF fail, FilesInv, AcceptedInv, PartOf, TextOf
        <3>2. JobInv'
            BY <2>5 DEF fail, JobInv, Idle
        <3> QED  BY <3>1, <3>2
    <2>6. ASSUME UNCHANGED snapshots
          PROVE  SnapshotInv'
        <3> USE <2>6 DEF snapshots
        <3>1. SnapshotTypeOK' /\ FilesInv' /\ AcceptedInv'
            BY DEF FilesInv, AcceptedInv, PartOf, TextOf
        <3>2. ASSUME NEW at \in Destinations, NEW by \in begun[at], NEW n \in 0..5,
                     UnderWay(at, by, n)
              PROVE  UnderWay(at, by, n)'
            BY <3>2 DEF UnderWay, PartOf, TextOf
        <3>3. JobInv'
            BY <3>2 DEF JobInv, Idle
        <3> QED  BY <3>1, <3>3
    <2> QED  BY <2>1, <2>2, <2>3, <2>4, <2>5, <2>6 DEF SnapshotNext
<1>3. SnapshotInv => SnapshotsLoad
    BY SnapshotInvLoads
<1> QED  BY <1>1, <1>2, <1>3, PTL DEF SnapshotSpec

---------------------------------------------------------------------------
KnownEntries ==
    {Entry(prefix, hint) : prefix \in NamePrefixes, hint \in Hints}
      \cup {with_wsm3d_defaults[k] : k \in 1..Len(Defaults)}

FoundIn(listed, asset_id) ==
    {k \in 1..Len(listed) : Matches(listed[k].prefix, to_lowercase(asset_id))}

(* The entry that answers is the first that matches.                     *)
LEMMA FirstAnswers ==
    ASSUME NEW listed \in Seq(KnownEntries), NEW id
    PROVE  /\ id = << >> \/ FoundIn(listed, id) = {} => hint_among(listed, id) = AutoHint
           /\ \A k \in FoundIn(listed, id) :
                 (id # << >> /\ \A l \in FoundIn(listed, id) : k <= l)
                    => hint_among(listed, id) = listed[k].hint
<1> DEFINE found == FoundIn(listed, id)
<1>1. hint_among(listed, id) = IF id = << >> \/ found = {} THEN AutoHint
                             ELSE listed[CHOOSE k \in found : \A l \in found : k <= l].hint
    BY DEF hint_among, FoundIn
<1>2. found \subseteq Nat
    BY DEF FoundIn
<1> HIDE DEF found
<1>3. ASSUME NEW k \in found, \A l \in found : k <= l
      PROVE  (CHOOSE j \in found : \A l \in found : j <= l) = k
    <2> DEFINE least(j) == j \in found /\ \A l \in found : j <= l
    <2>1. \A j : least(j) => j = k
        BY <1>2, <1>3
    <2>2. least(k)
        BY <1>3
    <2> QED  BY <2>1, <2>2
<1>4. id = << >> \/ found = {} => hint_among(listed, id) = AutoHint
    BY <1>1
<1>5. ASSUME NEW k \in found, id # << >>, \A l \in found : k <= l
      PROVE  hint_among(listed, id) = listed[k].hint
    BY <1>1, <1>3, <1>5
<1> QED  BY <1>4, <1>5 DEF found

(* An entry registered later does not change an answer there was already.*)
LEMMA AppendedLast ==
    ASSUME NEW listed \in Seq(KnownEntries), NEW entry \in KnownEntries, NEW id,
           hint_among(listed, id) # AutoHint
    PROVE  hint_among(Append(listed, entry), id) = hint_among(listed, id)
<1> DEFINE longer == Append(listed, entry)
<1>1. /\ longer \in Seq(KnownEntries) /\ Len(longer) = Len(listed) + 1 /\ Len(listed) \in Nat
      /\ \A k \in 1..Len(listed) : longer[k] = listed[k]
    BY AppendShape
<1> HIDE DEF longer
<1>2. id # << >> /\ FoundIn(listed, id) # {}
    BY FirstAnswers
<1>3. PICK k \in FoundIn(listed, id) : \A l \in FoundIn(listed, id) : k <= l
    <2>1. FoundIn(listed, id) \in SUBSET Nat
        BY DEF FoundIn
    <2> QED  BY <1>2, <2>1, LeastNat
<1>4. k \in 1..Len(listed) /\ k <= Len(listed)
    BY <1>1 DEF FoundIn
<1>5. \A l \in FoundIn(longer, id) : l \in FoundIn(listed, id) \/ l = Len(listed) + 1
    BY <1>1 DEF FoundIn
<1>6. k \in FoundIn(longer, id)
    BY <1>1, <1>4 DEF FoundIn
<1>7. \A l \in FoundIn(longer, id) : k <= l
    BY <1>1, <1>3, <1>4, <1>5
<1>8. hint_among(longer, id) = longer[k].hint
    BY <1>1, <1>2, <1>6, <1>7, FirstAnswers
<1>9. hint_among(listed, id) = listed[k].hint
    BY <1>2, <1>3, FirstAnswers
<1> QED  BY <1>1, <1>4, <1>8, <1>9 DEF longer

(* A word in lower case stays as it is.                                  *)
LEMMA LowerTwice ==
    ASSUME NEW id \in AssetIds
    PROVE  /\ to_lowercase(to_lowercase(id)) = to_lowercase(id)
           /\ to_lowercase(id) = << >> <=> id = << >>
<1>1. id \in Seq(DOMAIN Lower) /\ Len(id) \in Nat
    BY HintsAssumption
<1>2. \A k \in 1..Len(id) : Lower[id[k]] \in DOMAIN Lower /\ Lower[Lower[id[k]]] = Lower[id[k]]
    BY <1>1, HintsAssumption
<1>3. Len(to_lowercase(id)) = Len(id) /\ \A k \in 1..Len(id) : to_lowercase(id)[k] = Lower[id[k]]
    BY <1>1, <1>2 DEF to_lowercase
<1>4. to_lowercase(to_lowercase(id)) = [k \in 1..Len(id) |-> Lower[Lower[id[k]]]]
    BY <1>1, <1>3 DEF to_lowercase
<1>5. to_lowercase(to_lowercase(id)) = to_lowercase(id)
    BY <1>2, <1>4 DEF to_lowercase
<1>6. to_lowercase(id) = << >> => id = << >>
    BY <1>1, <1>3
<1>7. id = << >> => to_lowercase(id) = << >>
    BY DEF to_lowercase
<1> QED  BY <1>5, <1>6, <1>7

(* Case does not matter to the answer.                                   *)
LEMMA LowerSame ==
    ASSUME NEW listed, NEW id \in AssetIds
    PROVE  hint_among(listed, to_lowercase(id)) = hint_among(listed, id)
<1>1. to_lowercase(to_lowercase(id)) = to_lowercase(id)
    BY LowerTwice
<1>2. to_lowercase(id) = << >> <=> id = << >>
    BY LowerTwice
<1> QED  BY <1>1, <1>2 DEF hint_among

EntriesInv == entries \in Seq(KnownEntries)

(* An asset keeps its hint until the registry is cleared, however the    *)
(* prefixes overlap (ShapeHintRegistry::register, get).                  *)
THEOREM EarlierHintsWin == HintsSpec => HintsLast
<1>1. HintsInit => EntriesInv
    <2>1. \A k \in 1..Len(Defaults) : with_wsm3d_defaults[k] \in KnownEntries
        BY DEF KnownEntries
    <2>2. Len(Defaults) \in Nat
        BY HintsAssumption
    <2>3. with_wsm3d_defaults = [k \in 1..Len(Defaults) |-> with_wsm3d_defaults[k]]
        BY DEF with_wsm3d_defaults
    <2>4. with_wsm3d_defaults \in Seq(KnownEntries)
        BY <2>1, <2>2, <2>3
    <2>5. << >> \in Seq(KnownEntries)
        OBVIOUS
    <2> QED  BY <2>4, <2>5 DEF HintsInit, EntriesInv
<1>2. EntriesInv /\ [HintsNext]_entries => EntriesInv'
    <2> SUFFICES ASSUME EntriesInv, [HintsNext]_entries PROVE EntriesInv'
        OBVIOUS
    <2>1. ASSUME NEW prefix \in NamePrefixes, NEW hint \in Hints, register_hint(prefix, hint)
          PROVE  EntriesInv'
        <3>1. Entry(prefix, hint) \in KnownEntries
            BY DEF KnownEntries
        <3>2. entries' \in Seq(KnownEntries)
            BY <2>1, <3>1, AppendShape DEF register_hint, EntriesInv
        <3> QED  BY <3>2 DEF EntriesInv, KnownEntries, with_wsm3d_defaults, Entry, to_lowercase
    <2>2. ASSUME clear_hints
          PROVE  EntriesInv'
        BY <2>2 DEF clear_hints, EntriesInv, KnownEntries, with_wsm3d_defaults, Entry, to_lowercase
    <2>3. ASSUME UNCHANGED entries
          PROVE  EntriesInv'
        BY <2>3 DEF EntriesInv, KnownEntries, with_wsm3d_defaults, Entry, to_lowercase
    <2> QED  BY <2>1, <2>2, <2>3 DEF HintsNext
<1>3. EntriesInv /\ [HintsNext]_entries =>
        [\A id \in AssetIds :
           LET later == hint_among(entries', id)
           IN  /\ entries' # << >> /\ hint_of(id) # AutoHint => later = hint_of(id)
               /\ later = hint_among(entries', to_lowercase(id))]_entries
    <2> SUFFICES ASSUME EntriesInv, HintsNext, NEW id \in AssetIds
                 PROVE  /\ entries' # << >> /\ hint_of(id) # AutoHint
                             => hint_among(entries', id) = hint_of(id)
                        /\ hint_among(entries', id) = hint_among(entries', to_lowercase(id))
        OBVIOUS
    <2>1. hint_among(entries', id) = hint_among(entries', to_lowercase(id))
        BY LowerSame
    <2>2. ASSUME NEW prefix \in NamePrefixes, NEW hint \in Hints, register_hint(prefix, hint),
                 hint_of(id) # AutoHint
          PROVE  hint_among(entries', id) = hint_of(id)
        <3>1. Entry(prefix, hint) \in KnownEntries
            BY DEF KnownEntries
        <3>2. entries' = Append(entries, Entry(prefix, hint))
            BY <2>2 DEF register_hint
        <3> QED  BY <2>2, <3>1, <3>2, AppendedLast DEF EntriesInv, hint_of
    <2>3. clear_hints => entries' = << >>
        BY DEF clear_hints
    <2> QED  BY <2>1, <2>2, <2>3 DEF HintsNext
<1> QED  BY <1>1, <1>2, <1>3, PTL DEF HintsSpec, HintsLast

---------------------------------------------------------------------------
ManagerTypeOK ==
    /\ plugins \in Seq(PluginNames) /\ infos \in Seq(PluginNames)
    /\ Len(infos) = Len(plugins)
    /\ results \in Seq(PluginNames \X BOOLEAN)
    /\ current \in Nat /\ runs \in Nat
    /\ since \in Seq(Nat) /\ Len(since) = Len(plugins)
    /\ inits \in Seq(Nat) /\ Len(inits) = Len(plugins)

(* In a run the plugins before the current one have had their turn.      *)
Owed(k) == IF current >= 1 /\ current <= k THEN 1 ELSE 0

TurnsInv ==
    /\ current >= 1 => Len(results) = current - 1
    /\ Len(results) <= Len(plugins)
    /\ \A k \in 1..Len(results) : results[k][1] = plugins[k]
    /\ \A k \in 1..Len(plugins) : inits[k] = runs - since[k] - Owed(k)

NamesDiffer == \A j, k \in 1..Len(plugins) : plugins[j] = plugins[k] => j = k

ManagerInv == ManagerTypeOK /\ TurnsInv /\ NamesDiffer

(* No plugin is registered yet.                                          *)
LEMMA ManagerBegin == ManagerInit => ManagerInv
BY DEF ManagerInit, ManagerInv, ManagerTypeOK, TurnsInv, NamesDiffer, Owed

(* Registrations and turns keep the count of every plugin's turns.       *)
LEMMA ManagerStep == ManagerInv /\ [ManagerNext]_manager => ManagerInv'
<1> SUFFICES ASSUME ManagerInv, [ManagerNext]_manager PROVE ManagerInv'
    OBVIOUS
<1> USE DEF ManagerInv, ManagerTypeOK
<1>1. ASSUME NEW name \in PluginNames, NEW info \in PluginNames, register(name, info)
      PROVE  ManagerInv'
    <2> DEFINE n == Len(plugins)
    <2>1. /\ plugins' \in Seq(PluginNames) /\ Len(plugins') = n + 1 /\ plugins'[n + 1] = name
          /\ \A k \in 1..n : plugins'[k] = plugins[k]
        BY <1>1, AppendShape DEF register
    <2>2. infos' \in Seq(PluginNames) /\ Len(infos') = n + 1
        BY <1>1, AppendShape DEF register
    <2>3. /\ since' \in Seq(Nat) /\ Len(since') = n + 1 /\ since'[n + 1] = runs
          /\ \A k \in 1..n : since'[k] = since[k]
        BY <1>1, AppendShape DEF register
    <2>4. /\ inits' \in Seq(Nat) /\ Len(inits') = n + 1 /\ inits'[n + 1] = 0
          /\ \A k \in 1..n : inits'[k] = inits[k]
        <3>1. 0 \in Nat
            OBVIOUS
        <3> QED  BY <1>1, <3>1, AppendShape DEF register
    <2>5. current = 0 /\ current' = 0 /\ runs' = runs /\ results' = results
        BY <1>1 DEF register
    <2>6. n \in Nat /\ \A k \in 1..n + 1 : k \in 1..n \/ k = n + 1
        OBVIOUS
    <2>7. \A k \in 1..n : plugins[k] # name
        <3>1. name \notin ToSet(plugins)
            BY <1>1 DEF register, AlreadyRegistered
        <3>2. DOMAIN plugins = 1..n
            OBVIOUS
        <3> HIDE DEF n, ManagerInv, ManagerTypeOK
        <3> QED  BY <3>1, <3>2 DEF ToSet
    <2> HIDE DEF n
    <2>8. ManagerTypeOK'
        BY <2>1, <2>2, <2>3, <2>4, <2>5
    <2>9. TurnsInv'
        <3>1. \A k \in 1..n + 1 : inits'[k] = runs' - since'[k] - 0
            <4>1. \A k \in 1..n : inits[k] = runs - since[k] - 0
                BY <2>5 DEF TurnsInv, Owed, n
            <4>2. inits'[n + 1] = runs' - since'[n + 1] - 0
                BY <2>3, <2>4, <2>5
            <4>3. \A k \in 1..n : inits'[k] = runs' - since'[k] - 0
                BY <4>1, <2>3, <2>4, <2>5
            <4> QED  BY <4>2, <4>3, <2>6
        <3>2. \A k \in 1..Len(results) : k \in 1..n
            BY <2>6 DEF TurnsInv, n
        <3> QED  BY <2>1, <2>5, <2>6, <3>1, <3>2 DEF TurnsInv, Owed, n
    <2>10. NamesDiffer'
        BY <2>1, <2>6, <2>7 DEF NamesDiffer, n
    <2> QED  BY <2>8, <2>9, <2>10
<1>2. ASSUME execute_all
      PROVE  ManagerInv'
    BY <1>2 DEF execute_all, TurnsInv, NamesDiffer, Owed
<1>3. ASSUME NEW ok \in BOOLEAN, NEW writes \in BOOLEAN, init(ok, writes)
      PROVE  ManagerInv'
    <2> DEFINE answer == <<plugins[current], ok>>
    <2>1. answer \in PluginNames \X BOOLEAN /\ answer[1] = plugins[current]
        BY <1>3 DEF init
    <2> HIDE DEF answer
    <2>2. /\ results' \in Seq(PluginNames \X BOOLEAN) /\ Len(results') = Len(results) + 1
          /\ results'[Len(results) + 1] = answer
          /\ \A k \in 1..Len(results) : results'[k] = results[k]
        BY <1>3, <2>1, AppendShape DEF init, answer
    <2>3. /\ current \in 1..Len(plugins) /\ current' = current + 1
          /\ plugins' = plugins /\ infos' = infos /\ runs' = runs /\ since' = since
          /\ inits' = [inits EXCEPT ![current] = @ + 1]
        BY <1>3 DEF init
    <2>4. /\ inits' \in Seq(Nat) /\ Len(inits') = Len(inits)
          /\ \A k \in 1..Len(inits) :
                inits'[k] = IF k = current THEN inits[k] + 1 ELSE inits[k]
        BY <2>3
    <2>5. ManagerTypeOK' /\ NamesDiffer'
        <3>1. /\ plugins' \in Seq(PluginNames) /\ infos' \in Seq(PluginNames)
              /\ Len(infos') = Len(plugins') /\ since' \in Seq(Nat) /\ Len(since') = Len(plugins')
            BY <2>3
        <3>2. current' \in Nat /\ runs' \in Nat
            BY <2>3
        <3>3. inits' \in Seq(Nat) /\ Len(inits') = Len(plugins')
            BY <2>3, <2>4
        <3>4. results' \in Seq(PluginNames \X BOOLEAN)
            BY <2>2
        <3>5. NamesDiffer'
            BY <2>3 DEF NamesDiffer
        <3> HIDE DEF ManagerInv
        <3> QED  BY <3>1, <3>2, <3>3, <3>4, <3>5
    <2>6. TurnsInv'
        <3> DEFINE n == Len(plugins)
        <3>1. Len(results) = current - 1 /\ current \in 1..n /\ n \in Nat
            BY <2>3 DEF TurnsInv
        <3>2. Len(results') = current' - 1 /\ Len(results') <= n
            BY <2>2, <2>3, <3>1
        <3>3. \A k \in 1..Len(results') : results'[k][1] = plugins[k]
            <4>1. \A k \in 1..Len(results') : k \in 1..Len(results) \/ k = current
                BY <2>2, <3>1
            <4>2. results'[current] = answer
                BY <2>2, <3>1
            <4> QED  BY <2>1, <2>2, <4>1, <4>2 DEF TurnsInv
        <3>4. ASSUME NEW k \in 1..n
              PROVE  inits'[k] = runs - since[k] - IF current + 1 <= k THEN 1 ELSE 0
            <4>1. inits[k] = runs - since[k] - IF current <= k THEN 1 ELSE 0
                BY <3>1 DEF TurnsInv, Owed
            <4>2. inits[k] \in Nat /\ since[k] \in Nat
                OBVIOUS
            <4>3. inits'[k] = IF k = current THEN inits[k] + 1 ELSE inits[k]
                BY <2>4
            <4>4. runs \in Nat /\ current \in Nat /\ k \in Nat
                BY <3>1
            <4> HIDE DEF n
            <4>5. CASE k = current
                <5>1. inits[k] = runs - since[k] - 1 /\ inits'[k] = inits[k] + 1
                    BY <4>1, <4>3, <4>4, <4>5
                <5>2. ~ (current + 1 <= k)
                    BY <4>4, <4>5
                <5>3. runs - since[k] - 1 + 1 = runs - since[k] - 0
                    BY <4>2, <4>4
                <5> QED  BY <5>1, <5>2, <5>3
            <4>6. CASE k # current
                <5>1. inits'[k] = inits[k] /\ (current + 1 <= k <=> current <= k)
                    BY <4>3, <4>4, <4>6
                <5> QED  BY <4>1, <5>1
            <4> QED  BY <4>5, <4>6
        <3>5. \A k \in 1..n : inits'[k] = runs' - since'[k] - Owed(k)'
            BY <2>3, <3>1, <3>4 DEF Owed
        <3> QED  BY <2>3, <3>2, <3>3, <3>5 DEF TurnsInv, Owed
    <2> QED  BY <2>5, <2>6
<1>4. ASSUME executed
      PROVE  ManagerInv'
    BY <1>4 DEF executed, TurnsInv, NamesDiffer, Owed
<1>5. ASSUME UNCHANGED manager
      PROVE  ManagerInv'
    BY <1>5 DEF manager, TurnsInv, NamesDiffer, Owed
<1> QED  BY <1>1, <1>2, <1>3, <1>4, <1>5 DEF ManagerNext

(* At the end of a run every plugin has had one turn and has its answer. *)
LEMMA ManagerAnswers ==
    ASSUME ManagerInv
    PROVE  PluginsAnswer
<1> USE DEF ManagerInv, ManagerTypeOK
<1>1. IsInjective(plugins)
    BY DEF NamesDiffer, IsInjective
<1> DEFINE told == [k \in 1..Len(results) |-> results[k][1]]
<1>2. told \in Seq(PluginNames) /\ Len(told) = Len(results)
    OBVIOUS
<1>3. IsPrefix(told, plugins)
    BY <1>2 DEF TurnsInv, IsPrefix
<1>4. current = 0 => \A k \in 1..Len(plugins) : inits[k] = runs - since[k]
    BY DEF TurnsInv, Owed
<1> QED  BY <1>1, <1>3, <1>4 DEF PluginsAnswer

---------------------------------------------------------------------------
Calls == [name : {"register", "unregister", "find", "list"}, id : Nat]

(* What the log says of one id.                                          *)
Says(ids, told, id) ==
    IF Changes(told, id) = {} THEN id \in ids
    ELSE \E k \in Changes(told, id) :
             told[k].name = "register" /\ \A j \in Changes(told, id) : j <= k

(* Replaying a log and looking up its last word on an id are the same.   *)
LEMMA SaysReplayed ==
    ASSUME NEW ids, NEW told, NEW id
    PROVE  id \in Replayed(ids, told) <=> Says(ids, told, id)
<1>1. ASSUME Says(ids, told, id)
      PROVE  id \in ids \cup {told[k].id : k \in DOMAIN told}
    BY <1>1 DEF Says, Changes
<1> QED  BY <1>1 DEF Replayed, Says

(* A new entry has the last word on its own id and none on others.       *)
LEMMA SaysNext ==
    ASSUME NEW ids, NEW told \in Seq(Calls), NEW c \in Calls, NEW id
    PROVE  Says(ids, Append(told, c), id) <=>
               \/ id = c.id /\ c.name = "register"
               \/ Says(ids, told, id) /\ ~ (id = c.id /\ c.name = "unregister")
<1> DEFINE longer == Append(told, c)
           n == Len(told) + 1
<1>1. /\ longer \in Seq(Calls) /\ Len(longer) = n /\ longer[n] = c
      /\ \A k \in 1..Len(told) : longer[k] = told[k]
    BY AppendShape
<1>2. Len(told) \in Nat /\ DOMAIN told = 1..Len(told) /\ DOMAIN longer = 1..n
    BY <1>1
<1> HIDE DEF longer
<1>3. \A k \in 1..n : k \in 1..Len(told) \/ k = n
    BY <1>2
<1>4. \A k \in 1..Len(told) : k \in 1..n /\ k # n /\ k <= n
    BY <1>2
<1>5. CASE id = c.id /\ c.name \in {"register", "unregister"}
    <2>1. n \in Changes(longer, id) /\ n \in Nat
        BY <1>1, <1>2, <1>5 DEF Changes
    <2>2. \A j \in Changes(longer, id) : j <= n /\ j \in Nat
        BY <1>2 DEF Changes
    <2>3. ASSUME Says(ids, longer, id)
          PROVE  c.name = "register"
        <3>1. PICK k \in Changes(longer, id) :
                  longer[k].name = "register" /\ \A j \in Changes(longer, id) : j <= k
            BY <2>1, <2>3 DEF Says
        <3>2. k = n
            BY <2>1, <2>2, <3>1
        <3> QED  BY <1>1, <3>1, <3>2
    <2>4. ASSUME c.name = "register"
          PROVE  Says(ids, longer, id)
        BY <1>1, <2>1, <2>2, <2>4 DEF Says
    <2> QED  BY <1>5, <2>3, <2>4 DEF longer
<1>6. CASE ~ (id = c.id /\ c.name \in {"register", "unregister"})
    <2>1. Changes(longer, id) = Changes(told, id)
        BY <1>1, <1>2, <1>3, <1>4, <1>6 DEF Changes
    <2>2. \A k \in Changes(told, id) : longer[k] = told[k]
        BY <1>1, <1>2 DEF Changes
    <2>3. Says(ids, longer, id) <=> Says(ids, told, id)
        BY <2>1, <2>2 DEF Says
    <2> QED  BY <1>6, <2>3 DEF longer
<1> QED  BY <1>5, <1>6

(* A replay goes on from the replay of what came before.                 *)
LEMMA ReplayedNext ==
    ASSUME NEW ids, NEW told \in Seq(Calls), NEW c \in Calls
    PROVE  /\ c.name = "register" =>
                 Replayed(ids, Append(told, c)) = Replayed(ids, told) \cup {c.id}
           /\ c.name = "unregister" =>
                 Replayed(ids, Append(told, c)) = Replayed(ids, told) \ {c.id}
           /\ c.name \notin {"register", "unregister"} =>
                 Replayed(ids, Append(told, c)) = Replayed(ids, told)
<1>1. \A id : id \in Replayed(ids, Append(told, c)) <=>
          \/ id = c.id /\ c.name = "register"
          \/ id \in Replayed(ids, told) /\ ~ (id = c.id /\ c.name = "unregister")
    BY SaysNext, SaysReplayed
<1> QED  BY <1>1

(* An empty log changes nothing.                                         *)
LEMMA ReplayedNone ==
    ASSUME NEW ids
    PROVE  Replayed(ids, << >>) = ids
<1>1. DOMAIN << >> = {}
    OBVIOUS
<1> QED  BY <1>1 DEF Replayed, Changes

RegistriesInv ==
    /\ made \in Seq([id : Nat, label : Labels])
    /\ calls \in Seq(Calls)
    /\ RegistriesReplay

(* Empty registries agree with their empty logs.                         *)
LEMMA RegistriesBegin == RegistriesInit => RegistriesInv
<1> SUFFICES ASSUME RegistriesInit PROVE RegistriesInv
    OBVIOUS
<1>1. Replayed({}, << >>) = {}
    BY ReplayedNone
<1> QED  BY <1>1 DEF RegistriesInit, RegistriesInv, RegistriesReplay, NoMaterials

(* Every call does to the ids what its entry in the log says.            *)
LEMMA RegistriesStep == RegistriesInv /\ [RegistriesNext]_registries => RegistriesInv'
<1> SUFFICES ASSUME RegistriesInv, [RegistriesNext]_registries PROVE RegistriesInv'
    OBVIOUS
<1> USE DEF RegistriesInv, RegistriesReplay
<1> DEFINE M == [id : Nat, label : Labels]
<1>0. \A k \in DOMAIN made : made[k] \in M
    <2> HIDE DEF M
    <2> QED  BY ElementIn DEF M
<1>1. ASSUME make
      PROVE  RegistriesInv'
    <2>1. UNCHANGED <<domain, by_id, mirror, calls, kept>>
        BY <1>1 DEF make
    <2>2. made' \in Seq(M)
        <3>1. ASSUME NEW m \in M, made' = Append(made, m)
              PROVE  made' \in Seq(M)
            <4> HIDE DEF M
            <4> QED  BY <3>1, AppendShape DEF M
        <3>2. ASSUME NEW label \in Labels, NEW id \in 1..2, PostFxMaterialInfo(id, label)
              PROVE  made' \in Seq(M)
            <4>1. [id |-> id, label |-> label] \in M
                OBVIOUS
            <4> QED  BY <3>1, <3>2, <4>1 DEF PostFxMaterialInfo
        <3>3. ASSUME NEW label \in Labels, TerrainMaterial(label) \/ WaterMaterial(label)
              PROVE  made' \in Seq(M)
            <4>1. [id |-> Len(made) + 1, label |-> label] \in M
                OBVIOUS
            <4> QED  BY <3>1, <3>3, <4>1 DEF TerrainMaterial, WaterMaterial, next_handle
        <3>4. ASSUME NEW k \in DOMAIN made, NEW label \in Labels, set_name(k, label)
              PROVE  made' \in Seq(M)
            <4> DEFINE m == [made[k] EXCEPT !.label = label]
            <4>1. made[k] \in M
                BY <1>0
            <4>2. m \in M
                BY <4>1
            <4>3. made' = [made EXCEPT ![k] = m]
                BY <3>4 DEF set_name
            <4> HIDE DEF m, M
            <4> QED  BY <4>2, <4>3 DEF M
        <3> QED  BY <1>1, <3>2, <3>3, <3>4 DEF make
    <2> QED  BY <2>1, <2>2
<1>2. ASSUME call
      PROVE  RegistriesInv'
    <2>1. UNCHANGED <<domain, made, kept>>
        BY <1>2 DEF call
    <2>2. ASSUME NEW c \in Calls, calls' = Append(calls, c),
                 \/ /\ c.name = "register"
                    /\ DOMAIN mirror' = DOMAIN mirror \cup {c.id}
                 \/ /\ c.name = "unregister"
                    /\ DOMAIN mirror' = DOMAIN mirror \ {c.id}
                 \/ /\ c.name \notin {"register", "unregister"}
                    /\ mirror' = mirror,
                 mirror' = by_id',
                 domain # "postfx" => \A id \in DOMAIN by_id' : by_id'[id] # Blank
          PROVE  RegistriesInv'
        <3>1. calls' \in Seq(Calls)
            BY <2>2, AppendShape
        <3>2. DOMAIN mirror' = Replayed(kept', calls')
            <4>1. calls' = Append(calls, c) /\ kept' = kept /\ DOMAIN mirror = Replayed(kept, calls)
                BY <2>1, <2>2
            <4>2. CASE c.name = "register"
                <5>1. DOMAIN mirror' = DOMAIN mirror \cup {c.id}
                    BY <2>2, <4>2
                <5> QED  BY <4>1, <4>2, <5>1, ReplayedNext
            <4>3. CASE c.name = "unregister"
                <5>1. DOMAIN mirror' = DOMAIN mirror \ {c.id}
                    BY <2>2, <4>3
                <5> QED  BY <4>1, <4>3, <5>1, ReplayedNext
            <4>4. CASE c.name \notin {"register", "unregister"}
                <5>1. mirror' = mirror
                    BY <2>2, <4>4
                <5> QED  BY <4>1, <4>4, <5>1, ReplayedNext
            <4> QED  BY <4>2, <4>3, <4>4
        <3> QED  BY <2>1, <2>2, <3>1, <3>2
    <2>3. ASSUME NEW m \in M, Logged("register", m.id), Inserted(m),
                 domain # "postfx" => m.label # Blank
          PROVE  RegistriesInv'
        <3> DEFINE c == [name |-> "register", id |-> m.id]
        <3>1. c \in Calls /\ c.name = "register" /\ c.id = m.id
            BY DEF Calls
        <3>2. calls' = Append(calls, c)
            BY <2>3 DEF Logged
        <3>3. DOMAIN mirror' = DOMAIN mirror \cup {m.id} /\ mirror' = by_id'
            BY <2>3 DEF Inserted, Holding
        <3>4. domain # "postfx" => \A id \in DOMAIN by_id' : by_id'[id] # Blank
            BY <2>3 DEF Inserted, Holding
        <3> HIDE DEF c
        <3> QED  BY <2>2, <3>1, <3>2, <3>3, <3>4
    <2>4. ASSUME NEW id \in Nat, unregister(id)
          PROVE  RegistriesInv'
        <3> DEFINE c == [name |-> "unregister", id |-> id]
        <3>1. c \in Calls /\ c.name = "unregister" /\ c.id = id
            BY DEF Calls
        <3>2. calls' = Append(calls, c)
            BY <2>4 DEF Logged, unregister
        <3>3. DOMAIN mirror' = DOMAIN mirror \ {id} /\ mirror' = by_id'
            BY <2>4 DEF unregister, Without
        <3>4. domain # "postfx" => \A i \in DOMAIN by_id' : by_id'[i] # Blank
            BY <2>4 DEF unregister, Without
        <3> HIDE DEF c
        <3> QED  BY <2>2, <3>1, <3>2, <3>3, <3>4
    <2>5. ASSUME NEW id \in Nat, NEW name \in {"find", "list"}, Logged(name, id),
                 UNCHANGED <<by_id, mirror>>
          PROVE  RegistriesInv'
        <3> DEFINE c == [name |-> name, id |-> id]
        <3>1. c \in Calls /\ c.name \notin {"register", "unregister"}
            BY DEF Calls
        <3>2. calls' = Append(calls, c)
            BY <2>5 DEF Logged
        <3> HIDE DEF c
        <3> QED  BY <2>2, <2>5, <3>1, <3>2
    <2>6. ASSUME NEW k \in DOMAIN made,
                 \/ register_postfx(made[k]) \/ register_terrain(made[k])
                 \/ register_water(made[k])
          PROVE  RegistriesInv'
        <3>1. made[k] \in M
            BY <1>0
        <3>2. /\ Logged("register", made[k].id) /\ Inserted(made[k])
              /\ domain # "postfx" => made[k].label # Blank
            BY <2>6 DEF register_postfx, register_terrain, register_water, register_named
        <3> QED  BY <2>3, <3>1, <3>2
    <2>7. \A k \in DOMAIN made : made[k].id \in Nat
        BY <1>0
    <2>8. list => Logged("list", 0) /\ UNCHANGED <<by_id, mirror>>
        BY DEF list
    <2>9. \A id : find(id) => Logged("find", id) /\ UNCHANGED <<by_id, mirror>>
        BY DEF find
    <2>10. 0 \in Nat
        OBVIOUS
    <2> QED
        <3> HIDE DEF RegistriesInv
        <3> QED  BY <1>2, <2>4, <2>5, <2>6, <2>7, <2>8, <2>9, <2>10 DEF call
<1>3. ASSUME reset_calls
      PROVE  RegistriesInv'
    <2>1. Replayed(DOMAIN mirror, << >>) = DOMAIN mirror
        BY ReplayedNone
    <2> QED  BY <1>3, <2>1 DEF reset_calls
<1>4. ASSUME UNCHANGED registries
      PROVE  RegistriesInv'
    BY <1>4 DEF registries, Replayed, Changes
<1> QED  BY <1>1, <1>2, <1>3, <1>4 DEF RegistriesNext

---------------------------------------------------------------------------
(* The values that are kept, one by one.                                 *)
KeptUpTo(f, s, values) ==
    /\ f[0] = << >>
    /\ \A n \in 1..Len(s) :
          f[n] = IF s[n] \in values THEN Append(f[n - 1], s[n]) ELSE f[n - 1]

(* Kept is what its recursion says, at every step.                       *)
LEMMA KeptSteps ==
    ASSUME NEW X, NEW s \in Seq(X), NEW values
    PROVE  \E f \in [0..Len(s) -> Seq(X \cap values)] :
              KeptUpTo(f, s, values) /\ Kept(s, values) = f[Len(s)]
<1> DEFINE N == Len(s)
           Y == Seq(X \cap values)
           step(n, x) == IF s[n] \in values THEN Append(x, s[n]) ELSE x
           next == [n \in 1..N |-> [x \in Y |-> step(n, x)]]
           body(h) == [n \in 0..N |-> IF n = 0 THEN << >> ELSE step(n, h[n - 1])]
<1>1. N \in Nat /\ << >> \in Y
    OBVIOUS
<1>2. \A n \in 1..N : s[n] \in X
    OBVIOUS
<1>3. ASSUME NEW n \in 1..N, NEW x \in Y
      PROVE  step(n, x) \in Y
    <2>1. CASE s[n] \in values
        <3>1. s[n] \in X \cap values
            BY <1>2, <2>1
        <3> QED  BY <2>1, <3>1, AppendShape
    <2>2. CASE s[n] \notin values
        BY <2>2
    <2> QED  BY <2>1, <2>2
<1>4. next \in [1..N -> [Y -> Y]]
    <2> HIDE DEF step, Y
    <2> QED  BY <1>3
<1>5. PICK f \in [0..N -> Y] : Follows(f, N, << >>, next)
    <2> HIDE DEF next, Y, N
    <2> QED  BY <1>1, <1>4, Recursion
<1>6. f[0] = << >> /\ \A n \in 1..N : f[n] = step(n, f[n - 1])
    <2>1. \A n \in 1..N : n - 1 \in 0..N /\ f[n - 1] \in Y
        <3> HIDE DEF N, Y
        <3> QED  BY <1>1, <1>5
    <2>2. \A n \in 1..N : next[n][f[n - 1]] = step(n, f[n - 1])
        <3> HIDE DEF step, Y
        <3> QED  BY <2>1
    <2> HIDE DEF next, step, Y, N
    <2> QED  BY <1>5, <2>2 DEF Follows
<1>7. f = body(f)
    <2>1. \A n \in 0..N : n = 0 \/ n \in 1..N
        BY <1>1
    <2>2. \A n \in 0..N : f[n] = IF n = 0 THEN << >> ELSE step(n, f[n - 1])
        <3> HIDE DEF step
        <3> QED  BY <1>6, <2>1
    <2> HIDE DEF step, Y
    <2> QED  BY <1>5, <2>2
<1> DEFINE g == CHOOSE h : h = body(h)
<1>8. g = body(g)
    <2> HIDE DEF body
    <2> QED  BY <1>7
<1>9. Kept(s, values) = g[N]
    BY DEF Kept
<1>10. \A n \in 0..N : g[n] = f[n]
    <2> DEFINE S == {n \in 0..N : g[n] = f[n]}
    <2>0. g[0] = << >> /\ \A n \in 1..N : g[n] = step(n, g[n - 1])
        <3>1. \A h : body(h)[0] = << >>
            BY <1>1
        <3>2. \A h : \A n \in 1..N : body(h)[n] = step(n, h[n - 1])
            <4> HIDE DEF step
            <4>1. \A n \in 1..N : n \in 0..N /\ n # 0
                BY <1>1
            <4> QED  BY <4>1
        <3> HIDE DEF g, body, step
        <3> QED  BY <1>8, <3>1, <3>2
    <2> HIDE DEF g, body
    <2>1. 0 \in S
        BY <1>1, <1>6, <2>0
    <2>2. ASSUME NEW n \in 0..N - 1, n \in S
          PROVE  n + 1 \in S
        <3>1. n + 1 \in 1..N /\ n + 1 \in 0..N /\ (n + 1) - 1 = n
            BY <1>1
        <3>2. g[n + 1] = step(n + 1, g[n]) /\ f[n + 1] = step(n + 1, f[n])
            <4> HIDE DEF step
            <4> QED  BY <3>1, <1>6, <2>0
        <3> HIDE DEF step
        <3> QED  BY <2>2, <3>1, <3>2
    <2>3. 0..N \subseteq S
        <3> HIDE DEF S, N
        <3> QED  BY <1>1, <2>1, <2>2, UpTo
    <2> QED  BY <2>3
<1>11. N \in 0..N
    BY <1>1
<1>12. KeptUpTo(f, s, values) /\ Kept(s, values) = f[Len(s)]
    <2> HIDE DEF g, body, next
    <2> QED  BY <1>6, <1>9, <1>10, <1>11 DEF KeptUpTo
<1> QED  BY <1>5, <1>12

(* What is kept is at most as long, and of the values.                   *)
LEMMA KeptShape ==
    ASSUME NEW X, NEW s \in Seq(X), NEW values
    PROVE  Kept(s, values) \in Seq(X \cap values) /\ Len(Kept(s, values)) <= Len(s)
<1> DEFINE N == Len(s)
           Y == Seq(X \cap values)
<1>1. PICK f \in [0..N -> Y] : KeptUpTo(f, s, values) /\ Kept(s, values) = f[N]
    BY KeptSteps
<1>2. N \in Nat
    OBVIOUS
<1> DEFINE S == {n \in 0..N : Len(f[n]) <= n}
<1>3. 0 \in S
    BY <1>1, <1>2 DEF KeptUpTo
<1>4. ASSUME NEW n \in 0..N - 1, n \in S
      PROVE  n + 1 \in S
    <2>1. n + 1 \in 1..N /\ n + 1 \in 0..N /\ (n + 1) - 1 = n /\ n \in 0..N
        BY <1>2
    <2>2. f[n] \in Y /\ s[n + 1] \in X
        BY <1>1, <2>1
    <2>3. f[n + 1] = IF s[n + 1] \in values THEN Append(f[n], s[n + 1]) ELSE f[n]
        BY <1>1, <2>1 DEF KeptUpTo
    <2>4. Len(f[n]) \in Nat /\ Len(f[n]) <= n
        BY <1>4, <2>2
    <2>5. CASE s[n + 1] \in values
        <3>1. s[n + 1] \in X \cap values
            BY <2>2, <2>5
        <3>2. Len(f[n + 1]) = Len(f[n]) + 1
            BY <2>2, <2>3, <2>5, <3>1, AppendShape
        <3> QED  BY <2>1, <2>4, <3>2
    <2>6. CASE s[n + 1] \notin values
        BY <2>1, <2>3, <2>4, <2>6
    <2> QED  BY <2>5, <2>6
<1>5. 0..N \subseteq S
    <2> HIDE DEF S, N
    <2> QED  BY <1>2, <1>3, <1>4, UpTo
<1>6. N \in 0..N
    BY <1>2
<1> QED  BY <1>1, <1>5, <1>6

(* Nothing is kept of nothing.                                           *)
LEMMA KeptNone ==
    ASSUME NEW values
    PROVE  Kept(<< >>, values) = << >>
<1>1. << >> \in Seq({}) /\ Len(<< >>) = 0
    OBVIOUS
<1>2. PICK f : KeptUpTo(f, << >>, values) /\ Kept(<< >>, values) = f[Len(<< >>)]
    BY <1>1, KeptSteps
<1> QED  BY <1>1, <1>2 DEF KeptUpTo

(* An appended value is kept, or it is not.                              *)
LEMMA KeptNext ==
    ASSUME NEW X, NEW s \in Seq(X), NEW e \in X, NEW values
    PROVE  Kept(Append(s, e), values) =
               IF e \in values THEN Append(Kept(s, values), e) ELSE Kept(s, values)
<1> DEFINE N == Len(s)
           t == Append(s, e)
<1>1. /\ N \in Nat /\ t \in Seq(X) /\ Len(t) = N + 1 /\ t[N + 1] = e
      /\ \A k \in 1..N : t[k] = s[k]
    BY AppendShape
<1> HIDE DEF t
<1>2. PICK f : KeptUpTo(f, s, values) /\ Kept(s, values) = f[N]
    BY KeptSteps
<1>3. PICK g : KeptUpTo(g, t, values) /\ Kept(t, values) = g[N + 1]
    <2>1. PICK g \in [0..Len(t) -> Seq(X \cap values)] :
              KeptUpTo(g, t, values) /\ Kept(t, values) = g[Len(t)]
        BY <1>1, KeptSteps
    <2> QED  BY <1>1, <2>1
<1> HIDE DEF N
<1> DEFINE S == {n \in 0..N : f[n] = g[n]}
<1>4. 0 \in S
    BY <1>1, <1>2, <1>3 DEF KeptUpTo
<1>5. ASSUME NEW n \in 0..N - 1, n \in S
      PROVE  n + 1 \in S
    <2>1. n + 1 \in 1..N /\ n + 1 \in 1..N + 1 /\ (n + 1) - 1 = n /\ n + 1 \in 0..N
        BY <1>1
    <2>2. f[n + 1] = IF s[n + 1] \in values THEN Append(f[n], s[n + 1]) ELSE f[n]
        BY <1>2, <2>1 DEF KeptUpTo, N
    <2>3. g[n + 1] = IF t[n + 1] \in values THEN Append(g[n], t[n + 1]) ELSE g[n]
        BY <1>1, <1>3, <2>1 DEF KeptUpTo
    <2> QED  BY <1>1, <1>5, <2>1, <2>2, <2>3
<1>6. 0..N \subseteq S
    <2> HIDE DEF S
    <2> QED  BY <1>1, <1>4, <1>5, UpTo
<1>7. f[N] = g[N]
    BY <1>1, <1>6
<1>8. N + 1 \in 1..N + 1 /\ (N + 1) - 1 = N
    BY <1>1
<1>9. g[N + 1] = IF t[N + 1] \in values THEN Append(g[N], t[N + 1]) ELSE g[N]
    BY <1>1, <1>3, <1>8 DEF KeptUpTo
<1> QED  BY <1>1, <1>2, <1>3, <1>7, <1>9 DEF t

(* The first n elements of a sequence, element by element.               *)
LEMMA SubSeqFirst ==
    ASSUME NEW X, NEW s \in Seq(X), NEW m \in 0..Len(s)
    PROVE  /\ SubSeq(s, 1, m) = [k \in 1..m |-> s[k]]
           /\ SubSeq(s, 1, m) \in Seq(X) /\ Len(SubSeq(s, 1, m)) = m
OBVIOUS

(* A sequence is its own longest prefix.                                 *)
LEMMA SubSeqAll ==
    ASSUME NEW X, NEW s \in Seq(X)
    PROVE  SubSeq(s, 1, Len(s)) = s
OBVIOUS

(* A prefix that ends before the last element does not see it.           *)
LEMMA SubSeqAppend ==
    ASSUME NEW X, NEW s \in Seq(X), NEW e \in X, NEW m \in 0..Len(s)
    PROVE  SubSeq(Append(s, e), 1, m) = SubSeq(s, 1, m)
<1>1. /\ Append(s, e) \in Seq(X) /\ Len(Append(s, e)) = Len(s) + 1
      /\ \A k \in 1..Len(s) : Append(s, e)[k] = s[k]
    BY AppendShape
<1>2. m \in 0..Len(Append(s, e)) /\ \A k \in 1..m : k \in 1..Len(s)
    BY <1>1
<1>3. SubSeq(Append(s, e), 1, m) = [k \in 1..m |-> Append(s, e)[k]]
    BY <1>1, <1>2, SubSeqFirst
<1>4. SubSeq(s, 1, m) = [k \in 1..m |-> s[k]]
    BY SubSeqFirst
<1> QED  BY <1>1, <1>2, <1>3, <1>4

(* Appending to the second of two sequences appends to both together.    *)
LEMMA ConcatAppend ==
    ASSUME NEW X, NEW r \in Seq(X), NEW s \in Seq(X), NEW e \in X
    PROVE  /\ r \o s \in Seq(X)
           /\ r \o Append(s, e) = Append(r \o s, e)
OBVIOUS

AddCalls == [call : {"add"}, name : MaterialNames]
LogEntries == [call : {"add", "get"}, name : MaterialNames \cup {"NotFound"}]

NamesIn(told) == [k \in 1..Len(Kept(told, AddCalls)) |-> Kept(told, AddCalls)[k].name]

(* A call of add adds its name to those the log tells of, any other none.*)
LEMMA NamesInNext ==
    ASSUME NEW told \in Seq(LogEntries), NEW c \in LogEntries
    PROVE  /\ NamesIn(told) \in Seq(MaterialNames)
           /\ c \in AddCalls => NamesIn(Append(told, c)) = Append(NamesIn(told), c.name)
           /\ c \notin AddCalls => NamesIn(Append(told, c)) = NamesIn(told)
<1> DEFINE adds == Kept(told, AddCalls)
           X == LogEntries \cap AddCalls
<1>1. adds \in Seq(X)
    BY KeptShape
<1>2. \A r \in X : r.name \in MaterialNames
    BY DEF AddCalls
<1>3. NamesIn(told) \in Seq(MaterialNames) /\ Len(NamesIn(told)) = Len(adds)
    <2>1. NamesIn(told) = [k \in 1..Len(adds) |-> adds[k].name]
        BY DEF NamesIn
    <2> HIDE DEF adds, X
    <2>2. \A k \in 1..Len(adds) : adds[k] \in X
        BY <1>1
    <2>3. \A k \in 1..Len(adds) : adds[k].name \in MaterialNames
        BY <1>2, <2>2
    <2> QED  BY <1>1, <2>1, <2>3
<1>4. ASSUME c \in AddCalls
      PROVE  NamesIn(Append(told, c)) = Append(NamesIn(told), c.name)
    <2>1. Kept(Append(told, c), AddCalls) = Append(adds, c) /\ c \in X
        BY <1>4, KeptNext
    <2> DEFINE more == Append(adds, c)
    <2>2. /\ Len(more) = Len(adds) + 1 /\ more[Len(adds) + 1] = c
          /\ \A k \in 1..Len(adds) : more[k] = adds[k]
        <3> HIDE DEF adds, X
        <3> QED  BY <1>1, <2>1, AppendShape
    <2>3. NamesIn(Append(told, c)) = [k \in 1..Len(more) |-> more[k].name]
        BY <2>1 DEF NamesIn
    <2>4. NamesIn(told) = [k \in 1..Len(adds) |-> adds[k].name]
        BY DEF NamesIn
    <2>5. c.name \in MaterialNames
        BY <1>4 DEF AddCalls
    <2> DEFINE longer == Append(NamesIn(told), c.name)
    <2>6. /\ longer \in Seq(MaterialNames) /\ Len(longer) = Len(adds) + 1
          /\ longer[Len(adds) + 1] = c.name
          /\ \A k \in 1..Len(adds) : longer[k] = NamesIn(told)[k]
        <3> HIDE DEF adds
        <3> QED  BY <1>3, <2>5, AppendShape
    <2>7. Len(adds) \in Nat
        <3> HIDE DEF adds, X
        <3> QED  BY <1>1
    <2> HIDE DEF more, adds, longer, X
    <2>8. \A k \in 1..Len(adds) + 1 : longer[k] = more[k].name
        <3>1. \A k \in 1..Len(adds) + 1 : k \in 1..Len(adds) \/ k = Len(adds) + 1
            BY <2>7
        <3> QED  BY <2>2, <2>4, <2>6, <3>1
    <2> QED  BY <2>2, <2>3, <2>6, <2>8 DEF longer
<1>5. ASSUME c \notin AddCalls
      PROVE  NamesIn(Append(told, c)) = NamesIn(told)
    <2>1. Kept(Append(told, c), AddCalls) = adds
        BY <1>5, KeptNext
    <2> QED  BY <2>1 DEF NamesIn
<1> QED  BY <1>3, <1>4, <1>5

PalettesTypeOK ==
    /\ mock \in Seq(MaterialNames) /\ palette \in Seq(MaterialNames)
    /\ before \in Seq(MaterialNames) /\ log \in Seq(LogEntries)
    /\ Len(mock) <= PaletteSize

FirstOf(names) == SubSeq(names, 1, Least(PaletteSize, Len(names)))

AsAdded == mock = FirstOf(before \o NamesIn(log))

NamedFirst ==
    /\ IsPrefix(Named(mock), palette)
    /\ Len(mock) < PaletteSize => palette = Named(mock)

AnswerHolds(answer, names) ==
    answer.error = "none" => get(names, answer.id) = Last(names)

PalettesInv ==
    /\ PalettesTypeOK /\ AsAdded /\ NamedFirst
    /\ AnswerHolds(answers[1], palette) /\ AnswerHolds(answers[2], mock)

(* A prefix agrees with the whole sequence at each of its places.        *)
LEMMA PrefixShape ==
    ASSUME NEW X, NEW s \in Seq(X), NEW t \in Seq(X)
    PROVE  IsPrefix(s, t) <=> Len(s) <= Len(t) /\ \A k \in 1..Len(s) : s[k] = t[k]
<1>1. SubSeq(s, 1, Len(s)) = s
    BY SubSeqAll
<1>2. ASSUME Len(s) <= Len(t)
      PROVE  SubSeq(t, 1, Len(s)) = [k \in 1..Len(s) |-> t[k]]
    <2>1. Len(s) \in 0..Len(t)
        BY <1>2
    <2> QED  BY <2>1, SubSeqFirst
<1>3. s = [k \in 1..Len(s) |-> s[k]]
    OBVIOUS
<1>4. ASSUME Len(s) <= Len(t), \A k \in 1..Len(s) : s[k] = t[k]
      PROVE  IsPrefix(s, t)
    BY <1>1, <1>2, <1>3, <1>4 DEF IsPrefix
<1>5. ASSUME IsPrefix(s, t)
      PROVE  Len(s) <= Len(t) /\ \A k \in 1..Len(s) : s[k] = t[k]
    <2>1. Len(s) <= Len(t) /\ s = SubSeq(t, 1, Len(s))
        BY <1>1, <1>5 DEF IsPrefix
    <2>2. s = [k \in 1..Len(s) |-> t[k]]
        BY <1>2, <2>1
    <2> QED  BY <2>1, <2>2
<1> QED  BY <1>4, <1>5

(* What add does to a list of materials.                                 *)
LEMMA AddedShape ==
    ASSUME NEW names \in Seq(MaterialNames), NEW name \in MaterialNames
    PROVE  /\ Added(names, name).materials \in Seq(MaterialNames)
           /\ Len(names) < PaletteSize =>
                 /\ Added(names, name).materials = Append(names, name)
                 /\ Len(Added(names, name).materials) = Len(names) + 1
           /\ ~ (Len(names) < PaletteSize) => Added(names, name).materials = names
           /\ AnswerHolds(Added(names, name).id, Added(names, name).materials)
<1> DEFINE more == Append(names, name)
<1>1. more \in Seq(MaterialNames) /\ Len(more) = Len(names) + 1 /\ more[Len(names) + 1] = name
    BY AppendShape
<1>2. Len(names) \in Nat
    OBVIOUS
<1> HIDE DEF more
<1>3. CASE Len(names) < PaletteSize
    <2>1. Added(names, name) = [materials |-> more, id |-> Id(Len(names))]
        BY <1>3 DEF Added, more
    <2>2. Id(Len(names)).id = Len(names)
        BY DEF Id
    <2>3. get(more, Len(names)) = Last(more)
        BY <1>1, <1>2 DEF get, Last
    <2>4. AnswerHolds(Id(Len(names)), more)
        BY <2>2, <2>3 DEF AnswerHolds
    <2>5. Added(names, name).materials = more /\ Added(names, name).id = Id(Len(names))
        BY <2>1
    <2> QED  BY <1>1, <1>3, <2>4, <2>5 DEF more
<1>4. CASE ~ (Len(names) < PaletteSize)
    <2>1. Added(names, name) = [materials |-> names, id |-> Overflow]
        BY <1>4 DEF Added
    <2>2. Overflow.error # "none"
        BY DEF Overflow
    <2>3. AnswerHolds(Overflow, names)
        BY <2>2 DEF AnswerHolds
    <2>4. Added(names, name).materials = names /\ Added(names, name).id = Overflow
        BY <2>1
    <2> QED  BY <1>4, <2>3, <2>4
<1> QED  BY <1>3, <1>4

(* A name that is appended counts unless it is blank.                    *)
LEMMA NamedNext ==
    ASSUME NEW names \in Seq(MaterialNames), NEW name \in MaterialNames
    PROVE  /\ Named(names) \in Seq(MaterialNames) /\ Len(Named(names)) <= Len(names)
           /\ name # BlankName => Named(Append(names, name)) = Append(Named(names), name)
           /\ name = BlankName => Named(Append(names, name)) = Named(names)
<1> DEFINE values == MaterialNames \ {BlankName}
<1>1. Named(names) \in Seq(MaterialNames \cap values) /\ Len(Named(names)) <= Len(names)
    BY KeptShape DEF Named
<1>2. MaterialNames \cap values = values /\ Seq(values) \subseteq Seq(MaterialNames)
    OBVIOUS
<1>3. Named(Append(names, name)) =
          IF name \in values THEN Append(Named(names), name) ELSE Named(names)
    BY KeptNext DEF Named
<1> QED  BY <1>1, <1>2, <1>3

(* The mock and the adapter start from the same palette.                 *)
LEMMA PalettesBegin == PalettesInit => PalettesInv
<1> SUFFICES ASSUME PalettesInit PROVE PalettesInv
    OBVIOUS
<1> USE DEF PalettesInit
<1>1. PalettesTypeOK
    BY PaletteAssumption DEF PalettesTypeOK
<1>2. Kept(<< >>, AddCalls) = << >> /\ Named(<< >>) = << >>
    BY KeptNone DEF Named
<1>3. NamesIn(log) = << >>
    BY <1>2 DEF NamesIn
<1>4. before \o NamesIn(log) = << >>
    BY <1>3
<1>5. AsAdded
    BY <1>4, PaletteAssumption DEF AsAdded, FirstOf, Least
<1>6. NamedFirst
    <2>1. << >> \in Seq(MaterialNames)
        OBVIOUS
    <2>2. IsPrefix(<< >>, << >>)
        <3> DEFINE none == << >>
        <3>1. none \in Seq(MaterialNames) /\ Len(none) <= Len(none)
              /\ \A k \in 1..Len(none) : none[k] = none[k]
            BY <2>1
        <3> HIDE DEF none
        <3>2. IsPrefix(none, none)
            BY <3>1, PrefixShape
        <3> QED  BY <3>2 DEF none
    <2> QED  BY <1>2, <2>2 DEF NamedFirst
<1>7. AnswerHolds(answers[1], palette) /\ AnswerHolds(answers[2], mock)
    BY DEF AnswerHolds, Invalid
<1> QED  BY <1>1, <1>5, <1>6, <1>7 DEF PalettesInv

(* A palette takes names until it is full, and none after that.          *)
LEMMA FirstOfShape ==
    ASSUME NEW names \in Seq(MaterialNames), NEW name \in MaterialNames
    PROVE  /\ Len(FirstOf(names)) = Least(PaletteSize, Len(names))
           /\ Len(FirstOf(names)) < PaletteSize =>
                 FirstOf(names) = names /\ FirstOf(Append(names, name)) = Append(names, name)
           /\ ~ (Len(FirstOf(names)) < PaletteSize) =>
                 FirstOf(Append(names, name)) = FirstOf(names)
<1> DEFINE m == Least(PaletteSize, Len(names))
           more == Append(names, name)
<1>1. more \in Seq(MaterialNames) /\ Len(more) = Len(names) + 1
    BY AppendShape
<1>2. Len(names) \in Nat /\ PaletteSize \in Nat
    BY PaletteAssumption
<1>3. m \in 0..Len(names) /\ m <= PaletteSize
    BY <1>2 DEF Least
<1>4. FirstOf(names) = SubSeq(names, 1, m)
    BY DEF FirstOf
<1> HIDE DEF m
<1>5. Len(FirstOf(names)) = m
    BY <1>3, <1>4, SubSeqFirst
<1>6. CASE m < PaletteSize
    <2>1. m = Len(names) /\ Least(PaletteSize, Len(names) + 1) = Len(names) + 1
        BY <1>2, <1>6 DEF Least, m
    <2>2. FirstOf(more) = SubSeq(more, 1, Len(more))
        BY <1>1, <2>1 DEF FirstOf
    <2> HIDE DEF more
    <2>3. FirstOf(more) = more
        BY <1>1, <2>2, SubSeqAll
    <2>4. FirstOf(names) = names
        BY <1>4, <2>1, SubSeqAll
    <2> QED  BY <1>5, <1>6, <2>3, <2>4 DEF m, more
<1>7. CASE ~ (m < PaletteSize)
    <2>1. m = PaletteSize /\ Least(PaletteSize, Len(names) + 1) = PaletteSize
        BY <1>2, <1>3, <1>7 DEF Least, m
    <2>2. FirstOf(more) = SubSeq(more, 1, m)
        BY <1>1, <2>1 DEF FirstOf
    <2>3. FirstOf(more) = SubSeq(names, 1, m)
        BY <1>3, <2>2, SubSeqAppend
    <2> HIDE DEF more
    <2> QED  BY <1>4, <1>5, <1>7, <2>3 DEF m, more
<1> QED  BY <1>6, <1>7

(* The mock takes every name while there are identifiers, the adapter the *)
(* ones that are not blank, so it never has more than the mock.          *)
LEMMA AddStep ==
    ASSUME PalettesInv, NEW name \in MaterialNames, add(name)
    PROVE  PalettesInv'
<1> USE DEF PalettesInv, PalettesTypeOK
<1> DEFINE c == [call |-> "add", name |-> name]
           n == Len(mock)
           all == before \o NamesIn(log)
<1>1. /\ palette' = in_memory_add(name).materials
      /\ mock' = Added(mock, name).materials
      /\ log' = Append(log, c) /\ before' = before
      /\ answers' = <<in_memory_add(name).id, Added(mock, name).id>>
    BY DEF add, mock_add
<1>2. c \in LogEntries /\ c \in AddCalls /\ c.name = name
    BY DEF LogEntries, AddCalls
<1> HIDE DEF c
<1>3. /\ in_memory_add(name).materials =
             IF name = BlankName THEN palette ELSE Added(palette, name).materials
      /\ in_memory_add(name).id = IF name = BlankName THEN Invalid ELSE Added(palette, name).id
    BY DEF in_memory_add
<1>4. n \in Nat /\ Len(palette) \in Nat /\ PaletteSize \in Nat
    BY PaletteAssumption
<1>5. log' \in Seq(LogEntries)
    BY <1>1, <1>2, AppendShape
<1>6. mock' \in Seq(MaterialNames)
    BY <1>1, AddedShape
<1>7. palette' \in Seq(MaterialNames)
    BY <1>1, <1>3, AddedShape
<1>8. all \in Seq(MaterialNames) /\ before' \o NamesIn(log') = Append(all, name)
    <2>1. NamesIn(log) \in Seq(MaterialNames) /\ NamesIn(log') = Append(NamesIn(log), name)
        BY <1>1, <1>2, NamesInNext
    <2> QED  BY <1>1, <2>1, ConcatAppend
<1>9. mock = FirstOf(all)
    BY DEF AsAdded
<1> HIDE DEF all
<1>10. mock' = FirstOf(Append(all, name)) /\ Len(mock') <= PaletteSize
    <2>1. CASE n < PaletteSize
        <3>1. mock' = Append(mock, name) /\ Len(mock') = n + 1
            BY <1>1, <2>1, AddedShape
        <3>2. mock = all /\ FirstOf(Append(all, name)) = Append(all, name)
            BY <1>8, <1>9, <2>1, FirstOfShape
        <3> QED  BY <1>4, <2>1, <3>1, <3>2
    <2>2. CASE ~ (n < PaletteSize)
        <3>1. mock' = mock
            BY <1>1, <2>2, AddedShape
        <3>2. FirstOf(Append(all, name)) = FirstOf(all)
            BY <1>8, <1>9, <2>2, FirstOfShape
        <3> QED  BY <1>9, <3>1, <3>2
    <2> QED  BY <2>1, <2>2
<1>11. NamedFirst'
    <2>1. CASE n < PaletteSize
        <3>1. mock' = Append(mock, name)
            BY <1>1, <2>1, AddedShape
        <3>2. palette = Named(mock) /\ Len(palette) <= n
            BY <2>1, NamedNext DEF NamedFirst
        <3>3. Len(palette) < PaletteSize
            BY <1>4, <2>1, <3>2
        <3>4. palette' = Named(mock')
            <4>1. CASE name = BlankName
                BY <1>1, <1>3, <3>1, <3>2, <4>1, NamedNext
            <4>2. CASE name # BlankName
                <5>1. palette' = Append(palette, name)
                    BY <1>1, <1>3, <3>3, <4>2, AddedShape
                <5> QED  BY <3>1, <3>2, <4>2, <5>1, NamedNext
            <4> QED  BY <4>1, <4>2
        <3>5. IsPrefix(palette', palette')
            BY <1>7, PrefixShape
        <3> QED  BY <3>4, <3>5 DEF NamedFirst
    <2>2. CASE ~ (n < PaletteSize)
        <3>1. mock' = mock
            BY <1>1, <2>2, AddedShape
        <3>2. palette' = palette \/ palette' = Append(palette, name)
            BY <1>1, <1>3, AddedShape
        <3>3. Named(mock) \in Seq(MaterialNames)
            BY NamedNext
        <3>4. Len(Named(mock)) <= Len(palette)
              /\ \A k \in 1..Len(Named(mock)) : Named(mock)[k] = palette[k]
            BY <3>3, PrefixShape DEF NamedFirst
        <3>5. Len(palette) <= Len(palette') /\ \A k \in 1..Len(palette) : palette'[k] = palette[k]
            BY <3>2, AppendShape
        <3>6. \A k \in 1..Len(Named(mock)) : k \in 1..Len(palette)
            BY <1>4, <3>4
        <3>7. Len(Named(mock)) <= Len(palette') /\ \A k \in 1..Len(Named(mock)) : Named(mock)[k] = palette'[k]
            BY <1>4, <1>7, <3>3, <3>4, <3>5, <3>6
        <3>8. IsPrefix(Named(mock), palette')
            BY <1>7, <3>3, <3>7, PrefixShape
        <3> QED  BY <2>2, <3>1, <3>8 DEF NamedFirst
    <2> QED  BY <2>1, <2>2
<1>12. AnswerHolds(answers'[2], mock')
    BY <1>1, AddedShape
<1>13. AnswerHolds(answers'[1], palette')
    <2>1. Invalid.error # "none"
        BY DEF Invalid
    <2>2. AnswerHolds(Invalid, palette)
        BY <2>1 DEF AnswerHolds
    <2> QED  BY <1>1, <1>3, <2>2, AddedShape
<1>14. AsAdded'
    BY <1>8, <1>10 DEF AsAdded
<1>15. before' \in Seq(MaterialNames)
    BY <1>1
<1> QED  BY <1>5, <1>6, <1>7, <1>10, <1>11, <1>12, <1>13, <1>14, <1>15

(* Every call keeps the mock at what its log tells and the adapter at the*)
(* names among them.                                                     *)
LEMMA PalettesStep == PalettesInv /\ [PalettesNext]_palettes => PalettesInv'
<1> SUFFICES ASSUME PalettesInv, [PalettesNext]_palettes PROVE PalettesInv'
    OBVIOUS
<1> USE DEF PalettesInv, PalettesTypeOK
<1>1. ASSUME NEW id \in 0..PaletteSize, record_get(id)
      PROVE  PalettesInv'
    <2> DEFINE c == [call |-> "get", name |-> get(mock, id)]
    <2>1. get(mock, id) \in MaterialNames \cup {"NotFound"}
        <3>1. id \in Nat
            BY PaletteAssumption
        <3> QED  BY <3>1 DEF get
    <2>2. c \in LogEntries /\ c \notin AddCalls
        BY <2>1 DEF LogEntries, AddCalls
    <2>3. log' = Append(log, c) /\ UNCHANGED <<palette, mock, before, answers>>
        BY <1>1 DEF record_get
    <2> HIDE DEF c
    <2>4. log' \in Seq(LogEntries) /\ NamesIn(log') = NamesIn(log)
        BY <2>2, <2>3, AppendShape, NamesInNext
    <2> QED  BY <2>3, <2>4 DEF AsAdded, NamedFirst
<1>2. ASSUME reset_log
      PROVE  PalettesInv'
    <2>1. log' = << >> /\ before' = mock /\ UNCHANGED <<palette, mock, answers>>
        BY <1>2 DEF reset_log
    <2>2. Kept(<< >>, AddCalls) = << >>
        BY KeptNone
    <2>3. NamesIn(log') = << >>
        BY <2>1, <2>2 DEF NamesIn
    <2>4. mock \o << >> = mock
        OBVIOUS
    <2>5. FirstOf(mock) = mock
        <3>1. Least(PaletteSize, Len(mock)) = Len(mock)
            BY PaletteAssumption DEF Least
        <3> QED  BY <3>1, SubSeqAll DEF FirstOf
    <2>6. AsAdded'
        BY <2>1, <2>3, <2>4, <2>5 DEF AsAdded
    <2>7. << >> \in Seq(LogEntries)
        OBVIOUS
    <2> QED  BY <2>1, <2>6, <2>7 DEF NamedFirst
<1>3. ASSUME UNCHANGED palettes
      PROVE  PalettesInv'
    BY <1>3 DEF palettes, AsAdded, NamedFirst
<1> QED
    <2> HIDE DEF PalettesInv
    <2> QED  BY <1>1, <1>2, <1>3, AddStep DEF PalettesNext

(* What the run checks of the palettes follows.                          *)
LEMMA PalettesInvReplay ==
    ASSUME PalettesInv
    PROVE  PalettesReplay
<1> USE DEF PalettesInv
<1>1. AddedNames = NamesIn(log)
    BY DEF AddedNames, NamesIn, AddCalls
<1>2. \A k \in {1, 2} : answers[k].error = "none" =>
          get(<<palette, mock>>[k], answers[k].id) = Last(<<palette, mock>>[k])
    BY DEF AnswerHolds
<1> QED  BY <1>1, <1>2 DEF PalettesReplay, AsAdded, FirstOf, NamedFirst

---------------------------------------------------------------------------
Events == Nat \X Nat

(* Before is a strict and total order of the events.                     *)
LEMMA BeforeOrders ==
    /\ \A e \in Events : ~ Before(e, e)
    /\ \A e, f \in Events : e = f \/ Before(e, f) \/ Before(f, e)
    /\ \A e, f \in Events : ~ (Before(e, f) /\ Before(f, e))
    /\ \A e, f, g \in Events : Before(e, f) /\ Before(f, g) => Before(e, g)
BY DEF Before, Events

(* The place of an event among those that arrived, the earlier of two    *)
(* equal ones first.                                                     *)
Under(events, j, k) == Before(events[j], events[k]) \/ (events[j] = events[k] /\ j < k)

RankOf(events, k) == Cardinality({j \in DOMAIN events : Under(events, j, k)})

(* With the order of arrival between equal events, the order is strict   *)
(* and total.                                                            *)
LEMMA UnderOrders ==
    ASSUME NEW events \in Seq(Events)
    PROVE  /\ \A k \in DOMAIN events : ~ Under(events, k, k)
           /\ \A j, k \in DOMAIN events : j = k \/ Under(events, j, k) \/ Under(events, k, j)
           /\ \A i, j, k \in DOMAIN events :
                 Under(events, i, j) /\ Under(events, j, k) => Under(events, i, k)
<1>1. \A k \in DOMAIN events : events[k] \in Events /\ k \in Nat
    BY ElementIn
<1>2. \A j, k \in Nat : j = k \/ j < k \/ k < j
    OBVIOUS
<1>3. \A i, j, k \in Nat : ~ (i < i) /\ (i < j /\ j < k => i < k)
    OBVIOUS
<1>4. \A k \in DOMAIN events : ~ Under(events, k, k)
    BY <1>1, <1>3, BeforeOrders DEF Under
<1>5. \A j, k \in DOMAIN events : j = k \/ Under(events, j, k) \/ Under(events, k, j)
    BY <1>1, <1>2, BeforeOrders DEF Under
<1>6. \A i, j, k \in DOMAIN events :
          Under(events, i, j) /\ Under(events, j, k) => Under(events, i, k)
    BY <1>1, <1>3, BeforeOrders DEF Under
<1> QED  BY <1>4, <1>5, <1>6

(* Ranks follow the order, and every number below the length is one.     *)
LEMMA RanksDiffer ==
    ASSUME NEW events \in Seq(Events)
    PROVE  /\ \A k \in 1..Len(events) : RankOf(events, k) \in 0..Len(events) - 1
           /\ \A j, k \in 1..Len(events) :
                 Under(events, j, k) => RankOf(events, j) < RankOf(events, k)
           /\ \A place \in 1..Len(events) : \E k \in 1..Len(events) : RankOf(events, k) = place - 1
<1> DEFINE N == Len(events)
           K == 1..N
           R == {p \in K \X K : Under(events, p[1], p[2])}
<1>1. N \in Nat /\ DOMAIN events = K
    OBVIOUS
<1>2. \A j, k \in K : <<j, k>> \in R <=> Under(events, j, k)
    OBVIOUS
<1> HIDE DEF R
<1>3. Orders(R, N)
    BY <1>1, <1>2, UnderOrders DEF Orders
<1>4. \A k \in K : RankOf(events, k) = Cardinality(Beneath(R, N, k))
    <2>1. \A k \in K : {j \in K : Under(events, j, k)} = Beneath(R, N, k)
        BY <1>2 DEF Beneath
    <2> QED  BY <1>1, <2>1 DEF RankOf
<1> HIDE DEF N
<1>5. /\ \A k \in 1..N : Cardinality(Beneath(R, N, k)) \in 0..N - 1
      /\ \A j, k \in 1..N :
            <<j, k>> \in R => Cardinality(Beneath(R, N, j)) < Cardinality(Beneath(R, N, k))
      /\ \A place \in 1..N : \E k \in 1..N : Cardinality(Beneath(R, N, k)) = place - 1
    BY <1>1, <1>3, Ranks
<1>6. /\ \A k \in K : RankOf(events, k) \in 0..N - 1
      /\ \A j, k \in K : Under(events, j, k) => RankOf(events, j) < RankOf(events, k)
      /\ \A place \in K : \E k \in K : RankOf(events, k) = place - 1
    BY <1>2, <1>4, <1>5
<1> QED  BY <1>6 DEF N

Rising(s) == \A j, k \in 1..Len(s) : j < k => Before(s[j], s[k])

(* Sorting changes the order alone, and no event comes after a later one. *)
LEMMA SortedShape ==
    ASSUME NEW events \in Seq(Events)
    PROVE  /\ sorted(events) \in Seq(Events) /\ ToSet(sorted(events)) = ToSet(events)
           /\ \A p, q \in 1..Len(sorted(events)) :
                 p < q => ~ Before(sorted(events)[q], sorted(events)[p])
<1> DEFINE N == Len(events)
           rank(k) == RankOf(events, k)
           at(place) == CHOOSE k \in DOMAIN events : rank(k) = place - 1
           s == sorted(events)
<1>1. N \in Nat /\ DOMAIN events = 1..N
    OBVIOUS
<1>2. s = [place \in 1..N |-> events[at(place)]]
    BY <1>1 DEF sorted, RankOf, Under
<1>3. \A place \in 1..N : at(place) \in 1..N /\ rank(at(place)) = place - 1
    BY <1>1, RanksDiffer
<1>4. \A k \in 1..N : rank(k) \in 0..N - 1
    BY RanksDiffer
<1>5. \A j, k \in 1..N : Under(events, j, k) => rank(j) < rank(k)
    BY RanksDiffer
<1>6. \A j, k \in 1..N : j = k \/ Under(events, j, k) \/ Under(events, k, j)
    BY <1>1, UnderOrders
<1>7. \A k \in 1..N : events[k] \in Events
    BY <1>1, ElementIn
<1> HIDE DEF at, rank, s, N
<1>8. s \in Seq(Events) /\ Len(s) = N /\ \A place \in 1..N : s[place] = events[at(place)]
    <2>1. \A place \in 1..N : events[at(place)] \in Events
        BY <1>3, <1>7
    <2> QED  BY <1>1, <1>2, <2>1
<1>9. \A k \in 1..N : rank(k) + 1 \in 1..N /\ at(rank(k) + 1) = k
    <2> SUFFICES ASSUME NEW k \in 1..N
                 PROVE  rank(k) + 1 \in 1..N /\ at(rank(k) + 1) = k
        OBVIOUS
    <2>1. rank(k) + 1 \in 1..N /\ (rank(k) + 1) - 1 = rank(k)
        BY <1>1, <1>4
    <2> DEFINE l == at(rank(k) + 1)
    <2>2. l \in 1..N /\ rank(l) = rank(k)
        BY <1>3, <2>1
    <2> HIDE DEF l
    <2>3. rank(l) \in Nat /\ rank(k) \in Nat
        BY <1>1, <1>4, <2>2
    <2>4. l = k
        BY <1>5, <1>6, <2>2, <2>3
    <2> QED  BY <2>1, <2>4 DEF l
<1>10. ToSet(s) = ToSet(events)
    <2>1. DOMAIN s = 1..N
        BY <1>2
    <2>2. \A k \in 1..N : events[k] = s[rank(k) + 1] /\ rank(k) + 1 \in 1..N
        BY <1>8, <1>9
    <2> QED  BY <1>1, <1>3, <1>8, <2>1, <2>2 DEF ToSet
<1>11. ASSUME NEW p \in 1..N, NEW q \in 1..N, p < q
       PROVE  ~ Before(s[q], s[p])
    <2> DEFINE j == at(p)
               k == at(q)
    <2>1. j \in 1..N /\ k \in 1..N /\ rank(j) = p - 1 /\ rank(k) = q - 1
        BY <1>3
    <2>2. s[p] = events[j] /\ s[q] = events[k]
        BY <1>8
    <2> HIDE DEF j, k
    <2>3. ~ (rank(k) < rank(j))
        BY <1>1, <1>11, <2>1
    <2>4. ~ Under(events, k, j)
        BY <1>5, <2>1, <2>3
    <2> QED  BY <2>2, <2>4 DEF Under
<1> QED  BY <1>8, <1>10, <1>11 DEF s

(* The events that are left, one by one.                                 *)
Undoubled(f, s) ==
    /\ f[0] = << >>
    /\ \A n \in 1..Len(s) :
          f[n] = IF f[n - 1] # << >> /\ Last(f[n - 1]) = s[n] THEN f[n - 1]
                 ELSE Append(f[n - 1], s[n])

(* dedup is what its recursion says, at every step.                      *)
LEMMA DedupSteps ==
    ASSUME NEW s \in Seq(Events)
    PROVE  \E f \in [0..Len(s) -> Seq(Events)] : Undoubled(f, s) /\ dedup(s) = f[Len(s)]
<1> DEFINE N == Len(s)
           Y == Seq(Events)
           step(n, x) == IF x # << >> /\ Last(x) = s[n] THEN x ELSE Append(x, s[n])
           next == [n \in 1..N |-> [x \in Y |-> step(n, x)]]
           body(h) == [n \in 0..N |-> IF n = 0 THEN << >> ELSE step(n, h[n - 1])]
<1>1. N \in Nat /\ << >> \in Y
    OBVIOUS
<1>2. \A n \in 1..N : s[n] \in Events
    OBVIOUS
<1>3. ASSUME NEW n \in 1..N, NEW x \in Y
      PROVE  step(n, x) \in Y
    BY <1>2, AppendShape
<1>4. next \in [1..N -> [Y -> Y]]
    <2> HIDE DEF step, Y
    <2> QED  BY <1>3
<1>5. PICK f \in [0..N -> Y] : Follows(f, N, << >>, next)
    <2> HIDE DEF next, Y, N
    <2> QED  BY <1>1, <1>4, Recursion
<1>6. f[0] = << >> /\ \A n \in 1..N : f[n] = step(n, f[n - 1])
    <2>1. \A n \in 1..N : n - 1 \in 0..N /\ f[n - 1] \in Y
        <3> HIDE DEF N, Y
        <3> QED  BY <1>1, <1>5
    <2>2. \A n \in 1..N : next[n][f[n - 1]] = step(n, f[n - 1])
        <3> HIDE DEF step, Y
        <3> QED  BY <2>1
    <2> HIDE DEF next, step, Y, N
    <2> QED  BY <1>5, <2>2 DEF Follows
<1>7. f = body(f)
    <2>1. \A n \in 0..N : n = 0 \/ n \in 1..N
        BY <1>1
    <2>2. \A n \in 0..N : f[n] = IF n = 0 THEN << >> ELSE step(n, f[n - 1])
        <3> HIDE DEF step
        <3> QED  BY <1>6, <2>1
    <2> HIDE DEF step, Y
    <2> QED  BY <1>5, <2>2
<1> DEFINE g == CHOOSE h : h = body(h)
<1>8. g = body(g)
    <2> HIDE DEF body
    <2> QED  BY <1>7
<1>9. dedup(s) = g[N]
    BY DEF dedup
<1>10. \A n \in 0..N : g[n] = f[n]
    <2> DEFINE S == {n \in 0..N : g[n] = f[n]}
    <2>0. g[0] = << >> /\ \A n \in 1..N : g[n] = step(n, g[n - 1])
        <3>1. \A h : body(h)[0] = << >>
            BY <1>1
        <3>2. \A h : \A n \in 1..N : body(h)[n] = step(n, h[n - 1])
            <4> HIDE DEF step
            <4>1. \A n \in 1..N : n \in 0..N /\ n # 0
                BY <1>1
            <4> QED  BY <4>1
        <3> HIDE DEF g, body, step
        <3> QED  BY <1>8, <3>1, <3>2
    <2> HIDE DEF g, body
    <2>1. 0 \in S
        BY <1>1, <1>6, <2>0
    <2>2. ASSUME NEW n \in 0..N - 1, n \in S
          PROVE  n + 1 \in S
        <3>1. n + 1 \in 1..N /\ n + 1 \in 0..N /\ (n + 1) - 1 = n
            BY <1>1
        <3>2. g[n + 1] = step(n + 1, g[n]) /\ f[n + 1] = step(n + 1, f[n])
            <4> HIDE DEF step
            <4> QED  BY <3>1, <1>6, <2>0
        <3> HIDE DEF step
        <3> QED  BY <2>2, <3>1, <3>2
    <2>3. 0..N \subseteq S
        <3> HIDE DEF S, N
        <3> QED  BY <1>1, <2>1, <2>2, UpTo
    <2> QED  BY <2>3
<1>11. N \in 0..N
    BY <1>1
<1>12. Undoubled(f, s) /\ dedup(s) = f[Len(s)]
    <2> HIDE DEF g, body, next
    <2> QED  BY <1>6, <1>9, <1>10, <1>11 DEF Undoubled
<1> QED  BY <1>5, <1>12

(* A rising sequence stays so when a later event is appended.            *)
LEMMA AppendRising ==
    ASSUME NEW d \in Seq(Events), NEW e \in Events, Rising(d),
           d # << >> => Before(Last(d), e)
    PROVE  /\ Append(d, e) \in Seq(Events) /\ Rising(Append(d, e))
           /\ ToSet(Append(d, e)) = ToSet(d) \cup {e}
           /\ Append(d, e) # << >> /\ Last(Append(d, e)) = e
<1> DEFINE m == Len(d)
           t == Append(d, e)
<1>1. /\ t \in Seq(Events) /\ Len(t) = m + 1 /\ t[m + 1] = e /\ m \in Nat
      /\ \A k \in 1..m : t[k] = d[k]
    BY AppendShape
<1>2. DOMAIN d = 1..m /\ DOMAIN t = 1..m + 1
    BY <1>1
<1>3. \A k \in 1..m : d[k] \in Events
    BY <1>2, ElementIn
<1>4. \A k \in 1..m : Before(d[k], e)
    <2> SUFFICES ASSUME NEW k \in 1..m PROVE Before(d[k], e)
        OBVIOUS
    <2>1. d # << >> /\ m \in 1..m
        BY <1>1
    <2>2. Before(d[m], e)
        BY <2>1 DEF Last
    <2>3. k = m \/ k < m
        BY <1>1
    <2>4. k < m => Before(d[k], d[m])
        BY <2>1 DEF Rising
    <2> QED  BY <1>3, <2>1, <2>2, <2>3, <2>4, BeforeOrders
<1> HIDE DEF t, m
<1>5. \A k \in 1..m + 1 : k \in 1..m \/ k = m + 1
    BY <1>1
<1>6. ASSUME NEW j \in 1..m + 1, NEW k \in 1..m + 1, j < k
      PROVE  Before(t[j], t[k])
    <2>1. j \in 1..m
        BY <1>1, <1>6
    <2>2. CASE k \in 1..m
        BY <1>1, <1>6, <2>1, <2>2 DEF Rising, m
    <2>3. CASE k = m + 1
        BY <1>1, <1>4, <2>1, <2>3
    <2> QED  BY <1>5, <2>2, <2>3
<1>7. ToSet(t) = ToSet(d) \cup {e}
    <2>1. m + 1 \in 1..m + 1 /\ \A k \in 1..m : k \in 1..m + 1
        BY <1>1
    <2> QED  BY <1>1, <1>2, <1>5, <2>1 DEF ToSet
<1>8. Last(t) = e /\ t # << >>
    BY <1>1 DEF Last
<1> QED  BY <1>1, <1>6, <1>7, <1>8 DEF Rising, t

(* Of equal neighbours one is left: a sequence in order becomes one in   *)
(* strict order.                                                         *)
LEMMA DedupShape ==
    ASSUME NEW s \in Seq(Events),
           \A p, q \in 1..Len(s) : p < q => ~ Before(s[q], s[p])
    PROVE  dedup(s) \in Seq(Events) /\ ToSet(dedup(s)) = ToSet(s) /\ Rising(dedup(s))
<1> DEFINE N == Len(s)
           seen(n) == {s[k] : k \in 1..n}
<1>1. PICK f \in [0..N -> Seq(Events)] : Undoubled(f, s) /\ dedup(s) = f[N]
    BY DedupSteps
<1>2. N \in Nat /\ DOMAIN s = 1..N /\ \A k \in 1..N : s[k] \in Events
    BY ElementIn
<1> DEFINE holds(n) ==
        /\ Rising(f[n]) /\ ToSet(f[n]) = seen(n)
        /\ n > 0 => f[n] # << >> /\ Last(f[n]) = s[n]
           S == {n \in 0..N : holds(n)}
<1>3. 0 \in S
    <2>1. f[0] = << >>
        BY <1>1 DEF Undoubled
    <2>2. ToSet(<< >>) = {} /\ seen(0) = {} /\ Rising(<< >>)
        BY DEF ToSet, Rising
    <2> QED  BY <1>2, <2>1, <2>2
<1>4. ASSUME NEW n \in 0..N - 1, n \in S
      PROVE  n + 1 \in S
    <2>1. n + 1 \in 1..N /\ n + 1 \in 0..N /\ (n + 1) - 1 = n /\ n \in 0..N /\ n + 1 > 0
        BY <1>2
    <2>2. f[n] \in Seq(Events) /\ s[n + 1] \in Events
        BY <1>1, <1>2, <2>1
    <2>3. f[n + 1] = IF f[n] # << >> /\ Last(f[n]) = s[n + 1] THEN f[n]
                     ELSE Append(f[n], s[n + 1])
        BY <1>1, <2>1 DEF Undoubled
    <2>4. holds(n)
        BY <1>4
    <2>5. seen(n + 1) = seen(n) \cup {s[n + 1]}
        <3>1. \A k \in 1..n + 1 : k \in 1..n \/ k = n + 1
            BY <2>1
        <3>2. n + 1 \in 1..n + 1 /\ \A k \in 1..n : k \in 1..n + 1
            BY <2>1
        <3> QED  BY <3>1, <3>2
    <2>6. CASE f[n] # << >> /\ Last(f[n]) = s[n + 1]
        <3>1. s[n + 1] \in ToSet(f[n])
            <4>1. Len(f[n]) \in DOMAIN f[n]
                BY <2>2, <2>6
            <4> QED  BY <2>6, <4>1 DEF ToSet, Last
        <3>2. f[n + 1] = f[n]
            BY <2>3, <2>6
        <3>3. ToSet(f[n]) = seen(n)
            BY <2>4
        <3>4. seen(n + 1) = seen(n)
            BY <2>5, <3>1, <3>3
        <3>5. holds(n + 1)
            BY <2>4, <2>6, <3>2, <3>3, <3>4
        <3> QED  BY <2>1, <3>5
    <2>7. CASE ~ (f[n] # << >> /\ Last(f[n]) = s[n + 1])
        <3>1. ASSUME f[n] # << >>
              PROVE  Before(Last(f[n]), s[n + 1])
            <4>1. n > 0
                <5>1. CASE n = 0
                    BY <1>1, <3>1, <5>1 DEF Undoubled
                <5> QED  BY <2>1, <5>1
            <4>2. Last(f[n]) = s[n] /\ n \in 1..N
                BY <1>2, <2>1, <2>4, <4>1
            <4>3. ~ Before(s[n + 1], s[n]) /\ s[n] # s[n + 1]
                BY <2>1, <2>7, <3>1, <4>2
            <4> QED  BY <1>2, <2>2, <4>2, <4>3, BeforeOrders
        <3>2. f[n + 1] = Append(f[n], s[n + 1])
            BY <2>3, <2>7
        <3>3. Rising(f[n]) /\ ToSet(f[n]) = seen(n)
            BY <2>4
        <3>4. /\ Rising(f[n + 1]) /\ ToSet(f[n + 1]) = seen(n) \cup {s[n + 1]}
              /\ f[n + 1] # << >> /\ Last(f[n + 1]) = s[n + 1]
            BY <2>2, <3>1, <3>2, <3>3, AppendRising
        <3> QED  BY <2>1, <2>5, <3>4
    <2> QED  BY <2>6, <2>7
<1>5. N \in S
    <2> HIDE DEF S
    <2>1. 0..N \subseteq S
        BY <1>2, <1>3, <1>4, UpTo
    <2> QED  BY <1>2, <2>1
<1>6. Rising(f[N]) /\ ToSet(f[N]) = seen(N)
    BY <1>5
<1>7. seen(N) = ToSet(s)
    BY <1>2 DEF ToSet
<1>8. f[N] \in Seq(Events)
    BY <1>1, <1>2
<1> QED  BY <1>1, <1>6, <1>7, <1>8

(* A set of events can be told in one strict order only.                 *)
LEMMA RisingPrefix ==
    ASSUME NEW s \in Seq(Events), NEW t \in Seq(Events), Rising(s), Rising(t), ToSet(s) = ToSet(t)
    PROVE  Len(s) <= Len(t) /\ \A k \in 1..Len(s) : s[k] = t[k]
<1> DEFINE N == Len(s)
           M == Len(t)
           S == {n \in 0..N : n <= M /\ \A k \in 1..n : s[k] = t[k]}
<1>1. /\ N \in Nat /\ DOMAIN s = 1..N /\ \A k \in 1..N : s[k] \in Events
      /\ M \in Nat /\ DOMAIN t = 1..M /\ \A k \in 1..M : t[k] \in Events
    BY ElementIn
<1>2. /\ \A k \in 1..N : \E l \in 1..M : s[k] = t[l]
      /\ \A k \in 1..M : \E l \in 1..N : t[k] = s[l]
    BY <1>1 DEF ToSet
<1>3. /\ \A j, k \in 1..N : j < k => Before(s[j], s[k])
      /\ \A j, k \in 1..M : j < k => Before(t[j], t[k])
    BY DEF Rising
<1>4. /\ \A j, k \in 1..N : s[j] = s[k] => j = k
      /\ \A j, k \in 1..M : t[j] = t[k] => j = k
    <2>1. \A j, k \in Nat : j = k \/ j < k \/ k < j
        OBVIOUS
    <2>2. 1..N \subseteq Nat /\ 1..M \subseteq Nat
        OBVIOUS
    <2> QED  BY <1>1, <1>3, <2>1, <2>2, BeforeOrders
<1> HIDE DEF N, M
<1>5. 0 \in S
    BY <1>1
<1>6. ASSUME NEW n \in 0..N - 1, n \in S
      PROVE  n + 1 \in S
    <2>1. n + 1 \in 1..N /\ n + 1 \in 0..N /\ n <= M /\ n \in Nat /\ \A k \in 1..n : s[k] = t[k]
        BY <1>1, <1>6
    <2>2. PICK m \in 1..M : s[n + 1] = t[m]
        BY <1>2, <2>1
    <2>3. m > n
        <3>1. CASE m \in 1..n
            <4>1. m \in 1..N /\ s[m] = s[n + 1]
                BY <1>1, <2>1, <2>2, <3>1
            <4>2. m = n + 1
                BY <1>4, <2>1, <4>1
            <4> QED  BY <2>1, <3>1, <4>2
        <3>2. CASE m \notin 1..n
            BY <1>1, <2>1, <3>2
        <3> QED  BY <3>1, <3>2
    <2>4. n + 1 \in 1..M /\ n + 1 <= m
        BY <1>1, <2>1, <2>3
    <2>5. PICK l \in 1..N : t[n + 1] = s[l]
        BY <1>2, <2>4
    <2>6. l > n
        <3>1. CASE l \in 1..n
            <4>1. l \in 1..M /\ t[l] = t[n + 1]
                BY <1>1, <2>1, <2>5, <3>1
            <4>2. l = n + 1
                BY <1>4, <2>4, <4>1
            <4> QED  BY <2>1, <3>1, <4>2
        <3>2. CASE l \notin 1..n
            BY <1>1, <2>1, <3>2
        <3> QED  BY <3>1, <3>2
    <2>7. s[n + 1] = t[n + 1]
        <3>1. CASE m = n + 1
            BY <2>2, <3>1
        <3>2. CASE l = n + 1
            BY <2>5, <3>2
        <3>3. CASE m # n + 1 /\ l # n + 1
            <4>1. n + 1 < m /\ n + 1 < l
                BY <1>1, <2>1, <2>3, <2>6, <3>3
            <4>2. Before(t[n + 1], t[m]) /\ Before(s[n + 1], s[l])
                BY <1>3, <2>1, <2>4, <4>1
            <4>3. s[n + 1] \in Events /\ t[n + 1] \in Events
                BY <1>1, <2>1, <2>4
            <4>4. Before(t[n + 1], s[n + 1]) /\ Before(s[n + 1], t[n + 1])
                BY <2>2, <2>5, <4>2
            <4> QED  BY <4>3, <4>4, BeforeOrders
        <3> QED  BY <3>1, <3>2, <3>3
    <2>8. \A k \in 1..n + 1 : k \in 1..n \/ k = n + 1
        BY <2>1
    <2>9. n + 1 <= M
        BY <1>1, <2>4
    <2> QED  BY <2>1, <2>7, <2>8, <2>9
<1>7. N \in S
    <2> HIDE DEF S
    <2>1. 0..N \subseteq S
        BY <1>1, <1>5, <1>6, UpTo
    <2> QED  BY <1>1, <2>1
<1> QED  BY <1>7 DEF N, M

(* Two rising sequences of the same events are equal.                    *)
LEMMA RisingUnique ==
    ASSUME NEW s \in Seq(Events), NEW t \in Seq(Events), Rising(s), Rising(t), ToSet(s) = ToSet(t)
    PROVE  s = t
<1>1. Len(s) <= Len(t) /\ \A k \in 1..Len(s) : s[k] = t[k]
    BY RisingPrefix
<1>2. Len(t) <= Len(s)
    BY RisingPrefix
<1>3. Len(s) = Len(t)
    BY <1>1, <1>2
<1> QED  BY <1>1, <1>3

(* A batch rises, and holds the events that arrived.                     *)
LEMMA BatchShape ==
    ASSUME NEW events \in Seq(Events)
    PROVE  /\ sort_and_dedup(events) \in Seq(Events) /\ Rising(sort_and_dedup(events))
           /\ ToSet(sort_and_dedup(events)) = ToSet(events)
BY SortedShape, DedupShape DEF sort_and_dedup

ArrivalInv == arrived \in Seq(Events)

(* The fixtures are sequences of events.                                 *)
LEMMA ArrivalBegin == ArrivalInit => ArrivalInv
<1>1. << >> \in Seq(Events)
    OBVIOUS
<1>2. \A j, k \in Nat : <<j, k>> \in Events
    BY DEF Events
<1>3. sample_sequence \in Seq(Events)
    BY <1>2 DEF sample_sequence
<1>4. sample_with_ties \in Seq(Events)
    BY <1>2 DEF sample_with_ties
<1>5. sample_lod_transition \in Seq(Events)
    BY <1>2 DEF sample_lod_transition, LOD_LOWER_CHUNK, LOD_UPPER_CHUNK
<1> QED  BY <1>1, <1>3, <1>4, <1>5 DEF ArrivalInit, ArrivalInv

(* What arrives is an event.                                             *)
LEMMA ArrivalStep == ArrivalInv /\ [ArrivalNext]_arrived => ArrivalInv'
<1>1. Arrivals \subseteq Events
    BY ArrivalAssumption DEF Events
<1> QED  BY <1>1, AppendShape DEF ArrivalInv, ArrivalNext, arrive

(* A batch holds what arrived, in order, and is the same when the event  *)
(* that came last comes first.                                           *)
LEMMA BatchesFollow ==
    ASSUME ArrivalInv
    PROVE  BatchesInOrder
<1> DEFINE batch == sort_and_dedup(arrived)
           n == Len(arrived)
           turned == <<Last(arrived)>> \o Front(arrived)
<1>1. arrived \in Seq(Events) /\ n \in Nat /\ DOMAIN arrived = 1..n
    BY DEF ArrivalInv
<1>2. batch \in Seq(Events) /\ Rising(batch) /\ ToSet(batch) = ToSet(arrived)
    BY <1>1, BatchShape
<1>3. ASSUME NEW j \in DOMAIN batch, NEW k \in DOMAIN batch
      PROVE  j < k <=> Before(batch[j], batch[k])
    <2> HIDE DEF batch
    <2>1. j \in 1..Len(batch) /\ k \in 1..Len(batch) /\ j \in Nat /\ k \in Nat
        BY <1>2
    <2>2. batch[j] \in Events /\ batch[k] \in Events
        BY <1>2, ElementIn
    <2>3. (j < k => Before(batch[j], batch[k])) /\ (k < j => Before(batch[k], batch[j]))
        BY <1>2, <2>1 DEF Rising
    <2>4. j = k \/ j < k \/ k < j
        BY <2>1
    <2>5. ~ (j < j)
        BY <2>1
    <2> QED  BY <2>2, <2>3, <2>4, <2>5, BeforeOrders
<1>4. ASSUME arrived # << >>
      PROVE  sort_and_dedup(turned) = batch
    <2>1. n \in 1..n /\ arrived[n] \in Events /\ \A k \in 1..n : arrived[k] \in Events
        <3>1. n # 0
            BY <1>1, <1>4
        <3> QED  BY <1>1, <3>1, ElementIn
    <2>2. /\ Front(arrived) \in Seq(Events) /\ Len(Front(arrived)) = n - 1
          /\ \A k \in 1..n - 1 : Front(arrived)[k] = arrived[k]
        <3>1. n - 1 \in 0..Len(arrived)
            BY <1>1, <2>1
        <3> QED  BY <1>1, <3>1, SubSeqFirst DEF Front
    <2>3. /\ turned \in Seq(Events) /\ Len(turned) = n /\ turned[1] = arrived[n]
          /\ \A k \in 1..n - 1 : turned[k + 1] = arrived[k]
        <3> DEFINE front == Front(arrived)
                   e == Last(arrived)
        <3>1. e \in Events /\ e = arrived[n]
            BY <2>1 DEF Last
        <3> HIDE DEF front, e
        <3>2. <<e>> \o front \in Seq(Events) /\ Len(<<e>> \o front) = 1 + Len(front)
              /\ (<<e>> \o front)[1] = e
              /\ \A k \in 1..Len(front) : (<<e>> \o front)[k + 1] = front[k]
            BY <2>2, <3>1 DEF front
        <3>3. 1 + Len(front) = n /\ Len(front) = n - 1
            <4> HIDE DEF n
            <4> QED  BY <1>1, <2>2 DEF front
        <3>4. \A k \in 1..n - 1 : (<<e>> \o front)[k + 1] = arrived[k]
            <4> HIDE DEF n
            <4> QED  BY <2>2, <3>2, <3>3 DEF front
        <3>5. turned = <<e>> \o front
            BY DEF front, e
        <3> HIDE DEF n, turned
        <3> QED  BY <3>1, <3>2, <3>3, <3>4, <3>5
    <2> HIDE DEF turned, n
    <2>4. ToSet(turned) = ToSet(arrived)
        <3>1. DOMAIN turned = 1..n
            BY <2>3
        <3>2. \A k \in 1..n : k = 1 \/ (k - 1 \in 1..n - 1 /\ (k - 1) + 1 = k)
            BY <1>1
        <3>3. \A k \in 1..n : \E l \in 1..n : turned[k] = arrived[l]
            <4>1. \A k \in 1..n - 1 : k \in 1..n
                BY <1>1
            <4> QED  BY <2>1, <2>3, <3>2, <4>1
        <3>4. \A k \in 1..n : \E l \in 1..n : arrived[k] = turned[l]
            <4>1. \A k \in 1..n : k = n \/ k \in 1..n - 1
                BY <1>1
            <4>2. 1 \in 1..n /\ \A k \in 1..n - 1 : k + 1 \in 1..n
                BY <1>1, <2>1
            <4> QED  BY <2>3, <4>1, <4>2
        <3>5. ToSet(turned) = {turned[k] : k \in 1..n}
            BY <3>1 DEF ToSet
        <3>6. ToSet(arrived) = {arrived[k] : k \in 1..n}
            BY <1>1 DEF ToSet
        <3> QED  BY <3>3, <3>4, <3>5, <3>6
    <2>5. /\ sort_and_dedup(turned) \in Seq(Events) /\ Rising(sort_and_dedup(turned))
          /\ ToSet(sort_and_dedup(turned)) = ToSet(turned)
        BY <2>3, BatchShape
    <2> HIDE DEF batch
    <2> QED  BY <1>2, <2>4, <2>5, RisingUnique
<1> QED  BY <1>2, <1>3, <1>4 DEF BatchesInOrder

---------------------------------------------------------------------------
CounterTypeOK ==
    /\ begun_frames \in Nat /\ chunk_submissions \in Nat /\ ended_frames \in Nat
    /\ minted \in Nat /\ open \in Nat /\ lost \in Nat /\ orphan \in {0, 1} /\ drawn \in Nat

CounterInv == CounterTypeOK /\ FramesAccounted

(* The counts balance before the first frame.                            *)
LEMMA CounterBegin == CounterInit => CounterInv
BY DEF CounterInit, CounterInv, CounterTypeOK, FramesAccounted, frames_in_flight, OpenFrames, NoFrame

(* The counts balance whatever the inner renderer refuses, and through   *)
(* resets.                                                               *)
LEMMA CounterStep == CounterInv /\ [CounterNext]_frames => CounterInv'
<1> SUFFICES ASSUME CounterInv, [CounterNext]_frames PROVE CounterInv'
    OBVIOUS
<1> USE DEF CounterInv, CounterTypeOK, FramesAccounted, frames_in_flight, OpenFrames, NoFrame
<1>1. ASSUME NEW fails \in BOOLEAN, begin_frame(fails)
      PROVE  CounterInv'
    <2>1. CASE fails
        BY <1>1, <2>1 DEF begin_frame
    <2>2. CASE ~ fails
        BY <1>1, <2>2 DEF begin_frame
    <2> QED  BY <2>1, <2>2
<1>2. ASSUME NEW frame \in 1..minted, NEW fails \in BOOLEAN, submit_chunk(frame, fails)
      PROVE  CounterInv'
    BY <1>2 DEF submit_chunk
<1>3. ASSUME NEW frame \in 1..minted, NEW fails \in BOOLEAN, end_frame(frame, fails)
      PROVE  CounterInv'
    BY <1>3 DEF end_frame
<1>4. ASSUME reset_counters
      PROVE  CounterInv'
    BY <1>4 DEF reset_counters
<1>5. ASSUME UNCHANGED frames
      PROVE  CounterInv'
    BY <1>5 DEF frames, counter
<1> QED  BY <1>1, <1>2, <1>3, <1>4, <1>5 DEF CounterNext


---------------------------------------------------------------------------
BooksInv == CounterInv /\ ManagerInv /\ RegistriesInv /\ PalettesInv /\ ArrivalInv

(* What a service reports is what happened, for any number of frames,    *)
(* plugins, materials and events, through refusals, failures and resets  *)
(* (FrameCountingRenderer, PluginManager, the recording registries, the  *)
(* mock palette, sort_and_dedup).                                        *)
THEOREM BooksAlwaysBalance == ServicesSpec => []BooksBalance
<1>1. ServicesInit => BooksInv
    BY CounterBegin, ManagerBegin, RegistriesBegin, PalettesBegin, ArrivalBegin
    DEF ServicesInit, BooksInv
<1>2. BooksInv /\ [ServicesNext]_services => BooksInv'
    <2> SUFFICES ASSUME BooksInv, [ServicesNext]_services PROVE BooksInv'
        OBVIOUS
    <2>1. CASE ServicesNext
        <3> USE <2>1 DEF ServicesNext, Move, bystanders, drawing
        <3>1. [CounterNext]_frames
            OBVIOUS
        <3>2. [ManagerNext]_manager
            OBVIOUS
        <3>3. [RegistriesNext]_registries
            OBVIOUS
        <3>4. [PalettesNext]_palettes
            OBVIOUS
        <3>5. [ArrivalNext]_arrived
            OBVIOUS
        <3> QED  BY <3>1, <3>2, <3>3, <3>4, <3>5, CounterStep, ManagerStep, RegistriesStep,
                    PalettesStep, ArrivalStep DEF BooksInv
    <2>2. CASE UNCHANGED services
        <3>1. /\ UNCHANGED frames /\ UNCHANGED manager /\ UNCHANGED registries
              /\ UNCHANGED palettes /\ UNCHANGED arrived
            BY <2>2 DEF services, bystanders, drawing
        <3> QED  BY <3>1, CounterStep, ManagerStep, RegistriesStep, PalettesStep, ArrivalStep
                 DEF BooksInv
    <2> QED  BY <2>1, <2>2
<1>3. BooksInv => BooksBalance
    BY ManagerAnswers, PalettesInvReplay, BatchesFollow
    DEF BooksInv, BooksBalance, CounterInv, RegistriesInv
<1> QED  BY <1>1, <1>2, <1>3, PTL DEF ServicesSpec

---------------------------------------------------------------------------
(* Numbers that stay below a bound have a greatest.                      *)
LEMMA GreatestBelow ==
    ASSUME NEW n \in Nat, NEW T \in SUBSET (0..n), T # {}
    PROVE  \E i \in T : \A j \in T : j <= i
<1> DEFINE below == {n - j : j \in T}
<1>1. below \in SUBSET Nat /\ below # {}
    <2>1. \A j \in T : n - j \in Nat
        OBVIOUS
    <2>2. \E j \in T : n - j \in below
        OBVIOUS
    <2> QED  BY <2>1, <2>2
<1>2. PICK m \in below : \A k \in below : m <= k
    <2> HIDE DEF below
    <2> QED  BY <1>1, LeastNat
<1>3. PICK i \in T : m = n - i
    BY <1>2
<1>4. \A j \in T : n - i <= n - j
    <2>1. \A k \in below : n - i <= k
        BY <1>2, <1>3
    <2>2. \A j \in T : n - j \in below
        OBVIOUS
    <2> HIDE DEF below
    <2> QED  BY <2>1, <2>2
<1>5. ASSUME NEW j \in T
      PROVE  j <= i
    <2> HIDE DEF below
    <2>1. n - i <= n - j
        BY <1>4
    <2>2. i \in 0..n /\ j \in 0..n
        OBVIOUS
    <2> QED  BY <2>1, <2>2
<1> QED  BY <1>5

StagesInv ==
    /\ cascade_splits \in Seq(Int) /\ cascade_count \in 0..U32Bound - 1
    /\ kernel_size \in Nat /\ kernel_length \in Nat /\ num_layers \in Nat

(* The settings of the shaders at first.                                 *)
LEMMA StagesBegin == StagesInit => StagesInv
<1>1. 4 \in 0..U32Bound - 1 /\ CascadeSplits \subseteq Seq(Int) /\ KernelLengths \subseteq Nat
    BY StagesAssumption
<1> QED  BY <1>1 DEF StagesInit, StagesInv

(* They take any value of their types.                                   *)
LEMMA StagesStep == StagesInv /\ [StagesNext]_stages => StagesInv'
<1>1. 0..MaxCascades \subseteq 0..U32Bound - 1 /\ KernelLengths \subseteq Nat
    BY StagesAssumption
<1> QED  BY <1>1 DEF StagesInv, StagesNext, stages, set_cascades, set_kernel_size, set_num_layers

(* The cascade taken is the last that the distance exceeds, or the last  *)
(* there is.                                                             *)
LEMMA CascadeShape ==
    ASSUME StagesInv, NEW d \in Int
    PROVE  /\ count \in Nat /\ count <= Len(cascade_splits)
           /\ cascade_idx(d) \in Nat /\ (cascade_idx(d) = 0 \/ cascade_idx(d) < count)
           /\ Ascending(cascade_splits) =>
                 \A i \in 1..count : i <= cascade_idx(d) => d > cascade_splits[i]
           /\ \A i \in 1..count : cascade_idx(d) < i =>
                 d <= cascade_splits[i] \/ cascade_idx(d) = count - 1
<1> DEFINE n == count
           s == cascade_splits
           T == {i \in 1..n : d > s[i]}
           chosen == IF T = {} THEN 0 ELSE CHOOSE i \in T : \A j \in T : j <= i
           final == (n - 1) % U32Bound
<1>1. s \in Seq(Int) /\ n \in Nat /\ n <= Len(s) /\ n < U32Bound
    BY StagesAssumption DEF StagesInv, count, Smaller
<1>2. \A i \in 1..n : s[i] \in Int
    <2> HIDE DEF n
    <2> QED  BY <1>1
<1> HIDE DEF n, s
<1>3. chosen \in 0..n /\ (chosen # 0 => d > s[chosen]) /\ \A i \in 1..n : chosen < i => d <= s[i]
    <2>1. CASE T = {}
        <3>1. chosen = 0 /\ \A i \in 1..n : ~ (d > s[i])
            BY <2>1
        <3> HIDE DEF chosen, T
        <3>2. chosen \in 0..n
            BY <1>1, <3>1
        <3>3. \A i \in 1..n : d <= s[i]
            BY <1>2, <3>1
        <3> QED  BY <3>1, <3>2, <3>3
    <2>2. CASE T # {}
        <3>1. T \in SUBSET (0..n)
            BY <1>1
        <3>2. \E i \in T : \A j \in T : j <= i
            <4> HIDE DEF T
            <4> QED  BY <1>1, <2>2, <3>1, GreatestBelow
        <3>3. chosen \in T /\ \A j \in T : j <= chosen
            <4> HIDE DEF T
            <4> QED  BY <2>2, <3>2
        <3> HIDE DEF chosen
        <3>4. chosen \in 1..n /\ d > s[chosen]
            BY <3>3
        <3>5. ASSUME NEW i \in 1..n, chosen < i
              PROVE  d <= s[i]
            <4>1. i \notin T
                <5> HIDE DEF T
                <5>1. i \in Int /\ chosen \in Int
                    BY <3>4
                <5> QED  BY <3>3, <3>5, <5>1
            <4>2. ~ (d > s[i])
                BY <4>1
            <4>3. s[i] \in Int
                BY <1>2
            <4> QED  BY <4>2, <4>3
        <3> HIDE DEF T
        <3>6. chosen \in 0..n /\ chosen # 0
            BY <1>1, <3>4
        <3> QED  BY <3>4, <3>5, <3>6
    <2> QED  BY <2>1, <2>2
<1>4. cascade_idx(d) = Smaller(chosen, final)
    BY DEF cascade_idx, n, s
<1> HIDE DEF T, chosen
<1>5. CASE n = 0
    <2>1. chosen = 0 /\ final \in Nat
        BY <1>1, <1>3, <1>5, StagesAssumption
    <2>2. cascade_idx(d) = 0
        <3> HIDE DEF final
        <3> QED  BY <1>4, <2>1 DEF Smaller
    <2>3. 1..n = {}
        BY <1>5
    <2> QED  BY <1>1, <1>5, <2>2, <2>3 DEF n, s
<1>6. CASE n # 0
    <2>1. final = n - 1
        <3>1. n - 1 \in 0..U32Bound - 1 /\ U32Bound \in Nat /\ U32Bound > 0
            BY <1>1, <1>6, StagesAssumption
        <3> QED  BY <3>1
    <2> HIDE DEF final
    <2>4. ASSUME Ascending(s), NEW i \in 1..n, i <= chosen
          PROVE  d > s[i]
        <3>1. chosen # 0 /\ chosen \in 1..n /\ d > s[chosen] /\ s[chosen] \in Int /\ s[i] \in Int
            BY <1>1, <1>2, <1>3, <2>4
        <3>2. i \in DOMAIN s /\ chosen \in DOMAIN s
            BY <1>1, <3>1
        <3>3. s[i] <= s[chosen]
            <4>1. CASE i = chosen
                BY <3>1, <4>1
            <4>2. CASE i < chosen
                BY <2>4, <3>2, <4>2 DEF Ascending
            <4> QED  BY <1>1, <2>4, <3>1, <4>1, <4>2
        <3> QED  BY <3>1, <3>3
    <2>2. CASE chosen < n
        <3>1. cascade_idx(d) = chosen
            BY <1>1, <1>3, <1>4, <2>1, <2>2 DEF Smaller
        <3>2. cascade_idx(d) \in Nat /\ cascade_idx(d) < n
            BY <1>1, <1>3, <2>2, <3>1
        <3>3. Ascending(s) => \A i \in 1..n : i <= cascade_idx(d) => d > s[i]
            BY <2>4, <3>1
        <3>4. \A i \in 1..n : cascade_idx(d) < i => d <= s[i]
            BY <1>3, <3>1
        <3> QED  BY <1>1, <3>2, <3>3, <3>4 DEF n, s
    <2>3. CASE chosen = n
        <3>1. cascade_idx(d) = n - 1 /\ n - 1 \in Nat /\ n - 1 < n
            BY <1>1, <1>6, <1>4, <2>1, <2>3 DEF Smaller
        <3>2. Ascending(s) => \A i \in 1..n : i <= cascade_idx(d) => d > s[i]
            BY <1>1, <2>3, <2>4, <3>1
        <3> QED  BY <1>1, <3>1, <3>2 DEF n, s
    <2> QED  BY <1>1, <1>3, <2>2, <2>3
<1> QED  BY <1>5, <1>6
(* Cascades are in the order of their splits.                            *)
LEMMA CascadesFollow ==
    ASSUME StagesInv
    PROVE  CascadesInOrder
<1>1. ViewDistances \subseteq Int
    BY StagesAssumption
<1>2. ASSUME NEW d \in ViewDistances, NEW e \in ViewDistances, Ascending(cascade_splits), d <= e
      PROVE  cascade_idx(d) <= cascade_idx(e)
    <2> DEFINE i == cascade_idx(d)
               j == cascade_idx(e)
               n == count
               s == cascade_splits
    <2>1. d \in Int /\ e \in Int
        BY <1>1
    <2>2. /\ n \in Nat /\ n <= Len(s) /\ i \in Nat /\ (i = 0 \/ i < n)
          /\ \A k \in 1..n : k <= i => d > s[k]
        BY <1>2, <2>1, CascadeShape
    <2>3. j \in Nat /\ \A k \in 1..n : j < k => e <= s[k] \/ j = n - 1
        BY <2>1, CascadeShape
    <2>4. s \in Seq(Int)
        BY DEF StagesInv
    <2> HIDE DEF i, j, n, s
    <2>5. ASSUME j < i
          PROVE  FALSE
        <3>1. i \in 1..n /\ i < n /\ i \in DOMAIN s /\ s[i] \in Int
            BY <2>2, <2>3, <2>4, <2>5
        <3>2. d > s[i] /\ j # n - 1
            BY <2>2, <2>3, <2>5, <3>1
        <3>3. e <= s[i]
            BY <2>3, <2>5, <3>1, <3>2
        <3> QED  BY <1>2, <2>1, <3>1, <3>2, <3>3
    <2> QED  BY <2>2, <2>3, <2>5 DEF i, j
<1>3. ASSUME NEW d \in ViewDistances, Ascending(cascade_splits), NEW i \in 1..count,
             d <= cascade_splits[i]
      PROVE  cascade_idx(d) < i
    <2>1. d \in Int /\ cascade_idx(d) \in Nat /\ (i <= cascade_idx(d) => d > cascade_splits[i])
        BY <1>1, <1>3, CascadeShape
    <2>2. cascade_splits[i] \in Int /\ i \in Nat
        <3>1. cascade_splits \in Seq(Int) /\ i \in DOMAIN cascade_splits
            BY <2>1, CascadeShape DEF StagesInv
        <3> QED  BY <3>1
    <2> QED  BY <1>3, <2>1, <2>2
<1>4. \A d \in ViewDistances : cascade_idx(d) = 0 \/ cascade_idx(d) < count
    BY <1>1, CascadeShape
<1> QED  BY <1>2, <1>3, <1>4 DEF CascadesInOrder

Block(x, y) == {x, x + 1} \X {y, y + 1}

Threshold(p) == bayer2x2(p[1], p[2])

(* The four thresholds of a block are the numbers below four.            *)
LEMMA BlockThresholds ==
    ASSUME NEW x \in 0..3, NEW y \in 0..3
    PROVE  /\ \A p \in Block(x, y) : Threshold(p) \in 0..3
           /\ \A p, q \in Block(x, y) : Threshold(p) = Threshold(q) => p = q
           /\ \A k \in 0..3 : \E p \in Block(x, y) : Threshold(p) = k
           /\ bayer2x2(x, y) \in 0..3
<1> DEFINE block == {x, x + 1} \X {y, y + 1}
<1>1. \A p \in block : \E a \in {x, x + 1}, b \in {y, y + 1} : p = <<a, b>> /\ p[1] = a /\ p[2] = b
    OBVIOUS
<1>2. \A a \in {x, x + 1}, b \in {y, y + 1} :
         <<a, b>> \in block /\ <<a, b>>[1] = a /\ <<a, b>>[2] = b
    OBVIOUS
<1>3. /\ x % 2 \in {0, 1} /\ (x + 1) % 2 = 1 - (x % 2)
      /\ y % 2 \in {0, 1} /\ (y + 1) % 2 = 1 - (y % 2)
    OBVIOUS
<1> DEFINE m == <<0, 2, 3, 1>>
           at(a, b) == bayer2x2(a, b)
<1>4. m[1] = 0 /\ m[2] = 2 /\ m[3] = 3 /\ m[4] = 1
    OBVIOUS
<1>5. \A a \in {x, x + 1}, b \in {y, y + 1} : at(a, b) = m[(b % 2) * 2 + (a % 2) + 1]
    BY DEF bayer2x2
<1> HIDE DEF at, m
<1>6. \A a \in {x, x + 1}, b \in {y, y + 1} :
         \/ a % 2 = 0 /\ b % 2 = 0 /\ at(a, b) = 0
         \/ a % 2 = 1 /\ b % 2 = 0 /\ at(a, b) = 2
         \/ a % 2 = 0 /\ b % 2 = 1 /\ at(a, b) = 3
         \/ a % 2 = 1 /\ b % 2 = 1 /\ at(a, b) = 1
    BY <1>3, <1>4, <1>5
<1>7. \A a, c \in {x, x + 1} : a % 2 = c % 2 => a = c
    BY <1>3
<1>8. \A b, d \in {y, y + 1} : b % 2 = d % 2 => b = d
    BY <1>3
<1>9. \A p \in block : at(p[1], p[2]) \in 0..3
    BY <1>1, <1>6
<1>10. ASSUME NEW p \in block, NEW q \in block, at(p[1], p[2]) = at(q[1], q[2])
       PROVE  p = q
    <2>1. PICK a \in {x, x + 1}, b \in {y, y + 1} : p = <<a, b>> /\ p[1] = a /\ p[2] = b
        BY <1>1
    <2>2. PICK c \in {x, x + 1}, d \in {y, y + 1} : q = <<c, d>> /\ q[1] = c /\ q[2] = d
        BY <1>1
    <2>3. a % 2 = c % 2 /\ b % 2 = d % 2
        BY <1>6, <1>10, <2>1, <2>2
    <2> QED  BY <1>7, <1>8, <2>1, <2>2, <2>3
<1>11. \A k \in 0..3 : \E a \in {x, x + 1}, b \in {y, y + 1} : at(a, b) = k
    <2>1. \E a \in {x, x + 1} : a % 2 = 0
        BY <1>3
    <2>2. \E a \in {x, x + 1} : a % 2 = 1
        BY <1>3
    <2>3. \E b \in {y, y + 1} : b % 2 = 0
        BY <1>3
    <2>4. \E b \in {y, y + 1} : b % 2 = 1
        BY <1>3
    <2>5. \A k \in 0..3 : k = 0 \/ k = 1 \/ k = 2 \/ k = 3
        OBVIOUS
    <2>6. PICK a0, a1 \in {x, x + 1}, b0, b1 \in {y, y + 1} :
             a0 % 2 = 0 /\ a1 % 2 = 1 /\ b0 % 2 = 0 /\ b1 % 2 = 1
        BY <2>1, <2>2, <2>3, <2>4
    <2>7. at(a0, b0) = 0 /\ at(a1, b0) = 2 /\ at(a0, b1) = 3 /\ at(a1, b1) = 1
        BY <1>6, <2>6
    <2> QED  BY <2>5, <2>7
<1>12. \A k \in 0..3 : \E p \in block : at(p[1], p[2]) = k
    BY <1>2, <1>11
<1>13. at(x, y) \in 0..3
    BY <1>6
<1> QED  BY <1>9, <1>10, <1>12, <1>13 DEF at, Block, Threshold

(* A permutation of four counts: a set has as many members as the set its *)
(* members are sent to, one to each.                                     *)
LEMMA CountedBy ==
    ASSUME NEW S, NEW T, IsFiniteSet(T), NEW f \in [S -> T],
           \A p, q \in S : f[p] = f[q] => p = q,
           \A k \in T : \E p \in S : f[p] = k
    PROVE  Cardinality(S) = Cardinality(T)
<1> DEFINE g == [k \in T |-> CHOOSE p \in S : f[p] = k]
<1>1. \A k \in T : g[k] \in S /\ f[g[k]] = k
    OBVIOUS
<1>2. \A p \in S : g[f[p]] = p
    <2>1. \A p \in S : f[p] \in T
        OBVIOUS
    <2> HIDE DEF g
    <2> QED  BY <1>1, <2>1
<1>3. g \in [T -> S]
    <2>1. g = [k \in T |-> g[k]]
        OBVIOUS
    <2> HIDE DEF g
    <2> QED  BY <1>1, <2>1
<1> HIDE DEF g
<1>4. g \in Bijection(T, S)
    <2>1. g \in Injection(T, S)
        BY <1>1, <1>3 DEF Injection, IsInjective
    <2>2. g \in Surjection(T, S)
        BY <1>2, <1>3 DEF Surjection
    <2> QED  BY <2>1, <2>2 DEF Bijection
<1>5. ExistsBijection(T, S)
    BY <1>4 DEF ExistsBijection
<1> QED  BY <1>5, FS_Bijection

(* In every block as many fragments draw the target as quarters are      *)
(* revealed, and they draw it from there on.                             *)
LEMMA DitherFollows ==
    ASSUME StagesInv
    PROVE  DitherRamps
<1> DEFINE block(x, y, d) == {p \in {x, x + 1} \X {y, y + 1} : DrawsTarget(p[1], p[2], d)}
           revealed(d) == {k \in 0..3 : 4 * Smaller(d, FadeDistance) > k * FadeDistance}
<1>1. ViewDistances \subseteq Int /\ FadeDistance \in Nat
    BY StagesAssumption
<1>2. ASSUME NEW d \in ViewDistances, NEW x \in 0..3, NEW y \in 0..3
      PROVE  Cardinality(block(x, y, d)) = Cardinality(revealed(d))
    <2> DEFINE S == block(x, y, d)
               T == revealed(d)
               f == [p \in S |-> Threshold(p)]
    <2>1. IsFiniteSet(T)
        <3>1. T \subseteq 0..3
            OBVIOUS
        <3>2. IsFiniteSet(0..3)
            BY FS_Interval, 0 \in Int, 3 \in Int
        <3> HIDE DEF T
        <3> QED  BY <3>1, <3>2, FS_Subset
    <2>2. S = {p \in Block(x, y) : 4 * Smaller(d, FadeDistance) > Threshold(p) * FadeDistance}
        BY DEF DrawsTarget, Block, Threshold
    <2> HIDE DEF S
    <2>3. \A p \in S : Threshold(p) \in T
        BY <2>2, BlockThresholds
    <2>4. \A p, q \in S : Threshold(p) = Threshold(q) => p = q
        BY <2>2, BlockThresholds
    <2>5. \A k \in T : \E p \in S : Threshold(p) = k
        <3>1. \A k \in T : k \in 0..3 /\ 4 * Smaller(d, FadeDistance) > k * FadeDistance
            OBVIOUS
        <3> HIDE DEF T
        <3> QED  BY <2>2, <3>1, BlockThresholds
    <2> HIDE DEF T
    <2>6. f \in [S -> T]
        BY <2>3
    <2>7. \A p, q \in S : f[p] = f[q] => p = q
        BY <2>4
    <2>8. \A k \in T : \E p \in S : f[p] = k
        BY <2>5
    <2> HIDE DEF f
    <2>9. Cardinality(S) = Cardinality(T)
        BY <2>1, <2>6, <2>7, <2>8, CountedBy
    <2> QED  BY <2>9 DEF S, T
<1>3. ASSUME NEW d \in ViewDistances, NEW x \in 0..3, NEW y \in 0..3, DrawsTarget(x, y, d),
             NEW e \in ViewDistances, d <= e
      PROVE  DrawsTarget(x, y, e)
    <2>1. d \in Int /\ e \in Int
        BY <1>1
    <2>2. Smaller(d, FadeDistance) \in Int /\ Smaller(e, FadeDistance) \in Int
        BY <1>1, <2>1 DEF Smaller
    <2>3. Smaller(d, FadeDistance) <= Smaller(e, FadeDistance)
        BY <1>1, <1>3, <2>1 DEF Smaller
    <2>4. bayer2x2(x, y) * FadeDistance \in Int
        <3>3. bayer2x2(x, y) \in 0..3
            BY BlockThresholds
        <3> QED  BY <1>1, <3>3
    <2>5. 4 * Smaller(d, FadeDistance) > bayer2x2(x, y) * FadeDistance
        BY <1>3 DEF DrawsTarget
    <2> DEFINE a == Smaller(d, FadeDistance)
               b == Smaller(e, FadeDistance)
               c == bayer2x2(x, y) * FadeDistance
    <2> HIDE DEF a, b, c
    <2>6. a \in Int /\ b \in Int /\ c \in Int /\ a <= b /\ 4 * a > c
        BY <2>2, <2>3, <2>4, <2>5 DEF a, b, c
    <2>7. 4 * b > c
        BY <2>6
    <2> QED  BY <2>7 DEF DrawsTarget, a, b, c
<1>4. sample_count <= kernel_length
    BY DEF sample_count, Smaller, StagesInv
<1>5. num_layers >= 4 => BlendedLayers = 0..3
    <2>1. \A layer \in 1..3 : num_layers >= 4 => num_layers > layer
        BY DEF StagesInv
    <2>2. 0..3 = {0} \cup 1..3
        OBVIOUS
    <2> QED  BY <2>1, <2>2 DEF BlendedLayers
<1> HIDE DEF block, revealed
<1> QED  BY <1>2, <1>3, <1>4, <1>5 DEF DitherRamps, block, revealed

---------------------------------------------------------------------------
(* A property holds what it was given.                                   *)
Keeps(property, what) ==
    what[1] \in Kinds /\ property = TerrainMaterialProperty(what[1], what[2])

Reads(property, kind, v) == property.kind = kind /\ property.slots[kind] = v

RulesInv ==
    /\ DOMAIN properties = DOMAIN given
    /\ \A name \in DOMAIN given : Keeps(properties[name], given[name])

(* What a property is made with is what it keeps.                        *)
LEMMA PropertyShape ==
    ASSUME NEW kind \in Kinds, NEW v
    PROVE  /\ Keeps(TerrainMaterialProperty(kind, v), <<kind, v>>)
           /\ Reads(TerrainMaterialProperty(kind, v), kind, v)
<1> DEFINE built == [kind |-> kind, slots |-> [k \in Kinds |-> IF k = kind THEN v ELSE Zero]]
<1>1. TerrainMaterialProperty(kind, v) = built
    BY DEF TerrainMaterialProperty, new_unchecked
<1>2. built.kind = kind /\ built.slots[kind] = v
    OBVIOUS
<1>4. Keeps(TerrainMaterialProperty(kind, v), <<kind, v>>)
    BY DEF Keeps
<1> QED  BY <1>1, <1>2, <1>4 DEF Reads

(* A value is changed by the setter of its kind.                         *)
LEMMA SetterShape ==
    ASSUME NEW kind \in Kinds, NEW v, NEW setter \in Kinds, NEW w
    PROVE  /\ setter = kind => set_value(TerrainMaterialProperty(kind, v), setter, w)
                                = TerrainMaterialProperty(kind, w)
           /\ setter # kind => set_value(TerrainMaterialProperty(kind, v), setter, w)
                                = TerrainMaterialProperty(kind, v)
<1> DEFINE built == [kind |-> kind, slots |-> [k \in Kinds |-> IF k = kind THEN v ELSE Zero]]
<1>1. TerrainMaterialProperty(kind, v) = built
    BY DEF TerrainMaterialProperty, new_unchecked
<1>2. CASE setter = kind
    <2>1. set_value(built, setter, w)
            = [kind |-> kind, slots |-> [k \in Kinds |-> IF k = kind THEN w ELSE Zero]]
        BY <1>2 DEF set_value
    <2> QED  BY <1>1, <1>2, <2>1 DEF TerrainMaterialProperty, new_unchecked
<1>3. CASE setter # kind
    <2>1. set_value(built, setter, w) = built
        BY <1>3 DEF set_value
    <2> QED  BY <1>1, <1>3, <2>1
<1> QED  BY <1>2, <1>3

(* A material begins without properties.                                 *)
LEMMA RulesBegin == RulesInit => RulesInv
BY DEF RulesInit, RulesInv

(* Adding, setting and removing keep what was given.                     *)
LEMMA RulesStep == RulesInv /\ [RulesNext]_materials => RulesInv'
<1> SUFFICES ASSUME RulesInv, [RulesNext]_materials PROVE RulesInv'
    OBVIOUS
<1>1. DOMAIN properties = DOMAIN given /\ \A name \in DOMAIN given : Keeps(properties[name], given[name])
    BY DEF RulesInv
<1>2. ASSUME NEW name, NEW property, NEW what, Keeps(property, what),
             properties' = Setting(properties, name, property),
             given' = Setting(given, name, what)
      PROVE  RulesInv'
    BY <1>1, <1>2 DEF RulesInv, Setting
<1>3. ASSUME NEW name \in PropertyNames, NEW kind \in Kinds, NEW v \in PropertyValues,
             Add(name, kind, v)
      PROVE  RulesInv'
    <2>1. CASE name \in DOMAIN given
        <3>1. properties' = properties /\ given' = given
            BY <1>1, <1>3, <2>1 DEF Add, add_property
        <3> QED  BY <1>1, <3>1 DEF RulesInv
    <2>2. CASE name \notin DOMAIN given
        <3>1. /\ properties' = Setting(properties, name, TerrainMaterialProperty(kind, v))
              /\ given' = Setting(given, name, <<kind, v>>)
            BY <1>1, <1>3, <2>2 DEF Add, add_property
        <3> QED  BY <1>2, <3>1, PropertyShape
    <2> QED  BY <2>1, <2>2
<1>4. ASSUME NEW name \in PropertyNames, NEW kind \in Kinds, NEW setter \in Kinds,
             NEW v \in PropertyValues, AddAfterSet(name, kind, setter, v)
      PROVE  RulesInv'
    <2> DEFINE w == IF setter = kind THEN v ELSE Zero
    <2>1. set_value(TerrainMaterialProperty(kind, Zero), setter, v) = TerrainMaterialProperty(kind, w)
        <3>1. CASE setter = kind
            BY <3>1, SetterShape
        <3>2. CASE setter # kind
            BY <3>2, SetterShape
        <3> QED  BY <3>1, <3>2
    <2>2. /\ properties' = Setting(properties, name, TerrainMaterialProperty(kind, w))
          /\ given' = Setting(given, name, <<kind, w>>)
        <3>1. properties' = Setting(properties, name, set_value(TerrainMaterialProperty(kind, Zero), setter, v))
            BY <1>4 DEF AddAfterSet
        <3>2. given' = Setting(given, name, <<kind, w>>)
            BY <1>4 DEF AddAfterSet
        <3> QED  BY <2>1, <3>1, <3>2
    <2>3. Keeps(TerrainMaterialProperty(kind, w), <<kind, w>>)
        BY PropertyShape
    <2> HIDE DEF w
    <2> QED  BY <1>2, <2>2, <2>3
<1>5. ASSUME NEW name \in PropertyNames, remove_property(name)
      PROVE  RulesInv'
    BY <1>1, <1>5 DEF RulesInv, remove_property
<1>6. CASE UNCHANGED terrain_material
    <2>1. properties' = properties /\ given' = given
        BY <1>6 DEF terrain_material
    <2> QED  BY <1>1, <2>1 DEF RulesInv
<1>7. (SetManifest \/ SetSources \/ SetReport \/ UNCHANGED materials) => UNCHANGED terrain_material
    BY DEF SetManifest, SetSources, SetReport, materials
<1> QED  BY <1>3, <1>4, <1>5, <1>6, <1>7 DEF RulesNext

(* A property is read back by its kind.                                  *)
LEMMA ReadsFollow ==
    ASSUME RulesInv
    PROVE  TypedReads
<1>1. ASSUME NEW name \in DOMAIN given, NEW kind \in Kinds
      PROVE  value_of(name, kind) = IF given[name][1] = kind THEN <<"Ok", given[name][2]>>
                                    ELSE <<"WrongType", kind>>
    <2> DEFINE k == given[name][1]
               v == given[name][2]
    <2>1. k \in Kinds /\ properties[name] = TerrainMaterialProperty(k, v)
        BY DEF RulesInv, Keeps
    <2> HIDE DEF k, v
    <2>2. Reads(properties[name], k, v)
        BY <2>1, PropertyShape
    <2> QED  BY <2>2 DEF value_of, Reads, k, v
<1> QED  BY <1>1 DEF RulesInv, TypedReads

(* The elements of two sequences put together.                           *)
LEMMA JoinedSet ==
    ASSUME NEW S, NEW s \in Seq(S), NEW t \in Seq(S)
    PROVE  s \o t \in Seq(S) /\ ToSet(s \o t) = ToSet(s) \cup ToSet(t)
<1>1. /\ s \o t \in Seq(S) /\ Len(s \o t) = Len(s) + Len(t)
      /\ \A k \in 1..Len(s) : (s \o t)[k] = s[k]
      /\ \A k \in 1..Len(t) : (s \o t)[Len(s) + k] = t[k]
    OBVIOUS
<1> DEFINE u == s \o t
<1> HIDE DEF u
<1>2. /\ DOMAIN u = 1..Len(s) + Len(t) /\ DOMAIN s = 1..Len(s) /\ DOMAIN t = 1..Len(t)
      /\ Len(s) \in Nat /\ Len(t) \in Nat
    BY <1>1 DEF u
<1>3. \A k \in 1..Len(s) + Len(t) : k \in 1..Len(s) \/ \E l \in 1..Len(t) : k = Len(s) + l
    <2> SUFFICES ASSUME NEW k \in 1..Len(s) + Len(t), k \notin 1..Len(s)
                 PROVE  \E l \in 1..Len(t) : k = Len(s) + l
        OBVIOUS
    <2>1. k - Len(s) \in 1..Len(t) /\ k = Len(s) + (k - Len(s))
        BY <1>2
    <2> QED  BY <2>1
<1>4. /\ \A k \in 1..Len(s) : k \in 1..Len(s) + Len(t)
      /\ \A l \in 1..Len(t) : Len(s) + l \in 1..Len(s) + Len(t)
    BY <1>2
<1>5. /\ \A k \in 1..Len(s) : u[k] = s[k]
      /\ \A k \in 1..Len(t) : u[Len(s) + k] = t[k]
    BY <1>1 DEF u
<1>6. \A k \in DOMAIN u : u[k] \in ToSet(s) \cup ToSet(t)
    <2>1. (\A k \in 1..Len(s) : s[k] \in ToSet(s)) /\ (\A l \in 1..Len(t) : t[l] \in ToSet(t))
        BY <1>2 DEF ToSet
    <2>2. \A k \in 1..Len(s) + Len(t) : u[k] \in ToSet(s) \/ u[k] \in ToSet(t)
        BY <1>3, <1>5, <2>1
    <2> QED  BY <1>2, <2>2
<1>7. (\A k \in DOMAIN s : s[k] \in ToSet(u)) /\ (\A k \in DOMAIN t : t[k] \in ToSet(u))
    <2>1. \A k \in DOMAIN u : u[k] \in ToSet(u)
        BY DEF ToSet
    <2>2. \A k \in 1..Len(s) : k \in DOMAIN u /\ u[k] = s[k]
        BY <1>2, <1>4, <1>5
    <2>3. \A l \in 1..Len(t) : Len(s) + l \in DOMAIN u /\ u[Len(s) + l] = t[l]
        BY <1>2, <1>4, <1>5
    <2>4. \A k \in DOMAIN s : s[k] \in ToSet(u)
        BY <1>2, <2>1, <2>2
    <2>5. \A l \in DOMAIN t : t[l] \in ToSet(u)
        BY <1>2, <2>1, <2>3
    <2> QED  BY <2>4, <2>5
<1>8. ToSet(u) = ToSet(s) \cup ToSet(t)
    BY <1>6, <1>7 DEF ToSet
<1> QED  BY <1>1, <1>8 DEF u

Paths == {"albedo", "normal", "mr", "ao", "orm"}

(* The paths to load are the ones that are there.                        *)
LEMMA PathsShape == ToSet(required_paths) = sources \cap Paths
<1> DEFINE present(path) == IF path \in sources THEN <<path>> ELSE << >>
<1>1. \A path \in Paths : present(path) \in Seq(Paths) /\ ToSet(present(path)) = sources \cap {path}
    <2>1. ASSUME NEW path \in Paths, path \in sources
          PROVE  present(path) \in Seq(Paths) /\ ToSet(present(path)) = sources \cap {path}
        <3>1. <<path>> \in Seq(Paths) /\ DOMAIN <<path>> = {1} /\ <<path>>[1] = path
            OBVIOUS
        <3>2. ToSet(<<path>>) = {path}
            BY <3>1 DEF ToSet
        <3> QED  BY <2>1, <3>1, <3>2
    <2>2. ASSUME NEW path \in Paths, path \notin sources
          PROVE  present(path) \in Seq(Paths) /\ ToSet(present(path)) = sources \cap {path}
        <3>1. << >> \in Seq(Paths) /\ DOMAIN << >> = {}
            OBVIOUS
        <3>2. ToSet(<< >>) = {}
            BY <3>1 DEF ToSet
        <3> QED  BY <2>2, <3>1, <3>2
    <2> QED  BY <2>1, <2>2
<1> DEFINE a == present("albedo")
           n == present("normal")
           m == present("mr")
           o == present("ao")
           p == present("orm")
<1>2. required_paths = a \o n \o m \o o \o p
    BY DEF required_paths
<1>3. {"albedo", "normal", "mr", "ao", "orm"} \subseteq Paths
    BY DEF Paths
<1> HIDE DEF present
<1>a. a \in Seq(Paths) /\ ToSet(a) = sources \cap {"albedo"}
    BY <1>1, <1>3
<1>n. n \in Seq(Paths) /\ ToSet(n) = sources \cap {"normal"}
    BY <1>1, <1>3
<1>m. m \in Seq(Paths) /\ ToSet(m) = sources \cap {"mr"}
    BY <1>1, <1>3
<1>o. o \in Seq(Paths) /\ ToSet(o) = sources \cap {"ao"}
    BY <1>1, <1>3
<1>p. p \in Seq(Paths) /\ ToSet(p) = sources \cap {"orm"}
    BY <1>1, <1>3
<1> HIDE DEF a, n, m, o, p
<1> DEFINE an == a \o n
           anm == an \o m
           anmo == anm \o o
<1>4. an \in Seq(Paths) /\ ToSet(an) = ToSet(a) \cup ToSet(n)
    <2>1. a \in Seq(Paths) /\ n \in Seq(Paths)
        BY <1>a, <1>n
    <2> QED  BY <2>1, JoinedSet
<1> HIDE DEF an
<1>5. anm \in Seq(Paths) /\ ToSet(anm) = ToSet(an) \cup ToSet(m)
    <2>1. an \in Seq(Paths) /\ m \in Seq(Paths)
        BY <1>4, <1>m
    <2> QED  BY <2>1, JoinedSet
<1> HIDE DEF anm
<1>6. anmo \in Seq(Paths) /\ ToSet(anmo) = ToSet(anm) \cup ToSet(o)
    <2>1. anm \in Seq(Paths) /\ o \in Seq(Paths)
        BY <1>5, <1>o
    <2> QED  BY <2>1, JoinedSet
<1> HIDE DEF anmo
<1>7. ToSet(anmo \o p) = ToSet(anmo) \cup ToSet(p)
    <2>1. anmo \in Seq(Paths) /\ p \in Seq(Paths)
        BY <1>6, <1>p
    <2> QED  BY <2>1, JoinedSet
<1>8. ToSet(anmo \o p) = sources \cap Paths
    BY <1>a, <1>n, <1>m, <1>o, <1>p, <1>4, <1>5, <1>6, <1>7 DEF Paths
<1> QED  BY <1>2, <1>8 DEF an, anm, anmo

(* The policies agree with each other.                                   *)
LEMMA PoliciesFollow == PoliciesAgree
<1>1. \A id \in MaterialIds :
         (resolve("Canonical", id) = "Exemplar") # (resolve("Primitive", id) = "Override")
    BY DEF resolve
<1>2. is_complete <=> PbrChannel \subseteq UNION {Drives[path] : path \in ToSet(required_paths)}
    <2> DEFINE driven == UNION {Drives[path] : path \in ToSet(required_paths)}
    <2>1. \A channel : channel \in driven <=>
             \/ "albedo" \in sources /\ channel \in {"Albedo"}
             \/ "normal" \in sources /\ channel \in {"Normal"}
             \/ "mr" \in sources /\ channel \in {"Metallic", "Roughness"}
             \/ "ao" \in sources /\ channel \in {"AmbientOcclusion"}
             \/ "orm" \in sources /\ channel \in {"Metallic", "Roughness", "AmbientOcclusion"}
        <3>1. /\ Drives["albedo"] = {"Albedo"} /\ Drives["normal"] = {"Normal"}
              /\ Drives["mr"] = {"Metallic", "Roughness"} /\ Drives["ao"] = {"AmbientOcclusion"}
              /\ Drives["orm"] = {"Metallic", "Roughness", "AmbientOcclusion"}
            BY DEF Drives
        <3>2. \A channel : channel \in driven <=> \E path \in Paths : path \in sources /\ channel \in Drives[path]
            BY PathsShape
        <3>3. \A path \in Paths : \/ path = "albedo" \/ path = "normal" \/ path = "mr"
                                  \/ path = "ao" \/ path = "orm"
            BY DEF Paths
        <3>4. /\ "albedo" \in Paths /\ "normal" \in Paths /\ "mr" \in Paths
              /\ "ao" \in Paths /\ "orm" \in Paths
            BY DEF Paths
        <3> HIDE DEF driven
        <3> QED  BY <3>1, <3>2, <3>3, <3>4
    <2> HIDE DEF driven
    <2>2. PbrChannel \subseteq driven <=>
             /\ "Albedo" \in driven /\ "Normal" \in driven /\ "Metallic" \in driven
             /\ "Roughness" \in driven /\ "AmbientOcclusion" \in driven
        BY DEF PbrChannel
    <2>3. /\ "Albedo" \in driven <=> "albedo" \in sources
          /\ "Normal" \in driven <=> "normal" \in sources
          /\ "Metallic" \in driven <=> ("mr" \in sources \/ "orm" \in sources)
          /\ "Roughness" \in driven <=> ("mr" \in sources \/ "orm" \in sources)
          /\ "AmbientOcclusion" \in driven <=> ("ao" \in sources \/ "orm" \in sources)
        BY <2>1
    <2> QED  BY <2>2, <2>3 DEF is_complete, driven
<1>3. (action = "Panic" /\ flavour = "Player") => policy = "Loud"
    BY DEF action
<1> QED  BY <1>1, <1>2, <1>3 DEF PoliciesAgree

---------------------------------------------------------------------------
(* The index of a channel in a table of n, and the value it stands for.  *)
Nearest(n, v) == (2 * Clamp(0, v, One) * (IF n = 0 THEN 0 ELSE n - 1) + One) \div (2 * One)

Value(n, i) == (i * One) \div (n - 1)

LEMMA SizesShape ==
    /\ One \in Nat \ {0} /\ U32Values \in Nat \ {0} /\ 0 \in ExactSizes
    /\ \A n \in ExactSizes : n \in Nat
    /\ NaN \notin 0..One
BY PassAssumption DEF ExactSizes, NaN

(* Products of natural numbers grow with their factors.                  *)
LEMMA Products ==
    ASSUME NEW a \in Nat, NEW b \in Nat, NEW c \in Nat, a <= b
    PROVE  /\ a * c \in Nat /\ b * c \in Nat /\ c * a <= c * b
           /\ a * c <= b * c
           /\ a < b /\ 0 < c => a * c + c <= b * c
<1>1. a * c \in Nat /\ b * c \in Nat /\ c * a = a * c /\ c * b = b * c
    OBVIOUS
<1>2. a * c <= b * c
    OBVIOUS
<1>3. ASSUME a < b
      PROVE  a * c + c <= b * c
    <2>1. a + 1 \in Nat /\ a + 1 <= b
        BY <1>3
    <2>2. (a + 1) * c <= b * c
        BY <2>1
    <2>3. (a + 1) * c = a * c + c
        OBVIOUS
    <2> QED  BY <2>2, <2>3
<1> QED  BY <1>1, <1>2, <1>3

(* The number of entries of a table.                                     *)
LEMMA Cubes ==
    ASSUME NEW n \in Nat
    PROVE  /\ n * n \in Nat /\ n * n * n \in Nat /\ n * n * n = n * (n * n)
           /\ n * n * n * 3 \in Nat /\ n * n * n * 3 = 3 * (n * n * n)
           /\ n = 0 => n * n * n = 0
           /\ n # 0 => n * n > 0 /\ n * n * n > 0
<1> DEFINE s == n * n
           t == s * n
<1>1. s \in Nat /\ (n # 0 => s > 0)
    OBVIOUS
<1> HIDE DEF s
<1>2. t \in Nat /\ t = n * s /\ (n = 0 => t = 0)
    BY <1>1
<1>3. n # 0 => t > 0
    <2>1. ASSUME NEW x \in Nat, NEW y \in Nat, x > 0, y > 0
          PROVE  x * y > 0
        BY <2>1
    <2> QED  BY <1>1, <2>1
<1> HIDE DEF t
<1>4. t * 3 \in Nat /\ t * 3 = 3 * t
    BY <1>2
<1> QED  BY <1>1, <1>2, <1>3, <1>4 DEF t, s

(* A smaller cube has fewer entries.                                     *)
LEMMA CubesGrow ==
    ASSUME NEW m \in Nat, NEW n \in Nat, m < n
    PROVE  m * m * m < n * n * n
<1> DEFINE s == m * m
           t == n * n
<1>1. s \in Nat /\ t \in Nat /\ t > 0
    BY Cubes
<1>2. s <= t
    <2>1. m * m <= n * m
        BY Products
    <2>2. n * m <= n * n
        BY Products
    <2>3. m * m \in Nat /\ n * m \in Nat /\ n * n \in Nat
        OBVIOUS
    <2> QED  BY <2>1, <2>2, <2>3
<1> HIDE DEF s, t
<1>3. s * m <= t * m /\ s * m \in Nat /\ t * m \in Nat
    BY <1>1, <1>2, Products
<1>4. m * t + t <= n * t
    BY <1>1, Products
<1>5. m * t = t * m /\ n * t = t * n /\ t * n \in Nat
    BY <1>1
<1>6. s * m < t * n
    BY <1>1, <1>3, <1>4, <1>5
<1> QED  BY <1>6 DEF s, t

(* A channel has an index of the table.                                  *)
LEMMA NearestShape ==
    ASSUME NEW n \in ExactSizes, NEW v \in Int
    PROVE  Nearest(n, v) \in Nat /\ (n = 0 => Nearest(n, v) = 0) /\ (n > 0 => Nearest(n, v) < n)
<1> DEFINE w == Clamp(0, v, One)
           most == IF n = 0 THEN 0 ELSE n - 1
           D == 2 * One
           a == 2 * w * most + One
           i == a \div D
<1>1. One \in Nat \ {0} /\ n \in Nat
    BY SizesShape
<1>2. w \in Nat /\ w <= One
    BY <1>1 DEF Clamp
<1>3. most \in Nat /\ (n = 0 => most = 0) /\ (n > 0 => most = n - 1)
    BY <1>1
<1>4. Nearest(n, v) = i
    BY DEF Nearest
<1> HIDE DEF w, most
<1>5. D \in Nat \ {0} /\ a \in Nat /\ a <= D * most + One /\ One < D
    <2>1. D \in Nat \ {0} /\ One < D
        BY <1>1
    <2>2. 2 * w \in Nat /\ 2 * w <= D
        BY <1>1, <1>2
    <2>3. (2 * w) * most <= D * most /\ (2 * w) * most \in Nat /\ D * most \in Nat
        <3> DEFINE x == 2 * w
        <3> HIDE DEF x, D
        <3> QED  BY <1>3, <2>1, <2>2, Products DEF x
    <2> QED  BY <1>1, <2>1, <2>3
<1> HIDE DEF D, a
<1>6. i \in Nat /\ a = D * i + (a % D) /\ a % D \in 0..D - 1
    BY <1>5, NatDivided
<1> DEFINE r == a % D
<1> HIDE DEF i, r
<1>7. i <= most
    <2>1. ASSUME most < i
          PROVE  FALSE
        <3>1. D * most + D <= D * i
            <4>1. most * D + D <= i * D
                BY <1>3, <1>5, <1>6, <2>1, Products
            <4> QED  BY <1>3, <1>5, <1>6, <4>1
        <3>2. D * most \in Nat /\ D * i \in Nat
            BY <1>3, <1>5, <1>6
        <3> QED  BY <1>1, <1>5, <1>6, <3>1, <3>2 DEF r
    <2> QED  BY <1>3, <1>6, <2>1
<1> QED  BY <1>1, <1>3, <1>4, <1>6, <1>7

(* In a table of two or more the values of the indices are the whole steps *)
(* of the unit.                                                          *)
LEMMA ValueShape ==
    ASSUME NEW n \in ExactSizes, n > 1, NEW i \in 0..n - 1
    PROVE  Value(n, i) \in 0..One /\ (n - 1) * Value(n, i) = i * One
<1> DEFINE N == n - 1
           q == One \div N
<1>1. One \in Nat \ {0} /\ N \in Nat \ {0} /\ i \in Nat /\ i <= N
    BY SizesShape
<1>2. One % N = 0
    BY DEF ExactSizes
<1>3. Value(n, i) = (i * One) \div N
    BY DEF Value
<1> HIDE DEF N
<1>4. q \in Nat /\ One = N * q
    BY <1>1, <1>2, NatDivided
<1> HIDE DEF q
<1> DEFINE w == i * q
<1>5. w \in Nat /\ w <= One
    <2>1. i * q <= N * q /\ i * q \in Nat
        BY <1>1, <1>4, Products
    <2> QED  BY <1>4, <2>1
<1>6. N * w = i * One
    <2>1. N * (i * q) = i * (N * q)
        BY <1>1, <1>4
    <2> QED  BY <1>4, <2>1
<1> HIDE DEF w
<1>7. (i * One) \div N = w
    <2> DEFINE a == i * One
    <2>1. a \in Int /\ w \in Int /\ 0 \in 0..N - 1 /\ a = N * w + 0
        BY <1>1, <1>5, <1>6
    <2> HIDE DEF a
    <2>2. a \div N = w
        BY <1>1, <2>1, DividedOnce
    <2> QED  BY <2>2 DEF a
<1>8. Value(n, i) = w
    BY <1>3, <1>7
<1> QED  BY <1>1, <1>5, <1>6, <1>8 DEF N

(* The entry of three indices has their values.                          *)
LEMMA EntryShape ==
    ASSUME NEW n \in Nat, n > 0, NEW a \in 0..n - 1, NEW b \in 0..n - 1, NEW d \in 0..n - 1
    PROVE  /\ (d * n * n + b * n + a) + 1 \in 1..n * n * n
           /\ (d * n * n + b * n + a) % n = a
           /\ ((d * n * n + b * n + a) \div n) % n = b
           /\ (d * n * n + b * n + a) \div (n * n) = d
<1> DEFINE s == n * n
           k == d * n * n + b * n + a
           row == d * n + b
           rest == b * n + a
<1>1. s \in Nat /\ s > 0 /\ n * n * n = n * s
    BY Cubes
<1>2. n \in Nat \ {0} /\ a \in Nat /\ b \in Nat /\ d \in Nat /\ d < n
    OBVIOUS
<1>3. row \in Nat /\ rest \in Nat
    BY <1>2
<1>4. k = n * row + a
    <2>1. n * (d * n + b) = n * (d * n) + n * b
        <3> DEFINE x == d * n
        <3>1. x \in Nat
            BY <1>2
        <3> HIDE DEF x
        <3>2. n * (x + b) = n * x + n * b
            BY <1>2, <3>1
        <3> QED  BY <3>2 DEF x
    <2>2. n * (d * n) = d * n * n /\ n * b = b * n /\ d * n * n \in Nat /\ b * n \in Nat
        BY <1>2
    <2> QED  BY <1>2, <2>1, <2>2
<1>5. k = s * d + rest
    <2>1. d * n * n = s * d
        BY <1>2
    <2>2. s * d \in Nat /\ b * n \in Nat
        BY <1>1, <1>2
    <2> QED  BY <1>2, <2>1, <2>2
<1>6. rest < s
    <2>1. b * n + n <= n * n
        BY <1>2, Products
    <2>2. b * n \in Nat /\ n * n \in Nat
        BY <1>2
    <2> QED  BY <1>2, <2>1, <2>2
<1>7. k + 1 \in 1..n * n * n
    <2>1. d * s + s <= n * s /\ d * s = s * d /\ s * d \in Nat /\ n * s \in Nat
        BY <1>1, <1>2, Products
    <2> HIDE DEF k, rest, s
    <2> QED  BY <1>1, <1>3, <1>5, <1>6, <2>1
<1>8. k \in Int /\ row \in Int /\ s \in Nat \ {0} /\ rest \in 0..s - 1
    <2> HIDE DEF row, rest, s
    <2>1. n * row \in Nat
        BY <1>2, <1>3
    <2> QED  BY <1>1, <1>2, <1>3, <1>4, <1>6, <2>1
<1>9. row = n * d + b
    BY <1>2
<1> HIDE DEF k, row, rest, s
<1>10. k \div n = row /\ k % n = a
    BY <1>2, <1>4, <1>8, DividedOnce
<1>11. row % n = b
    BY <1>2, <1>8, <1>9, DividedOnce
<1>12. k \div s = d
    BY <1>2, <1>5, <1>8, DividedOnce
<1>13. /\ k + 1 \in 1..n * n * n
       /\ k % n = a
       /\ (k \div n) % n = b
       /\ k \div s = d
    BY <1>7, <1>10, <1>11, <1>12
<1> QED  BY <1>13 DEF k, s

(* The indices of an entry.                                              *)
LEMMA EntryIndices ==
    ASSUME NEW n \in Nat, n > 0, NEW m \in Nat, m < n * n * n
    PROVE  m % n \in 0..n - 1 /\ (m \div n) % n \in 0..n - 1 /\ m \div (n * n) \in 0..n - 1
<1> DEFINE s == n * n
           d == m \div s
           r == m % s
<1>1. n \in Nat \ {0} /\ s \in Nat \ {0} /\ n * n * n = n * s
    BY Cubes
<1>2. m % n \in 0..n - 1 /\ (m \div n) % n \in 0..n - 1
    <2>1. m \div n \in Int /\ m % n \in 0..n - 1
        BY <1>1, Divided
    <2> QED  BY <1>1, <2>1, Divided
<1> HIDE DEF s
<1>3. d \in Nat /\ r \in 0..s - 1 /\ m = s * d + r
    BY <1>1, NatDivided
<1> HIDE DEF d, r
<1>4. d < n
    <2>1. ASSUME n <= d
          PROVE  FALSE
        <3>1. n * s <= d * s /\ d * s = s * d /\ s * d \in Nat /\ n * s \in Nat
            BY <1>1, <1>3, <2>1, Products
        <3> QED  BY <1>1, <1>3, <3>1
    <2> QED  BY <1>1, <1>3, <2>1
<1>5. d \in 0..n - 1
    BY <1>1, <1>3, <1>4
<1> QED  BY <1>2, <1>5 DEF d, s

(* A number that is a u32 stays what it is, and what is left of a larger *)
(* one is smaller.                                                       *)
LEMMA WrappedShape ==
    ASSUME NEW k \in Nat
    PROVE  /\ Wrapped(k) \in Nat /\ Wrapped(k) <= k
           /\ k < U32Values => Wrapped(k) = k
<1> DEFINE d == k \div U32Values
           r == k % U32Values
<1>1. U32Values \in Nat \ {0}
    BY SizesShape
<1>2. d \in Nat /\ r \in 0..U32Values - 1 /\ k = U32Values * d + r
    BY <1>1, NatDivided
<1>3. Wrapped(k) = r
    BY DEF Wrapped
<1> HIDE DEF d, r
<1>4. r <= k
    <2>1. U32Values * d \in Nat
        BY <1>1, <1>2
    <2> QED  BY <1>1, <1>2, <2>1
<1>5. ASSUME k < U32Values
      PROVE  Wrapped(k) = k
    <2>1. 0 \in Int /\ k \in Int /\ k \in 0..U32Values - 1 /\ k = U32Values * 0 + k
        BY <1>1, <1>5
    <2>2. k % U32Values = k
        BY <1>1, <2>1, DividedOnce
    <2> QED  BY <2>2 DEF Wrapped
<1> QED  BY <1>1, <1>2, <1>3, <1>4, <1>5

Apart(v, w) == IF w - v < 0 THEN -(w - v) ELSE w - v

(* A channel is at most half a step from the value of its index, and is  *)
(* that value when it is on the lattice.                                 *)
LEMMA NearestValue ==
    ASSUME NEW n \in ExactSizes, n > 1, NEW v \in 0..One
    PROVE  /\ 2 * (n - 1) * Apart(v, Value(n, Nearest(n, v))) <= One
           /\ v \in Lattice(n) => Value(n, Nearest(n, v)) = v
<1> DEFINE i == Nearest(n, v)
           w == Value(n, i)
           N == n - 1
           D == 2 * One
<1>1. One \in Nat \ {0} /\ n \in Nat /\ v \in Nat /\ v <= One /\ N \in Nat \ {0} /\ n # 0
    BY SizesShape
<1>2. i \in Nat /\ i <= N /\ i \in 0..n - 1
    <2>1. i \in Nat /\ i < n
        BY <1>1, NearestShape
    <2> HIDE DEF i
    <2> QED  BY <1>1, <2>1
<1>3. i = (2 * v * N + One) \div D
    <2>1. Clamp(0, v, One) = v
        BY <1>1 DEF Clamp
    <2> QED  BY <1>1, <2>1 DEF Nearest
<1> HIDE DEF i
<1>4. w \in Nat /\ w <= One /\ N * w = i * One
    <2>1. w \in 0..One /\ (n - 1) * w = i * One
        BY <1>2, ValueShape
    <2> HIDE DEF w
    <2> QED  BY <1>1, <2>1
<1>5. ASSUME NEW j \in 0..n - 1, v = Value(n, j)
      PROVE  w = v
    <2>1. N * v = j * One /\ j \in Nat
        <3>1. (n - 1) * v = j * One
            BY <1>5, ValueShape
        <3> QED  BY <3>1
    <2> HIDE DEF w, N
    <2>2. 2 * v * N = D * j
        <3>1. 2 * v * N = 2 * (N * v)
            BY <1>1
        <3>2. D * j = 2 * (j * One)
            BY <1>1, <2>1
        <3> QED  BY <2>1, <3>1, <3>2
    <2>3. D \in Nat \ {0} /\ One \in 0..D - 1
        BY <1>1
    <2> DEFINE a == 2 * v * N + One
    <2>4. a \in Int /\ a = D * j + One /\ j \in Int
        BY <1>1, <2>1, <2>2
    <2> HIDE DEF a, D
    <2>5. a \div D = j
        BY <2>3, <2>4, DividedOnce
    <2>6. i = j
        BY <1>3, <2>5 DEF a
    <2> QED  BY <1>5, <2>6 DEF w
<1>6. v \in Lattice(n) => w = v
    <2>1. \A u \in Lattice(n) : \E j \in 0..n - 1 : u = Value(n, j)
        BY DEF Lattice, Value
    <2> HIDE DEF w
    <2> QED  BY <1>5, <2>1
<1> HIDE DEF w, N
<1> DEFINE x == N * v
           y == N * w
           o == i * One
<1>7. x \in Nat /\ y \in Nat /\ o \in Nat /\ y = o
    BY <1>1, <1>2, <1>4
<1>8. 2 * o <= 2 * x + One /\ 2 * x + One < 2 * o + 2 * One
    <2> DEFINE a == 2 * v * N + One
    <2>1. a = 2 * x + One /\ a \in Int /\ D \in Nat \ {0}
        <3>1. 2 * v * N = 2 * (N * v)
            BY <1>1
        <3> QED  BY <1>1, <1>7, <3>1
    <2> HIDE DEF a
    <2>2. a % D \in 0..D - 1 /\ a = D * i + (a % D)
        BY <1>3, <2>1, Divided DEF a
    <2>3. D * i = 2 * o
        BY <1>1, <1>2
    <2> DEFINE r == a % D
    <2> HIDE DEF r, o, x
    <2> QED  BY <1>1, <1>7, <2>1, <2>2, <2>3 DEF r
<1>9. 2 * N * Apart(v, w) <= One
    <2>1. CASE w < v
        <3>1. Apart(v, w) = v - w
            BY <1>1, <1>4, <2>1 DEF Apart
        <3>2. 2 * N * (v - w) = 2 * x - 2 * y
            BY <1>1, <1>4
        <3> HIDE DEF x, y, o
        <3> QED  BY <1>1, <1>7, <1>8, <3>1, <3>2
    <2>2. CASE w >= v
        <3>1. Apart(v, w) = w - v
            BY <1>1, <1>4, <2>2 DEF Apart
        <3>2. 2 * N * (w - v) = 2 * y - 2 * x
            BY <1>1, <1>4
        <3> HIDE DEF x, y, o
        <3> QED  BY <1>1, <1>7, <1>8, <3>1, <3>2
    <2> QED  BY <1>1, <1>4, <2>1, <2>2
<1> QED  BY <1>6, <1>9 DEF w, i, N

Place(n, c) == (Nearest(n, c[3]) * n * n + Nearest(n, c[2]) * n + Nearest(n, c[1])) + 1

Pixels == Int \X Int \X Int

(* The entry of a colour is in the cube of the size; a table of none has *)
(* the first.                                                            *)
LEMMA EntryIn ==
    ASSUME NEW n \in ExactSizes, NEW c \in Pixels
    PROVE  /\ Place(n, c) \in Nat /\ n \in Nat /\ n * n * n \in Nat
           /\ IF n = 0 THEN Place(n, c) = 1 ELSE Place(n, c) \in 1..n * n * n
<1> DEFINE a == Nearest(n, c[1])
           b == Nearest(n, c[2])
           d == Nearest(n, c[3])
<1>1. c[1] \in Int /\ c[2] \in Int /\ c[3] \in Int
    BY DEF Pixels
<1>2. n \in Nat /\ n * n * n \in Nat
    BY SizesShape, Cubes
<1>3. /\ a \in Nat /\ (n = 0 => a = 0) /\ (n > 0 => a < n)
      /\ b \in Nat /\ (n = 0 => b = 0) /\ (n > 0 => b < n)
      /\ d \in Nat /\ (n = 0 => d = 0) /\ (n > 0 => d < n)
    BY <1>1, NearestShape
<1>4. Place(n, c) = (d * n * n + b * n + a) + 1
    BY DEF Place
<1> HIDE DEF a, b, d
<1>5. CASE n = 0
    BY <1>3, <1>4, <1>5
<1>6. CASE n > 0
    <2>1. a \in 0..n - 1 /\ b \in 0..n - 1 /\ d \in 0..n - 1
        BY <1>2, <1>3, <1>6
    <2>2. Place(n, c) \in 1..n * n * n
        BY <1>2, <1>4, <1>6, <2>1, EntryShape
    <2> HIDE DEF Place
    <2>3. Place(n, c) \in Nat
        BY <1>2, <2>2
    <2> QED  BY <1>2, <1>6, <2>2, <2>3
<1> QED  BY <1>2, <1>5, <1>6

Refuses(n) == overflow_checks /\ Overflows(n)

Short(n, table) == Len(table) * 3 < Wrapped(n * n * n * 3)

(* What grading does to a pixel, at a size whose indices are u32s.       *)
LEMMA GradedShape ==
    ASSUME NEW n \in ExactSizes, NEW c \in Pixels, NEW h, NEW table,
           n * n * n <= U32Values
    PROVE  apply_lut(c, n, h, table)
             = IF Refuses(n) THEN Panic
               ELSE IF Short(n, table) THEN c
               ELSE IF Place(n, c) > Len(table) THEN Panic
               ELSE [i \in 1..3 |-> Blend(c[i], table[Place(n, c)][i], h)]
<1> DEFINE at == rgb_to_lut_index(n, c)
           flat == Nearest(n, c[3]) * n * n + Nearest(n, c[2]) * n + Nearest(n, c[1])
<1>1. at = [i \in 1..3 |-> Nearest(n, c[i])]
    BY DEF rgb_to_lut_index, Nearest
<1>2. at[1] = Nearest(n, c[1]) /\ at[2] = Nearest(n, c[2]) /\ at[3] = Nearest(n, c[3])
    <2> HIDE DEF at
    <2> QED  BY <1>1
<1>3. flat_index(n, at) = Wrapped(flat)
    <2> HIDE DEF at
    <2> QED  BY <1>2 DEF flat_index
<1>4. Place(n, c) = flat + 1
    BY DEF Place
<1>5. flat \in Nat /\ flat < U32Values
    <2>1. Place(n, c) \in Nat /\ n * n * n \in Nat /\ U32Values \in Nat \ {0} /\ n \in Nat
          /\ IF n = 0 THEN Place(n, c) = 1 ELSE Place(n, c) \in 1..n * n * n
        BY EntryIn, SizesShape
    <2>2. flat \in Int
        <3>1. Nearest(n, c[1]) \in Int /\ Nearest(n, c[2]) \in Int /\ Nearest(n, c[3]) \in Int
            <4>1. c[1] \in Int /\ c[2] \in Int /\ c[3] \in Int
                BY DEF Pixels
            <4> QED  BY <4>1, NearestShape
        <3> QED  BY <2>1, <3>1
    <2> DEFINE place == Place(n, c)
               t == n * n * n
    <2>3. place = flat + 1 /\ place \in Nat /\ t \in Nat /\ t <= U32Values
          /\ IF n = 0 THEN place = 1 ELSE place \in 1..t
        BY <1>4, <2>1
    <2> HIDE DEF flat, place, t
    <2> QED  BY <2>1, <2>2, <2>3
<1> HIDE DEF flat
<1>6. Wrapped(flat) = flat
    BY <1>5, WrappedShape
<1>7. flat_index(n, rgb_to_lut_index(n, c)) + 1 = Place(n, c)
    BY <1>3, <1>4, <1>6
<1> QED  BY <1>7 DEF apply_lut, Refuses, Short

(* Where the number of floats is a u32 so are the indices, and only a    *)
(* table with too few entries is short; one with as many never is.       *)
LEMMA ShortShape ==
    ASSUME NEW n \in Nat, NEW table, Len(table) \in Nat
    PROVE  /\ ~ Overflows(n) => n * n * n <= U32Values /\ (Short(n, table) <=> Len(table) < n * n * n)
           /\ n * n * n <= Len(table) => ~ Short(n, table)
<1> DEFINE t == n * n * n
           l == Len(table)
<1>1. t \in Nat /\ n * n * n * 3 = 3 * t /\ 3 * t \in Nat /\ U32Values \in Nat
    BY Cubes, SizesShape
<1>2. Overflows(n) <=> 3 * t >= U32Values
    BY <1>1 DEF Overflows
<1>3. Short(n, table) <=> l * 3 < Wrapped(3 * t)
    BY <1>1 DEF Short
<1> HIDE DEF t, l
<1> DEFINE k == 3 * t
<1>4. Wrapped(k) \in Nat /\ Wrapped(k) <= k /\ (k < U32Values => Wrapped(k) = k)
    BY <1>1, WrappedShape
<1>5. l \in Nat
    BY DEF l
<1>6. ~ Overflows(n) => t <= U32Values /\ (Short(n, table) <=> l < t)
    <2> SUFFICES ASSUME ~ Overflows(n) PROVE t <= U32Values /\ (Short(n, table) <=> l < t)
        OBVIOUS
    <2>1. k < U32Values
        BY <1>1, <1>2
    <2>2. Short(n, table) <=> l * 3 < k
        BY <1>3, <1>4, <2>1
    <2> QED  BY <1>1, <1>5, <2>1, <2>2
<1>7. t <= l => ~ Short(n, table)
    <2>1. t <= l => k <= l * 3
        BY <1>1, <1>5
    <2> HIDE DEF k
    <2> QED  BY <1>1, <1>3, <1>4, <1>5, <2>1 DEF k
<1> QED  BY <1>6, <1>7 DEF t, l

(* A pixel is not a panic.                                               *)
LEMMA PixelNoPanic ==
    /\ \A c \in Pixels : c # Panic
    /\ \A f : [i \in 1..3 |-> f[i]] # Panic
<1>1. Len(Panic) = 1
    BY DEF Panic
<1>2. \A c \in Pixels : Len(c) = 3
    BY DEF Pixels
<1>3. \A f : Len([i \in 1..3 |-> f[i]]) = 3
    OBVIOUS
<1> QED  BY <1>1, <1>2, <1>3

(* The table that changes nothing has the values of its indices.         *)
LEMMA IdentityShape ==
    ASSUME NEW n \in ExactSizes
    PROVE  /\ n \in Nat /\ n * n * n \in Nat /\ Len(identity_lut(n)) = n * n * n
           /\ identity_lut(n) = << >> <=> n = 0
<1>1. n \in Nat
    BY SizesShape
<1>2. n * n * n \in Nat /\ (n * n * n = 0 <=> n = 0)
    BY <1>1, Cubes
<1>3. DOMAIN identity_lut(n) = 1..n * n * n /\ Len(identity_lut(n)) = n * n * n
    BY <1>2 DEF identity_lut
<1>4. ASSUME n = 0
      PROVE  identity_lut(n) = << >>
    <2>1. 1..n * n * n = {}
        BY <1>4
    <2> QED  BY <2>1 DEF identity_lut
<1>5. Len(<< >>) = 0
    OBVIOUS
<1> QED  BY <1>1, <1>2, <1>3, <1>4, <1>5

LEMMA IdentityEntry ==
    ASSUME NEW n \in ExactSizes, n > 1, NEW c \in Pixels
    PROVE  identity_lut(n)[Place(n, c)] = [i \in 1..3 |-> Value(n, Nearest(n, c[i]))]
<1> DEFINE a == Nearest(n, c[1])
           b == Nearest(n, c[2])
           d == Nearest(n, c[3])
           k == d * n * n + b * n + a
<1>1. c[1] \in Int /\ c[2] \in Int /\ c[3] \in Int /\ n \in Nat
    BY SizesShape DEF Pixels
<1>2. /\ a \in Nat /\ a < n /\ b \in Nat /\ b < n /\ d \in Nat /\ d < n
    BY <1>1, NearestShape
<1> HIDE DEF a, b, d
<1>3. a \in 0..n - 1 /\ b \in 0..n - 1 /\ d \in 0..n - 1
    BY <1>1, <1>2
<1>4. k + 1 \in 1..n * n * n /\ k % n = a /\ (k \div n) % n = b /\ k \div (n * n) = d
    <2>1. n > 0 /\ n \in Nat
        BY <1>1
    <2>2. /\ (d * n * n + b * n + a) + 1 \in 1..n * n * n
          /\ (d * n * n + b * n + a) % n = a
          /\ ((d * n * n + b * n + a) \div n) % n = b
          /\ (d * n * n + b * n + a) \div (n * n) = d
        BY <1>3, <2>1, EntryShape, Zenon
    <2> QED  BY <2>2
<1>5. (k + 1) - 1 = k
    BY <1>1, <1>3
<1> HIDE DEF k
<1>6. identity_lut(n)[k + 1] = <<(a * One) \div (n - 1), (b * One) \div (n - 1), (d * One) \div (n - 1)>>
    BY <1>1, <1>4, <1>5 DEF identity_lut
<1>7. identity_lut(n)[k + 1] = <<Value(n, a), Value(n, b), Value(n, d)>>
    BY <1>6 DEF Value
<1>8. <<Value(n, a), Value(n, b), Value(n, d)>> = [i \in 1..3 |-> Value(n, Nearest(n, c[i]))]
    BY DEF a, b, d
<1>9. Place(n, c) = k + 1
    BY DEF Place, k, a, b, d
<1> QED  BY <1>7, <1>8, <1>9

---------------------------------------------------------------------------
TableKnown ==
    \/ lut_for = Custom /\ lut = CustomLut
    \/ lut_for \in ExactSizes /\ lut = identity_lut(lut_for)

KernelKnown ==
    \E size \in Nat : kernel = build_kernel(size) /\ (ready => size = config.kernel_size)

PassInv ==
    /\ effect \in PassEffect /\ config \in PassConfigs[effect]
    /\ effect = "Lut" => TableKnown
    /\ effect = "Ssao" => KernelKnown

(* Blending moves a channel towards the entry and not beyond it, and not *)
(* at all at intensity zero.                                             *)
LEMMA BlendShape ==
    ASSUME NEW v \in Int, NEW w \in Int \ {NaN}, NEW h \in 0..2
    PROVE  /\ Blend(v, w, h) \in Int /\ Apart(v, Blend(v, w, h)) <= Apart(v, w)
           /\ Apart(v, Blend(v, w, h)) \in Nat /\ Apart(v, w) \in Nat
           /\ (h = 0 \/ w = v) => Blend(v, w, h) = v
           /\ v \in 0..One /\ w \in 0..One => Blend(v, w, h) \in 0..One
<1>1. h = 0 \/ h = 1 \/ h = 2
    OBVIOUS
<1>2. Blend(v, w, h) = v + ((w - v) * h) \div 2
    BY DEF Blend
<1> DEFINE u == ((w - v) * h) \div 2
<1>3. u \in Int /\ (h = 0 => u = 0) /\ (w = v => u = 0)
    BY <1>1
<1>4. IF w - v < 0 THEN w - v <= u /\ u <= 0 ELSE 0 <= u /\ u <= w - v
    BY <1>1
<1> HIDE DEF u
<1>5. Blend(v, w, h) = v + u
    BY <1>2 DEF u
<1>6. v \in 0..One /\ w \in 0..One => v + u \in 0..One
    <2>1. One \in Nat
        BY SizesShape
    <2> QED  BY <1>3, <1>4, <2>1
<1> QED  BY <1>3, <1>4, <1>5, <1>6 DEF Apart

LEMMA PixelShape ==
    ASSUME NEW c \in Pixels
    PROVE  /\ c[1] \in Int /\ c[2] \in Int /\ c[3] \in Int
           /\ \A i \in 1..3 : c[i] \in Int
           /\ c = [i \in 1..3 |-> c[i]]
BY DEF Pixels

(* Graded by a table of its size, a pixel of the lattice stays and others *)
(* move by half a step at most.                                          *)
LEMMA GradedOwn ==
    ASSUME NEW n \in ExactSizes, n > 1, NEW c \in Pixels, NEW h \in 0..2,
           n * n * n <= U32Values, ~ Refuses(n)
    PROVE  LET graded == apply_lut(c, n, h, identity_lut(n))
           IN  /\ (\A i \in 1..3 : c[i] \in Lattice(n)) => graded = c
               /\ (\A i \in 1..3 : c[i] \in 0..One) =>
                     \A i \in 1..3 :
                        graded[i] \in Int /\ 2 * (n - 1) * Apart(c[i], graded[i]) <= One
<1> DEFINE graded == apply_lut(c, n, h, identity_lut(n))
           value(i) == Value(n, Nearest(n, c[i]))
<1>1. n \in Nat /\ \A i \in 1..3 : c[i] \in Int
    BY PixelShape, SizesShape
<1>2. \A i \in 1..3 : value(i) \in Int \ {NaN}
    <2>1. ASSUME NEW i \in 1..3
          PROVE  value(i) \in Int \ {NaN}
        <3>1. Nearest(n, c[i]) \in 0..n - 1
            <4>1. Nearest(n, c[i]) \in Nat /\ Nearest(n, c[i]) < n
                BY <1>1, NearestShape
            <4> QED  BY <1>1, <4>1
        <3>2. value(i) \in 0..One
            BY <3>1, ValueShape
        <3> HIDE DEF value
        <3> QED  BY <3>2, SizesShape
    <2> QED  BY <2>1
<1>3. graded = [i \in 1..3 |-> Blend(c[i], value(i), h)]
    <2>1. /\ Len(identity_lut(n)) = n * n * n /\ n * n * n \in Nat
          /\ Place(n, c) \in 1..n * n * n
        BY <1>1, IdentityShape, EntryIn
    <2>2. ~ Short(n, identity_lut(n)) /\ ~ (Place(n, c) > Len(identity_lut(n)))
        <3> DEFINE t == n * n * n
        <3>1. t \in Nat /\ Len(identity_lut(n)) = t /\ Place(n, c) \in 1..t
            BY <2>1
        <3>2. t <= Len(identity_lut(n)) /\ Len(identity_lut(n)) \in Nat
            <4> HIDE DEF t
            <4> QED  BY <3>1
        <3>3. ~ Short(n, identity_lut(n))
            BY <1>1, <3>2, ShortShape
        <3> HIDE DEF t
        <3> QED  BY <3>1, <3>3
    <2>3. graded = [i \in 1..3 |-> Blend(c[i], identity_lut(n)[Place(n, c)][i], h)]
        BY <2>2, GradedShape
    <2>4. identity_lut(n)[Place(n, c)] = [i \in 1..3 |-> value(i)]
        BY IdentityEntry
    <2>5. \A i \in 1..3 : identity_lut(n)[Place(n, c)][i] = value(i)
        <3> HIDE DEF value
        <3> QED  BY <2>4
    <2> HIDE DEF value, graded
    <2> QED  BY <2>3, <2>5
<1>4. \A i \in 1..3 : graded[i] = Blend(c[i], value(i), h)
    <2> HIDE DEF value, graded
    <2> QED  BY <1>3
<1>5. ASSUME \A i \in 1..3 : c[i] \in 0..One, NEW i \in 1..3
      PROVE  graded[i] \in Int /\ 2 * (n - 1) * Apart(c[i], graded[i]) <= One
    <2>1. 2 * (n - 1) * Apart(c[i], value(i)) <= One
        BY <1>5, NearestValue
    <2> HIDE DEF value, graded
    <2>2. /\ graded[i] \in Int /\ Apart(c[i], graded[i]) <= Apart(c[i], value(i))
          /\ Apart(c[i], graded[i]) \in Nat /\ Apart(c[i], value(i)) \in Nat
        <3> DEFINE v == c[i]
                   w == value(i)
        <3>1. v \in Int /\ w \in Int \ {NaN} /\ graded[i] = Blend(v, w, h)
            BY <1>1, <1>2, <1>4
        <3> HIDE DEF v, w
        <3>2. /\ Blend(v, w, h) \in Int /\ Apart(v, Blend(v, w, h)) <= Apart(v, w)
              /\ Apart(v, Blend(v, w, h)) \in Nat /\ Apart(v, w) \in Nat
            BY <3>1, BlendShape
        <3>3. /\ graded[i] \in Int /\ Apart(v, graded[i]) <= Apart(v, w)
              /\ Apart(v, graded[i]) \in Nat /\ Apart(v, w) \in Nat
            BY <3>1, <3>2
        <3> QED  BY <3>3 DEF v, w
    <2> DEFINE a == Apart(c[i], graded[i])
               b == Apart(c[i], value(i))
    <2> HIDE DEF a, b
    <2>3. a \in Nat /\ b \in Nat /\ a <= b /\ 2 * (n - 1) * b <= One
        BY <2>1, <2>2 DEF a, b
    <2>4. 2 * (n - 1) * a <= 2 * (n - 1) * b
        <3>1. 2 * (n - 1) \in Nat
            BY <1>1
        <3>2. \A m \in Nat : m * a <= m * b
            BY <2>3
        <3> QED  BY <3>1, <3>2
    <2>5. 2 * (n - 1) * a <= One
        <3>1. 2 * (n - 1) * a \in Int /\ 2 * (n - 1) * b \in Int /\ One \in Int
            BY <1>1, <2>3, SizesShape
        <3> QED  BY <2>3, <2>4, <3>1
    <2> QED  BY <2>2, <2>5 DEF a
<1>6. ASSUME \A i \in 1..3 : c[i] \in Lattice(n)
      PROVE  graded = c
    <2>1. \A i \in 1..3 : c[i] \in 0..One
        <3>1. \A v \in Lattice(n) : \E j \in 0..n - 1 : v = Value(n, j)
            BY DEF Lattice, Value
        <3>2. \A j \in 0..n - 1 : Value(n, j) \in 0..One
            BY ValueShape
        <3> QED  BY <1>6, <3>1, <3>2
    <2>2. \A i \in 1..3 : value(i) = c[i]
        BY <1>6, <2>1, NearestValue
    <2> HIDE DEF value, graded
    <2>3. \A i \in 1..3 : Blend(c[i], value(i), h) = c[i]
        BY <1>1, <1>2, <2>2, BlendShape
    <2>4. graded = [i \in 1..3 |-> c[i]]
        BY <1>3, <2>3
    <2> QED  BY <2>4, PixelShape
<1> HIDE DEF graded
<1> QED  BY <1>5, <1>6 DEF graded

(* A table of finite entries does nothing at intensity zero.             *)
FiniteTable(table) ==
    Len(table) \in Nat /\ \A k \in 1..Len(table), i \in 1..3 : table[k][i] \in Int \ {NaN}

LEMMA GradedNothing ==
    ASSUME NEW c \in Pixels, NEW table, FiniteTable(table), NEW k \in 1..Len(table)
    PROVE  [i \in 1..3 |-> Blend(c[i], table[k][i], 0)] = c
<1>1. \A i \in 1..3 : Blend(c[i], table[k][i], 0) = c[i]
    <2>1. \A i \in 1..3 : c[i] \in Int /\ table[k][i] \in Int \ {NaN}
        BY PixelShape DEF FiniteTable
    <2>2. 0 \in 0..2
        OBVIOUS
    <2> QED  BY <2>1, <2>2, BlendShape
<1>2. [i \in 1..3 |-> Blend(c[i], table[k][i], 0)] = [i \in 1..3 |-> c[i]]
    BY <1>1
<1> QED  BY <1>2, PixelShape

(* The tables of two or more keep to the range of the colours.           *)
RangedTable(table) == \A k \in 1..Len(table), i \in 1..3 : table[k][i] \in 0..One

LEMMA TablesRanged ==
    ASSUME NEW n \in ExactSizes, n > 1
    PROVE  RangedTable(identity_lut(n))
<1>1. n \in Nat /\ n * n * n \in Nat /\ Len(identity_lut(n)) = n * n * n
    BY IdentityShape
<1>2. ASSUME NEW k \in 1..n * n * n, NEW i \in 1..3
      PROVE  identity_lut(n)[k][i] \in 0..One
    <2> DEFINE a == (k - 1) % n
               b == ((k - 1) \div n) % n
               d == (k - 1) \div (n * n)
    <2>1. a \in 0..n - 1 /\ b \in 0..n - 1 /\ d \in 0..n - 1
        <3> DEFINE m == k - 1
        <3>1. m \in Nat /\ m < n * n * n
            <4> DEFINE t == n * n * n
            <4>1. t \in Nat /\ k \in 1..t
                BY <1>1
            <4> HIDE DEF t
            <4>2. m \in Nat /\ m < t
                BY <4>1
            <4> QED  BY <4>2 DEF t
        <3>2. n > 0
            BY <1>1
        <3> HIDE DEF m
        <3>3. m % n \in 0..n - 1 /\ (m \div n) % n \in 0..n - 1 /\ m \div (n * n) \in 0..n - 1
            BY <1>1, <3>1, <3>2, EntryIndices, Zenon
        <3> QED  BY <3>3 DEF m
    <2>2. identity_lut(n)[k] = <<Value(n, a), Value(n, b), Value(n, d)>>
        BY <1>1 DEF identity_lut, Value
    <2> HIDE DEF a, b, d
    <2>3. Value(n, a) \in 0..One /\ Value(n, b) \in 0..One /\ Value(n, d) \in 0..One
        BY <2>1, ValueShape
    <2>4. i = 1 \/ i = 2 \/ i = 3
        OBVIOUS
    <2> QED  BY <2>2, <2>3, <2>4
<1> QED  BY <1>1, <1>2 DEF RangedTable

(* The caller's table is finite, and so is every other but that of one.  *)
LEMMA TablesFinite ==
    /\ FiniteTable(CustomLut)
    /\ \A n \in ExactSizes : n # 1 => FiniteTable(identity_lut(n))
<1>1. FiniteTable(CustomLut)
    <2> DEFINE S == (Int \ {NaN}) \X (Int \ {NaN}) \X (Int \ {NaN})
    <2>1. CustomLut \in Seq(S)
        BY PassAssumption
    <2>2. \A e \in S, i \in 1..3 : e[i] \in Int \ {NaN}
        <3>1. \A i \in 1..3 : i = 1 \/ i = 2 \/ i = 3
            OBVIOUS
        <3>2. \A e \in S : e[1] \in Int \ {NaN} /\ e[2] \in Int \ {NaN} /\ e[3] \in Int \ {NaN}
            OBVIOUS
        <3> HIDE DEF S
        <3> QED  BY <3>1, <3>2
    <2> HIDE DEF S
    <2>3. Len(CustomLut) \in Nat /\ \A k \in 1..Len(CustomLut) : CustomLut[k] \in S
        BY <2>1
    <2> QED  BY <2>2, <2>3 DEF FiniteTable
<1>2. ASSUME NEW n \in ExactSizes, n # 1
      PROVE  FiniteTable(identity_lut(n))
    <2>1. n \in Nat /\ n * n * n \in Nat /\ Len(identity_lut(n)) = n * n * n
        BY IdentityShape
    <2>2. CASE n = 0
        BY <2>1, <2>2 DEF FiniteTable
    <2>3. CASE n > 1
        <3>1. RangedTable(identity_lut(n))
            BY <2>3, TablesRanged
        <3>2. \A v \in 0..One : v \in Int \ {NaN}
            BY SizesShape
        <3> QED  BY <2>1, <3>1, <3>2 DEF RangedTable, FiniteTable
    <2> QED  BY <1>2, <2>1, <2>2, <2>3
<1> QED  BY <1>1, <1>2

(* The table of the pass, and when it is too short for the size.         *)
LEMMA TableShape ==
    ASSUME TableKnown
    PROVE  Len(lut) \in Nat /\ (lut = << >> <=> Len(lut) = 0)
<1>1. CASE lut = CustomLut
    BY <1>1, PassAssumption
<1>2. CASE lut_for \in ExactSizes /\ lut = identity_lut(lut_for)
    <2>1. /\ lut_for \in Nat /\ lut_for * lut_for * lut_for \in Nat
          /\ Len(lut) = lut_for * lut_for * lut_for /\ (lut = << >> <=> lut_for = 0)
        BY <1>2, IdentityShape
    <2>2. lut_for * lut_for * lut_for = 0 <=> lut_for = 0
        BY <2>1, Cubes
    <2> QED  BY <2>1, <2>2
<1> QED  BY <1>1, <1>2 DEF TableKnown

(* Where the number of floats is a u32: every conjunct of the property.  *)
LEMMA GradingKept ==
    ASSUME TableKnown, config.lut_size \in ExactSizes, config.halves \in 0..2,
           ~ Overflows(config.lut_size), NEW c \in Pixels
    PROVE  /\ Graded(c) = Panic <=> config.lut_size = 0 /\ lut = << >>
           /\ lut_for \in 0..config.lut_size - 1 => Graded(c) = c
           /\ (lut_for > 1 /\ \A i \in 1..3 : c[i] \in 0..One) =>
                 \A i \in 1..3 : Graded(c)[i] \in 0..One
           /\ (config.halves = 0 /\ lut_for # 1 /\ lut # << >>) => Graded(c) = c
<1> DEFINE n == config.lut_size
           h == config.halves
           k == Place(n, c)
           t == n * n * n
           l == Len(lut)
           mixed == [i \in 1..3 |-> Blend(c[i], lut[k][i], h)]
<1>1. n \in ExactSizes /\ n \in Nat /\ h \in 0..2 /\ ~ Overflows(n)
    BY SizesShape
<1>2. Graded(c) = apply_lut(c, n, h, lut)
    BY DEF Graded
<1>3. l \in Nat /\ (lut = << >> <=> l = 0)
    BY TableShape
<1> HIDE DEF n, h
<1>4. t <= U32Values /\ (Short(n, lut) <=> l < t)
    BY <1>1, <1>3, ShortShape
<1>5. k \in Nat /\ t \in Nat /\ IF n = 0 THEN k = 1 ELSE k \in 1..t
    BY <1>1, EntryIn
<1>6. n = 0 => t = 0
    BY <1>1, Cubes
<1>7. apply_lut(c, n, h, lut) = IF Short(n, lut) THEN c ELSE IF k > l THEN Panic ELSE mixed
    <2>1. ~ Refuses(n)
        BY <1>1 DEF Refuses
    <2> QED  BY <1>1, <1>4, <2>1, GradedShape
<1>8. c # Panic /\ mixed # Panic
    BY PixelNoPanic
<1> HIDE DEF k, t, l, mixed
<1>9. \/ Graded(c) = c /\ l < t
      \/ Graded(c) = Panic /\ n = 0 /\ lut = << >>
      \/ Graded(c) = mixed /\ ~ (l < t) /\ k \in 1..l
    <2>1. CASE l < t
        BY <1>2, <1>4, <1>7, <2>1
    <2>2. CASE ~ (l < t) /\ k > l
        <3>1. n = 0 /\ l = 0
            BY <1>3, <1>5, <2>2
        <3> QED  BY <1>2, <1>3, <1>4, <1>7, <2>2, <3>1
    <2>3. CASE ~ (l < t) /\ ~ (k > l)
        <3>1. k \in 1..l
            BY <1>3, <1>5, <2>3
        <3> QED  BY <1>2, <1>4, <1>7, <2>3, <3>1
    <2> QED  BY <2>1, <2>2, <2>3
<1>10. Graded(c) = Panic <=> n = 0 /\ lut = << >>
    <2>1. n = 0 /\ lut = << >> => ~ (l < t) /\ ~ (k \in 1..l)
        BY <1>3, <1>6
    <2> QED  BY <1>8, <1>9, <2>1
<1>11. ASSUME lut_for \in 0..n - 1
       PROVE  Graded(c) = c
    <2>1. lut_for \in ExactSizes /\ lut = identity_lut(lut_for) /\ lut_for < n /\ lut_for \in Nat
        BY <1>1, <1>11 DEF TableKnown, Custom
    <2>2. l = lut_for * lut_for * lut_for /\ lut_for * lut_for * lut_for < t
        BY <1>1, <2>1, CubesGrow, IdentityShape DEF l, t
    <2>3. n # 0
        BY <2>1
    <2> QED  BY <1>9, <2>2, <2>3
<1>12. ASSUME lut_for > 1, \A i \in 1..3 : c[i] \in 0..One, NEW i \in 1..3
       PROVE  Graded(c)[i] \in 0..One
    <2>1. lut_for \in ExactSizes /\ lut = identity_lut(lut_for)
        BY <1>12 DEF TableKnown, Custom
    <2>2. RangedTable(lut) /\ lut # << >>
        <3>1. lut_for # 0
            BY <1>12
        <3> QED  BY <1>12, <2>1, <3>1, TablesRanged, IdentityShape
    <2>3. CASE Graded(c) = c
        BY <1>12, <2>3
    <2>4. CASE Graded(c) = mixed /\ k \in 1..l
        <3> DEFINE v == c[i]
                   w == lut[k][i]
        <3>1. v \in 0..One /\ w \in 0..One
            BY <1>12, <2>2, <2>4 DEF RangedTable, l
        <3>2. Graded(c)[i] = Blend(v, w, h)
            BY <2>4 DEF mixed
        <3> HIDE DEF v, w
        <3>3. v \in Int /\ w \in Int \ {NaN}
            BY <3>1, SizesShape
        <3>4. Blend(v, w, h) \in 0..One
            BY <1>1, <3>1, <3>3, BlendShape
        <3> QED  BY <3>2, <3>4
    <2> QED  BY <1>9, <2>2, <2>3, <2>4
<1>13. ASSUME h = 0, lut_for # 1, lut # << >>
       PROVE  Graded(c) = c
    <2>1. FiniteTable(lut)
        BY <1>13, TablesFinite DEF TableKnown
    <2>2. k \in 1..l => mixed = c
        <3> SUFFICES ASSUME k \in 1..l PROVE mixed = c
            OBVIOUS
        <3>1. k \in 1..Len(lut)
            BY DEF l
        <3>2. [i \in 1..3 |-> Blend(c[i], lut[k][i], 0)] = c
            BY <2>1, <3>1, GradedNothing
        <3> QED  BY <1>13, <3>2 DEF mixed
    <2> QED  BY <1>9, <1>13, <2>2
<1> QED  BY <1>10, <1>11, <1>12, <1>13 DEF n, h

(* The identity table of the configured size is neutral.                 *)
LEMMA NeutralKept ==
    ASSUME TableKnown, config.lut_size \in ExactSizes, config.halves \in 0..2,
           lut_for = config.lut_size, config.lut_size > 1, ~ Refuses(config.lut_size),
           config.lut_size * config.lut_size * config.lut_size <= U32Values, NEW c \in Pixels
    PROVE  Neutral(c, config.lut_size)
<1> DEFINE n == config.lut_size
           h == config.halves
<1>1. n \in ExactSizes /\ n \in Nat /\ h \in 0..2 /\ n > 1 /\ lut_for = n
      /\ ~ Refuses(n) /\ n * n * n <= U32Values
    BY SizesShape
<1>2. Graded(c) = apply_lut(c, n, h, lut)
    BY DEF Graded
<1> HIDE DEF n, h
<1>3. lut = identity_lut(n)
    BY <1>1 DEF TableKnown, Custom
<1>4. /\ (\A i \in 1..3 : c[i] \in Lattice(n)) => Graded(c) = c
      /\ (\A i \in 1..3 : c[i] \in 0..One) =>
            \A i \in 1..3 :
               Graded(c)[i] \in Int /\ 2 * (n - 1) * Apart(c[i], Graded(c)[i]) <= One
    BY <1>1, <1>2, <1>3, GradedOwn
<1>5. ASSUME \A i \in 1..3 : c[i] \in 0..One, NEW i \in 1..3
      PROVE  2 * (n - 1) * Apart(c[i], Graded(c)[i]) <= One + 2 * (n - 1)
    <2> DEFINE a == Apart(c[i], Graded(c)[i])
    <2>1. a \in Int /\ 2 * (n - 1) * a <= One
        BY <1>4, <1>5, PixelShape DEF Apart
    <2> HIDE DEF a
    <2>2. 2 * (n - 1) * a \in Int /\ 2 * (n - 1) \in Nat /\ One \in Int
        BY <1>1, <2>1, SizesShape
    <2>3. 2 * (n - 1) * a <= One + 2 * (n - 1)
        BY <2>1, <2>2
    <2> QED  BY <2>3 DEF a
<1>6. Neutral(c, n)
    BY <1>4, <1>5 DEF Neutral, Apart
<1> QED  BY <1>6 DEF n

LEMMA GradingFollows ==
    ASSUME PassInv
    PROVE  GradingNeutral
<1> SUFFICES ASSUME effect = "Lut", NEW c \in Colours \X Colours \X Colours
             PROVE  LET n == config.lut_size
                    IN  /\ ~Overflows(n) =>
                             /\ Graded(c) = Panic <=> n = 0 /\ lut = << >>
                             /\ lut_for \in 0..n - 1 => Graded(c) = c
                             /\ (lut_for > 1 /\ \A i \in 1..3 : c[i] \in 0..One) =>
                                  \A i \in 1..3 : Graded(c)[i] \in 0..One
                             /\ (config.halves = 0 /\ lut_for # 1 /\ lut # << >>) => Graded(c) = c
                        /\ (Overflows(n) /\ overflow_checks) => Graded(c) = Panic
                        /\ (/\ lut_for = n /\ n > 1
                            /\ ~(Overflows(n) /\ overflow_checks) /\ n * n * n <= U32Values)
                              => Neutral(c, n)
    BY DEF GradingNeutral
<1> DEFINE n == config.lut_size
<1>1. n \in ExactSizes /\ config.halves \in 0..2 /\ TableKnown
    <2>1. config \in PassConfigs["Lut"]
        BY DEF PassInv
    <2> QED  BY <2>1, PassAssumption DEF PassInv
<1>2. c \in Pixels
    BY PassAssumption DEF Pixels
<1>3. (Overflows(n) /\ overflow_checks) => Graded(c) = Panic
    BY DEF Graded, apply_lut
<1>4. (/\ lut_for = n /\ n > 1 /\ ~ Refuses(n) /\ n * n * n <= U32Values) => Neutral(c, n)
    BY <1>1, <1>2, NeutralKept
<1>5. ~ Overflows(n) =>
         /\ Graded(c) = Panic <=> n = 0 /\ lut = << >>
         /\ lut_for \in 0..n - 1 => Graded(c) = c
         /\ (lut_for > 1 /\ \A i \in 1..3 : c[i] \in 0..One) =>
              \A i \in 1..3 : Graded(c)[i] \in 0..One
         /\ (config.halves = 0 /\ lut_for # 1 /\ lut # << >>) => Graded(c) = c
    BY <1>1, <1>2, GradingKept
<1> QED  BY <1>3, <1>4, <1>5 DEF Refuses

---------------------------------------------------------------------------
(* The sizes of a configuration are those of its effect.                 *)
LEMMA ConfigSizes ==
    ASSUME effect \in PassEffect, config \in PassConfigs[effect]
    PROVE  /\ effect = "Lut" => config.lut_size \in ExactSizes
           /\ effect = "Ssao" => config.kernel_size \in Nat
<1>1. ASSUME effect = "Lut"
      PROVE  config.lut_size \in ExactSizes
    <2>1. config \in PassConfigs["Lut"]
        BY <1>1
    <2> QED  BY <2>1, PassAssumption
<1>2. ASSUME effect = "Ssao"
      PROVE  config.kernel_size \in Nat
    <2>1. config \in PassConfigs["Ssao"]
        BY <1>2
    <2> QED  BY <2>1, PassAssumption
<1> QED  BY <1>1, <1>2

(* A kernel has as many samples as it was built for.                     *)
LEMMA KernelShape ==
    ASSUME NEW size \in Nat
    PROVE  /\ Len(build_kernel(size)) = size
           /\ \A i \in 1..size : build_kernel(size)[i] = <<i, size>>
           /\ size = 0 => build_kernel(size) = << >>
<1>1. DOMAIN build_kernel(size) = 1..size /\ Len(build_kernel(size)) = size
    BY DEF build_kernel
<1>2. \A i \in 1..size : build_kernel(size)[i] = <<i, size>>
    BY DEF build_kernel
<1>3. size = 0 => build_kernel(size) = << >>
    <2>1. size = 0 => 1..size = {}
        OBVIOUS
    <2> QED  BY <2>1 DEF build_kernel
<1> QED  BY <1>1, <1>2, <1>3

(* A pass that was disposed of has no table and no kernel: those of size *)
(* zero.                                                                 *)
LEMMA NothingBuilt ==
    0 \in ExactSizes /\ identity_lut(0) = << >> /\ build_kernel(0) = << >>
BY IdentityShape, KernelShape, SizesShape

(* A pass begins with what it was built for.                             *)
LEMMA PassBegin == PassInit => PassInv
<1> SUFFICES ASSUME PassInit PROVE PassInv
    OBVIOUS
<1>1. effect \in PassEffect /\ config \in PassConfigs[effect]
    BY DEF PassInit
<1>2. ASSUME effect = "Lut"
      PROVE  TableKnown
    BY <1>1, <1>2, ConfigSizes DEF PassInit, NewLut, WithLut, TableKnown
<1>3. ASSUME effect = "Ssao"
      PROVE  KernelKnown
    <2>1. config.kernel_size \in Nat /\ kernel = build_kernel(config.kernel_size)
        BY <1>1, <1>3, ConfigSizes DEF PassInit
    <2> QED  BY <2>1 DEF KernelKnown
<1> QED  BY <1>1, <1>2, <1>3 DEF PassInv

(* The table and the kernel are known whatever is called.                *)
LEMMA PassStep == PassInv /\ [PassNext]_passes => PassInv'
<1> SUFFICES ASSUME PassInv, [PassNext]_passes PROVE PassInv'
    OBVIOUS
<1>1. /\ effect \in PassEffect /\ config \in PassConfigs[effect]
      /\ effect = "Lut" => TableKnown
      /\ effect = "Ssao" => KernelKnown
    BY DEF PassInv
<1>2. ASSUME config_mut
      PROVE  PassInv'
    <2>1. effect' = effect /\ config' \in PassConfigs[effect] /\ ~ ready'
          /\ lut' = lut /\ lut_for' = lut_for /\ kernel' = kernel
        BY <1>2 DEF config_mut
    <2>2. effect = "Lut" => TableKnown'
        BY <1>1, <2>1 DEF TableKnown
    <2>3. effect = "Ssao" => KernelKnown'
        BY <1>1, <2>1 DEF KernelKnown
    <2> QED  BY <1>1, <2>1, <2>2, <2>3 DEF PassInv
<1>3. ASSUME set_lut
      PROVE  PassInv'
    <2>1. effect = "Lut" /\ effect' = effect /\ config' = config
          /\ lut' = CustomLut /\ lut_for' = Custom
        BY <1>3 DEF set_lut
    <2>2. TableKnown'
        BY <2>1 DEF TableKnown
    <2> QED  BY <1>1, <2>1, <2>2 DEF PassInv
<1>4. ASSUME on_setup
      PROVE  PassInv'
    <2>1. effect' = effect /\ config' = config
        BY <1>4 DEF on_setup
    <2>2. ASSUME effect = "Lut"
          PROVE  TableKnown'
        <3>1. config.lut_size \in ExactSizes
            BY <1>1, <2>2, ConfigSizes
        <3>2. SetUpLut
            BY <1>4, <2>2 DEF on_setup
        <3>3. CASE lut = << >>
            <4>1. lut' = identity_lut(config.lut_size) /\ lut_for' = config.lut_size
                BY <3>2, <3>3 DEF SetUpLut
            <4> QED  BY <3>1, <4>1 DEF TableKnown
        <3>4. CASE lut # << >>
            <4>1. lut' = lut /\ lut_for' = lut_for
                BY <3>2, <3>4 DEF SetUpLut
            <4> QED  BY <1>1, <2>2, <4>1 DEF TableKnown
        <3> QED  BY <3>3, <3>4
    <2>3. ASSUME effect = "Ssao"
          PROVE  KernelKnown'
        <3>1. config.kernel_size \in Nat
            BY <1>1, <2>3, ConfigSizes
        <3>2. PICK size \in Nat : kernel = build_kernel(size)
            BY <1>1, <2>3 DEF KernelKnown
        <3>3. Len(kernel) = size
            BY <3>2, KernelShape
        <3>4. kernel' = build_kernel(config.kernel_size)
            BY <1>4, <2>3, <3>2, <3>3 DEF on_setup, SetUpSsao
        <3> QED  BY <2>1, <3>1, <3>4 DEF KernelKnown
    <2> QED  BY <1>1, <2>1, <2>2, <2>3 DEF PassInv
<1>5. ASSUME on_dispose
      PROVE  PassInv'
    <2>1. effect' = effect /\ config' = config /\ ~ ready'
          /\ lut' = << >> /\ lut_for' = 0 /\ kernel' = << >>
        BY <1>5 DEF on_dispose
    <2>2. TableKnown'
        BY <2>1, NothingBuilt DEF TableKnown
    <2>3. KernelKnown'
        <3>1. 0 \in Nat
            OBVIOUS
        <3> QED  BY <2>1, <3>1, NothingBuilt DEF KernelKnown
    <2> QED  BY <1>1, <2>1, <2>2, <2>3 DEF PassInv
<1>6. ASSUME rebuild_kernel
      PROVE  PassInv'
    <2>1. effect = "Ssao" /\ effect' = effect /\ config' = config /\ config.kernel_size \in Nat
          /\ kernel' = build_kernel(config.kernel_size)
        BY <1>1, <1>6, ConfigSizes DEF rebuild_kernel
    <2>2. KernelKnown'
        BY <2>1 DEF KernelKnown
    <2> QED  BY <1>1, <2>1, <2>2 DEF PassInv
<1>7. ASSUME UNCHANGED <<effect, config, lut, lut_for, kernel, ready>>
      PROVE  PassInv'
    BY <1>1, <1>7 DEF PassInv, TableKnown, KernelKnown
<1>8. (\E shader, available : set_available(shader, available)) \/ UNCHANGED passes
         => UNCHANGED <<effect, config, lut, lut_for, kernel, ready>>
    BY DEF set_available, passes
<1> QED  BY <1>2, <1>3, <1>4, <1>5, <1>6, <1>7, <1>8 DEF PassNext

(* The samples of a kernel reach from the centre to the radius, and a    *)
(* pass that is ready has the kernel of its size.                        *)
LEMMA KernelFollows ==
    ASSUME PassInv
    PROVE  KernelCurrent
<1> SUFFICES ASSUME effect = "Ssao" PROVE KernelCurrent
    BY DEF KernelCurrent
<1>1. PICK size \in Nat : kernel = build_kernel(size) /\ (ready => size = config.kernel_size)
    BY DEF PassInv, KernelKnown
<1>2. Len(kernel) = size /\ \A i \in 1..size : kernel[i] = <<i, size>>
    BY <1>1, KernelShape
<1>3. ASSUME NEW i \in 1..Len(kernel)
      PROVE  /\ 0 < kernel[i][1] /\ kernel[i][1] <= kernel[i][2]
             /\ i = Len(kernel) => kernel[i][1] = kernel[i][2]
    <2>1. i \in 1..size /\ kernel[i][1] = i /\ kernel[i][2] = size
        BY <1>2
    <2> QED  BY <1>2, <2>1
<1> QED  BY <1>1, <1>2, <1>3 DEF KernelCurrent

(* Every effect, its descriptor and what the stack asks for it.          *)
LEMMA EffectsListed ==
    PassEffect = {"Ssao", "Ssgi", "Bloom", "Aces", "Vignette", "ChromaticAberration", "Lut"}
<1>1. DOMAIN describe_passes = 1..7
    BY DEF describe_passes
<1>2. /\ describe_passes[1][1] = "Ssao" /\ describe_passes[2][1] = "Ssgi"
      /\ describe_passes[3][1] = "Bloom" /\ describe_passes[4][1] = "Aces"
      /\ describe_passes[5][1] = "Vignette" /\ describe_passes[6][1] = "ChromaticAberration"
      /\ describe_passes[7][1] = "Lut"
    BY DEF describe_passes
<1>3. \A k \in 1..7 : k = 1 \/ k = 2 \/ k = 3 \/ k = 4 \/ k = 5 \/ k = 6 \/ k = 7
    OBVIOUS
<1> QED  BY <1>1, <1>2, <1>3 DEF PassEffect

LEMMA Descriptors ==
    /\ DescriptorOf("Ssao") = SsaoDescriptor /\ DescriptorOf("Ssgi") = SsgiDescriptor
    /\ DescriptorOf("Bloom") = BloomDescriptor /\ DescriptorOf("Aces") = AcesDescriptor
    /\ DescriptorOf("Vignette") = VignetteDescriptor
    /\ DescriptorOf("ChromaticAberration") = ChromaticDescriptor
    /\ DescriptorOf("Lut") = LutDescriptor
<1> DEFINE p == describe_passes
<1>1. /\ p[1][1] = "Ssao" /\ p[2][1] = "Ssgi" /\ p[3][1] = "Bloom" /\ p[4][1] = "Aces"
      /\ p[5][1] = "Vignette" /\ p[6][1] = "ChromaticAberration" /\ p[7][1] = "Lut"
      /\ p[1][2] = SsaoDescriptor /\ p[2][2] = SsgiDescriptor /\ p[3][2] = BloomDescriptor
      /\ p[4][2] = AcesDescriptor /\ p[5][2] = VignetteDescriptor
      /\ p[6][2] = ChromaticDescriptor /\ p[7][2] = LutDescriptor
      /\ DOMAIN p = 1..7
    BY DEF describe_passes
<1>2. \A k \in 1..7 : k = 1 \/ k = 2 \/ k = 3 \/ k = 4 \/ k = 5 \/ k = 6 \/ k = 7
    OBVIOUS
<1> HIDE DEF p
<1>3. \A k, l \in 1..7 : p[k][1] = p[l][1] => k = l
    BY <1>1, <1>2
<1>4. ASSUME NEW l \in 1..7
      PROVE  DescriptorOf(p[l][1]) = p[l][2]
    <2> DEFINE k == CHOOSE k \in DOMAIN p : p[k][1] = p[l][1]
    <2>1. k \in DOMAIN p /\ p[k][1] = p[l][1]
        BY <1>1
    <2> HIDE DEF k
    <2>2. k = l
        BY <1>1, <1>3, <2>1
    <2>3. DescriptorOf(p[l][1]) = p[k][2]
        BY DEF DescriptorOf, k, p
    <2> QED  BY <2>2, <2>3
<1>5. /\ DescriptorOf(p[1][1]) = p[1][2] /\ DescriptorOf(p[2][1]) = p[2][2]
      /\ DescriptorOf(p[3][1]) = p[3][2] /\ DescriptorOf(p[4][1]) = p[4][2]
      /\ DescriptorOf(p[5][1]) = p[5][2] /\ DescriptorOf(p[6][1]) = p[6][2]
      /\ DescriptorOf(p[7][1]) = p[7][2]
    BY <1>4
<1> QED  BY <1>1, <1>5

(* A pass asks for its descriptor, which the provider without variants   *)
(* has, and the stack for what that provider does not have.              *)
LEMMA VariantsFollow ==
    ASSUME PassInv
    PROVE  VariantsAsDescribed
<1>1. \/ effect = "Ssao" \/ effect = "Ssgi" \/ effect = "Bloom" \/ effect = "Aces"
      \/ effect = "Vignette" \/ effect = "ChromaticAberration" \/ effect = "Lut"
    BY EffectsListed DEF PassInv
<1>2. <<BloomDescriptor[1], quality_keyword("High")>> = BloomDescriptor
    BY DEF BloomDescriptor, quality_keyword
<1>3. validate_variants(effect) <=> DescriptorOf(effect) \notin refused
    <2>1. CASE effect = "Bloom"
        BY <1>2, <2>1, Descriptors DEF validate_variants, is_available
    <2>2. CASE effect # "Bloom"
        BY <2>2 DEF validate_variants, is_available
    <2> QED  BY <2>1, <2>2
<1>4. ASSUME refused = none_available
      PROVE  ~ supported(effect)
    <2>1. StackAsks(effect) \in none_available
        BY DEF none_available, PassInv
    <2> QED  BY <1>4, <2>1 DEF supported, is_available
<1>5. DescriptorOf(effect) \notin none_available
    <2> DEFINE asked == {"ScreenSpaceAO", "ScreenSpaceGI", "BrpBloom", "BrpACES", "Vignette",
                         "ChromaticAberration", "ColorGradingLUT"}
    <2>1. \A e \in PassEffect : StackAsks(e)[1] \in asked
        BY EffectsListed DEF StackAsks
    <2>2. DescriptorOf(effect)[1] \notin asked
        BY <1>1, Descriptors
        DEF SsaoDescriptor, SsgiDescriptor, BloomDescriptor, AcesDescriptor, VignetteDescriptor,
            ChromaticDescriptor, LutDescriptor
    <2> HIDE DEF asked
    <2> QED  BY <2>1, <2>2 DEF none_available
<1> QED  BY <1>3, <1>4, <1>5 DEF VariantsAsDescribed

---------------------------------------------------------------------------
(* The tone curve as a fraction, not yet cut at one.                     *)
Above(x) == 251 * (x * x) + 15 * x

Below(x) == 243 * (x * x) + 295 * x + 350

LEMMA CurveShape ==
    ASSUME NEW x \in Nat
    PROVE  /\ Above(x) \in Nat /\ Below(x) \in Nat /\ Below(x) > 0
           /\ aces_filmic(x) = IF Above(x) > Below(x) THEN <<1, 1>> ELSE <<Above(x), Below(x)>>
<1>1. x * x \in Nat
    OBVIOUS
<1>2. x * (251 * x + 3 * 5) = 251 * (x * x) + 15 * x
    OBVIOUS
<1>3. 243 * x * x + 59 * 5 * x + 14 * 25 = 243 * (x * x) + 295 * x + 350
    OBVIOUS
<1>4. Above(x) \in Nat /\ Below(x) \in Nat /\ Below(x) > 0
    BY <1>1 DEF Above, Below
<1> QED  BY <1>2, <1>3, <1>4 DEF Above, Below, aces_filmic

(* It rises.                                                             *)
LEMMA CurveCrossed ==
    ASSUME NEW p \in Nat, NEW q \in Nat, p <= q
    PROVE  Above(p) * Below(q) <= Above(q) * Below(p)
<1> DEFINE d == q - p
           a == p * p
           b == p * d
           e == d * d
<1>1. d \in Nat /\ q = p + d
    OBVIOUS
<1>2. a \in Nat /\ b \in Nat /\ e \in Nat
    BY <1>1
<1>3. q * q = a + 2 * b + e
    BY <1>1
<1> QED  BY <1>1, <1>2, <1>3 DEF Above, Below
LEMMA CurveRises ==
    ASSUME NEW p \in Nat, NEW q \in Nat, p <= q
    PROVE  AtMost(aces_filmic(p), aces_filmic(q))
<1> DEFINE a == Above(p)
           b == Below(p)
           d == Above(q)
           e == Below(q)
<1>1. /\ a \in Nat /\ b \in Nat /\ b > 0 /\ d \in Nat /\ e \in Nat /\ e > 0
      /\ aces_filmic(p) = IF a > b THEN <<1, 1>> ELSE <<a, b>>
      /\ aces_filmic(q) = IF d > e THEN <<1, 1>> ELSE <<d, e>>
    BY CurveShape
<1>2. a * e <= d * b
    BY CurveCrossed
<1> HIDE DEF a, b, d, e
<1>3. CASE a > b
    <2>1. d >= e
        <3>1. ASSUME d < e
              PROVE  FALSE
            <4>1. d * b <= e * b
                BY <1>1, <3>1
            <4>2. b * e < a * e
                BY <1>1, <1>3
            <4>3. e * b = b * e /\ a * e \in Int /\ d * b \in Int /\ e * b \in Int
                BY <1>1
            <4> QED  BY <1>2, <4>1, <4>2, <4>3
        <3> QED  BY <1>1, <3>1
    <2>2. CASE d > e
        BY <1>1, <1>3, <2>2 DEF AtMost
    <2>3. CASE ~ (d > e)
        <3>1. 1 * e <= d * 1
            BY <1>1, <2>1
        <3> QED  BY <1>1, <1>3, <2>3, <3>1 DEF AtMost
    <2> QED  BY <2>2, <2>3
<1>4. CASE ~ (a > b)
    <2>1. CASE d > e
        <3>1. a * 1 <= 1 * b
            BY <1>1, <1>4
        <3> QED  BY <1>1, <1>4, <2>1, <3>1 DEF AtMost
    <2>2. CASE ~ (d > e)
        BY <1>1, <1>2, <1>4, <2>2 DEF AtMost
    <2> QED  BY <2>1, <2>2
<1> QED  BY <1>3, <1>4

(* The distance of an exact offset is a number.                          *)
LEMMA DistanceShape ==
    ASSUME NEW p \in Offsets, NEW roundness \in Nat, Exact(p, roundness)
    PROVE  p[1] \in Int /\ p[2] \in Int /\ Distance(p, roundness) \in Nat
<1>1. p[1] \in Int /\ p[2] \in Int
    BY PassAssumption
<1> DEFINE square == p[1] * p[1] + roundness * p[2] * p[2]
<1>2. square \in Int
    BY <1>1
<1>3. \E k \in 0..square : k * k = square
    BY DEF Exact
<1>4. Distance(p, roundness) = CHOOSE k \in 0..square : k * k = square
    BY DEF Distance, Root
<1> HIDE DEF square
<1>5. (CHOOSE k \in 0..square : k * k = square) \in 0..square
    BY <1>3
<1>6. 0..square \subseteq Nat
    BY <1>2
<1> QED  BY <1>1, <1>4, <1>5, <1>6

(* The vignette is between all and none of its intensity, and more of it *)
(* farther out.                                                          *)
LEMMA VignetteShape ==
    ASSUME NEW c, NEW p \in Offsets, NEW q \in Offsets, NEW s \in Nat, NEW i \in Nat, NEW r \in Nat,
           c.smoothness = s, c.intensity = i, c.roundness = r, Exact(p, r), Exact(q, r)
    PROVE  /\ vignette_factor(c, p) \in 500 - 50 * i..500
           /\ Distance(p, r) <= Distance(q, r) => vignette_factor(c, q) <= vignette_factor(c, p)
<1> DEFINE d == Distance(p, r)
           e == Distance(q, r)
           x == Clamp(0, d * s, 50)
           y == Clamp(0, e * s, 50)
<1>1. vignette_factor(c, p) = 500 - x * i /\ vignette_factor(c, q) = 500 - y * i
    BY DEF vignette_factor
<1>2. d \in Nat /\ e \in Nat
    BY DistanceShape
<1> HIDE DEF d, e
<1>3. d * s \in Nat /\ e * s \in Nat /\ (d <= e => d * s <= e * s)
    BY <1>2
<1>4. x \in 0..50 /\ y \in 0..50 /\ (d <= e => x <= y)
    BY <1>3 DEF Clamp
<1> HIDE DEF x, y
<1>5. x * i \in Nat /\ y * i \in Nat /\ x * i <= 50 * i /\ (x <= y => x * i <= y * i)
    BY <1>4
<1> QED  BY <1>1, <1>4, <1>5 DEF d, e

(* Red and blue part by as much.                                         *)
LEMMA ChannelsPart ==
    ASSUME NEW c, NEW p \in Offsets, NEW i \in Nat, c.intensity = i, Exact(p, 1)
    PROVE  LET at == channel_offsets(c, p)
           IN  /\ at[1][1] + at[3][1] = 0 /\ at[1][2] + at[3][2] = 0
<1> DEFINE amount == Distance(p, 1) * i
           x == p[1] * amount
           y == p[2] * amount
<1>1. p[1] \in Int /\ p[2] \in Int /\ Distance(p, 1) \in Nat
    BY DistanceShape
<1>2. amount \in Nat
    BY <1>1
<1>3. channel_offsets(c, p) = << <<x, y>>, <<0, 0>>, <<-x, -y>> >>
    BY DEF channel_offsets
<1> HIDE DEF amount
<1>4. x \in Int /\ y \in Int
    BY <1>1, <1>2
<1> HIDE DEF x, y
<1>5. x + (-x) = 0 /\ y + (-y) = 0
    BY <1>4
<1> QED  BY <1>3, <1>4, <1>5

(* A square is no larger than the square of the bound.                   *)
LEMMA SquareBelow ==
    ASSUME NEW k \in Nat, NEW v \in Int, 0 <= v + k, v <= k
    PROVE  v * v \in 0..k * k
<1>1. \A p, q \in 0..k : p * q \in 0..k * k
    <2> SUFFICES ASSUME NEW p \in 0..k, NEW q \in 0..k PROVE p * q \in 0..k * k
        OBVIOUS
    <2>1. p * q \in Nat /\ p * q <= k * q /\ k * q <= k * k
        OBVIOUS
    <2> QED  BY <2>1
<1>2. CASE v >= 0
    BY <1>1, <1>2
<1>3. CASE v < 0
    <2>1. 0 - v \in 0..k /\ (0 - v) * (0 - v) = v * v
        BY <1>3
    <2> QED  BY <1>1, <2>1
<1> QED  BY <1>2, <1>3

(* A sample weighs between a third and all.                              *)
LEMMA WeightShape ==
    ASSUME NEW samples \in Nat \ {0}, NEW i \in 0..samples - 1
    PROVE  sample_weight(i, samples) \in 333..1000
<1> DEFINE t == ((2 * i + 1) * 1000) \div samples
           x == t - 1000
           y == 2 * ((i * 10166) % 1000) - 1000
           all == 1000 * 1000
           r == all + x * x + y * y
<1>1. t \in 0..1999
    <2> DEFINE a == (2 * i + 1) * 1000
    <2>1. a \in Nat /\ a < 2000 * samples
        OBVIOUS
    <2> HIDE DEF a
    <2> DEFINE w == a \div samples
               u == a % samples
    <2>2. w \in Nat /\ u \in 0..samples - 1 /\ a = samples * w + u
        BY <2>1
    <2> HIDE DEF w, u
    <2>3. ASSUME w >= 2000
          PROVE  FALSE
        <3>1. \A p, q \in Nat : p <= q => samples * p <= samples * q
            OBVIOUS
        <3>2. samples * 2000 <= samples * w
            BY <2>2, <2>3, <3>1
        <3> QED  BY <2>1, <2>2, <3>2
    <2> QED  BY <2>2, <2>3 DEF a, w
<1>2. x \in Int /\ x >= -1000 /\ x <= 1000
    <2> HIDE DEF t
    <2> QED  BY <1>1
<1>3. y \in Int /\ y >= -1000 /\ y <= 1000
    OBVIOUS
<1>4. all \in Nat /\ all > 0
    OBVIOUS
<1>5. sample_weight(i, samples) = (all * 1000) \div r
    BY DEF sample_weight
<1> HIDE DEF x, y
<1>6. x * x \in 0..all /\ y * y \in 0..all
    <2> DEFINE k == 1000
    <2>1. k \in Nat /\ 0 <= x + k /\ x <= k /\ 0 <= y + k /\ y <= k
        BY <1>2, <1>3
    <2>2. all = k * k
        OBVIOUS
    <2> HIDE DEF k, all
    <2> QED  BY <1>2, <1>3, <2>1, <2>2, SquareBelow
<1> HIDE DEF all
<1>7. r \in Nat /\ all <= r /\ r <= 3 * all
    BY <1>4, <1>6
<1> HIDE DEF r
<1>8. (all * 1000) \div r \in 333..1000
    <2> DEFINE a == all * 1000
               w == a \div r
               u == a % r
    <2>1. a \in Nat /\ r \in Nat \ {0}
        BY <1>4, <1>7
    <2>2. w \in Nat /\ u \in 0..r - 1 /\ a = r * w + u
        <3> HIDE DEF a
        <3> QED  BY <2>1
    <2> HIDE DEF w, u
    <2>3. ASSUME w <= 332
          PROVE  FALSE
        <3>1. r * w <= r * 332
            BY <2>1, <2>2, <2>3
        <3> QED  BY <1>4, <1>7, <2>1, <2>2, <3>1
    <2>4. ASSUME w >= 1001
          PROVE  FALSE
        <3>1. r * w >= r * 1001
            BY <2>1, <2>2, <2>4
        <3> QED  BY <1>4, <1>7, <2>1, <2>2, <3>1
    <2> QED  BY <2>2, <2>3, <2>4 DEF w
<1> QED  BY <1>5, <1>8

Summed(f, samples) ==
    /\ f[0] = 0
    /\ \A n \in 1..samples : f[n] = f[n - 1] + sample_weight(n - 1, samples)

Light(total, samples, intensity) ==
    Clamp(0, ((total \div samples) * intensity) \div 100, 1000)

SsgiSet(c, samples, intensity) == c.samples = samples /\ c.intensity = intensity

LightIn(c, intensity) ==
    compute_gi_contribution(c) \in (330 * intensity) \div 100..(1000 * intensity) \div 100

(* The light is the mean weight, at every sample as its recursion says.  *)
LEMMA LightSteps ==
    ASSUME NEW c, NEW N \in Nat \ {0}, NEW i, SsgiSet(c, N, i)
    PROVE  \E f \in [0..N -> Nat] :
              Summed(f, N) /\ compute_gi_contribution(c) = Light(f[N], N, i)
<1>0. c.samples = N /\ c.intensity = i
    BY DEF SsgiSet
<1> DEFINE step(n, x) == x + sample_weight(n - 1, N)
           next == [n \in 1..N |-> [x \in Nat |-> step(n, x)]]
           body(h) == [n \in 0..N |-> IF n = 0 THEN 0 ELSE step(n, h[n - 1])]
<1>1. ASSUME NEW n \in 1..N, NEW x \in Nat
      PROVE  step(n, x) \in Nat
    <2>1. n - 1 \in 0..N - 1
        OBVIOUS
    <2>2. sample_weight(n - 1, N) \in 333..1000
        BY <2>1, WeightShape
    <2> QED  BY <2>2
<1>2. next \in [1..N -> [Nat -> Nat]]
    <2> HIDE DEF step
    <2> QED  BY <1>1
<1>3. PICK f \in [0..N -> Nat] : Follows(f, N, 0, next)
    <2> HIDE DEF next
    <2>1. 0 \in Nat /\ N \in Nat
        OBVIOUS
    <2> QED  BY <1>2, <2>1, Recursion
<1>4. f[0] = 0 /\ \A n \in 1..N : f[n] = step(n, f[n - 1])
    <2>1. \A n \in 1..N : n - 1 \in 0..N /\ f[n - 1] \in Nat
        BY <1>3
    <2>2. \A n \in 1..N : next[n][f[n - 1]] = step(n, f[n - 1])
        <3> HIDE DEF step
        <3> QED  BY <2>1
    <2> HIDE DEF next, step
    <2> QED  BY <1>3, <2>2 DEF Follows
<1>5. f = body(f)
    <2>1. \A n \in 0..N : n = 0 \/ n \in 1..N
        OBVIOUS
    <2>2. \A n \in 0..N : f[n] = IF n = 0 THEN 0 ELSE step(n, f[n - 1])
        <3> HIDE DEF step
        <3> QED  BY <1>4, <2>1
    <2> HIDE DEF step
    <2> QED  BY <1>3, <2>2
<1> DEFINE g == CHOOSE h : h = body(h)
<1>6. g = body(g)
    <2> HIDE DEF body
    <2> QED  BY <1>5
<1>7. compute_gi_contribution(c) = Light(g[N], N, i)
    BY <1>0 DEF compute_gi_contribution, Light
<1>8. \A n \in 0..N : g[n] = f[n]
    <2> DEFINE S == {n \in 0..N : g[n] = f[n]}
    <2>0. g[0] = 0 /\ \A n \in 1..N : g[n] = step(n, g[n - 1])
        <3>1. \A h : body(h)[0] = 0
            OBVIOUS
        <3>2. \A h : \A n \in 1..N : body(h)[n] = step(n, h[n - 1])
            <4> HIDE DEF step
            <4>1. \A n \in 1..N : n \in 0..N /\ n # 0
                OBVIOUS
            <4> QED  BY <4>1
        <3> HIDE DEF g, body, step
        <3> QED  BY <1>6, <3>1, <3>2
    <2> HIDE DEF g, body
    <2>1. 0 \in S
        BY <1>4, <2>0
    <2>2. ASSUME NEW n \in 0..N - 1, n \in S
          PROVE  n + 1 \in S
        <3>1. n + 1 \in 1..N /\ n + 1 \in 0..N /\ (n + 1) - 1 = n
            OBVIOUS
        <3>2. g[n + 1] = step(n + 1, g[n]) /\ f[n + 1] = step(n + 1, f[n])
            <4> HIDE DEF step
            <4> QED  BY <3>1, <1>4, <2>0
        <3> HIDE DEF step
        <3> QED  BY <2>2, <3>1, <3>2
    <2>3. 0..N \subseteq S
        <3> HIDE DEF S
        <3>1. N \in Nat
            OBVIOUS
        <3> QED  BY <2>1, <2>2, <3>1, UpTo
    <2> QED  BY <2>3
<1>9. N \in 0..N
    OBVIOUS
<1>10. Summed(f, N) /\ compute_gi_contribution(c) = Light(f[N], N, i)
    <2> HIDE DEF g, body, next
    <2> QED  BY <1>4, <1>7, <1>8, <1>9 DEF Summed
<1> QED  BY <1>3, <1>10

(* The indirect light is between a third of its intensity and all of it. *)
LEMMA LightShape ==
    ASSUME NEW c, NEW N \in Nat \ {0}, NEW i \in 0..100, SsgiSet(c, N, i)
    PROVE  LightIn(c, i)
<1>1. PICK f \in [0..N -> Nat] :
         Summed(f, N) /\ compute_gi_contribution(c) = Light(f[N], N, i)
    BY LightSteps
<1> DEFINE S == {n \in 0..N : f[n] \in 333 * n..1000 * n}
<1>2. 0 \in S
    BY <1>1 DEF Summed
<1>3. ASSUME NEW n \in 0..N - 1, n \in S
      PROVE  n + 1 \in S
    <2>1. n + 1 \in 1..N /\ (n + 1) - 1 = n /\ n + 1 \in 0..N
        OBVIOUS
    <2>2. f[n + 1] = f[n] + sample_weight(n, N)
        BY <1>1, <2>1 DEF Summed
    <2>3. sample_weight(n, N) \in 333..1000
        BY WeightShape
    <2>4. f[n] \in 333 * n..1000 * n
        BY <1>3
    <2>5. f[n + 1] \in 333 * (n + 1)..1000 * (n + 1)
        <3> DEFINE a == f[n]
                   w == sample_weight(n, N)
        <3>1. f[n + 1] = a + w
            BY <2>2
        <3>2. w \in 333..1000
            BY <2>3
        <3>3. a \in 333 * n..1000 * n
            BY <2>4
        <3> HIDE DEF a, w, S
        <3>4. a + w \in 333 * (n + 1)..1000 * (n + 1)
            BY <3>2, <3>3
        <3> QED  BY <3>1, <3>4
    <2> QED  BY <2>1, <2>5
<1>4. f[N] \in 333 * N..1000 * N
    <2>1. N \in Nat /\ N \in 0..N
        OBVIOUS
    <2>2. 0..N \subseteq S
        <3> HIDE DEF S
        <3> QED  BY <1>2, <1>3, <2>1, UpTo
    <2> QED  BY <2>1, <2>2
<1> DEFINE a == f[N]
           m == a \div N
<1> HIDE DEF a
<1>5. m \in 333..1000
    <2>1. a \in 333 * N..1000 * N
        BY <1>4 DEF a
    <2>2. m \in Nat /\ a % N \in 0..N - 1 /\ a = N * m + (a % N)
        BY <2>1
    <2> HIDE DEF m
    <2>3. ASSUME m <= 332
          PROVE  FALSE
        <3>1. N * m <= N * 332
            BY <2>2, <2>3
        <3> QED  BY <2>1, <2>2, <3>1
    <2>4. ASSUME m >= 1001
          PROVE  FALSE
        <3>1. N * m >= N * 1001
            BY <2>2, <2>4
        <3> QED  BY <2>1, <2>2, <3>1
    <2> QED  BY <2>2, <2>3, <2>4
<1>6. compute_gi_contribution(c) = Clamp(0, (m * i) \div 100, 1000)
    BY <1>1 DEF Light, a
<1> HIDE DEF m
<1>7. m * i \in Nat /\ 330 * i <= m * i /\ m * i <= 1000 * i /\ 1000 * i <= 1000 * 100
    BY <1>5
<1> DEFINE b == m * i
<1> HIDE DEF b
<1>8. b \in Nat /\ 330 * i <= b /\ b <= 1000 * i
    BY <1>7 DEF b
<1>9. b \div 100 \in (330 * i) \div 100..(1000 * i) \div 100 /\ b \div 100 <= 1000
    BY <1>8
<1>10. Clamp(0, b \div 100, 1000) = b \div 100
    BY <1>8, <1>9 DEF Clamp
<1> QED  BY <1>6, <1>9, <1>10 DEF b, LightIn

(* The effects keep to their ranges.                                     *)
LEMMA EffectsFollow ==
    ASSUME PassInv
    PROVE  EffectsInRange
<1>1. config \in PassConfigs[effect]
    BY DEF PassInv
<1>2. CASE effect = "Aces"
    <2>1. config.exposure \in Nat
        <3>1. config \in PassConfigs["Aces"]
            BY <1>1, <1>2
        <3> QED  BY <3>1, PassAssumption
    <2>2. ASSUME NEW x \in Exposures, NEW y \in Exposures, x <= y
          PROVE  AtMost(aces_filmic(x * config.exposure), aces_filmic(y * config.exposure))
        <3> DEFINE e == config.exposure
        <3> HIDE DEF e
        <3>1. x \in Nat /\ y \in Nat /\ e \in Nat
            BY <2>1, PassAssumption DEF e
        <3>2. x * e \in Nat /\ y * e \in Nat /\ x * e <= y * e
            BY <2>2, <3>1
        <3>3. AtMost(aces_filmic(x * e), aces_filmic(y * e))
            BY <3>2, CurveRises
        <3> QED  BY <3>3 DEF e
    <2> QED  BY <1>2, <2>2 DEF EffectsInRange
<1>3. CASE effect = "Vignette"
    <2>1. /\ config.smoothness \in Nat /\ config.intensity \in Nat /\ config.roundness \in Nat
          /\ \A p \in Offsets : Exact(p, config.roundness)
        <3>1. config \in PassConfigs["Vignette"]
            BY <1>1, <1>3
        <3> QED  BY <3>1, PassAssumption
    <2>2. \A p, q \in Offsets :
             /\ vignette_factor(config, p) \in 500 - 50 * config.intensity..500
             /\ Distance(p, config.roundness) <= Distance(q, config.roundness)
                  => vignette_factor(config, q) <= vignette_factor(config, p)
        BY <2>1, VignetteShape
    <2> QED  BY <1>3, <2>2 DEF EffectsInRange
<1>4. CASE effect = "ChromaticAberration"
    <2>1. config.intensity \in Nat /\ \A p \in Offsets : Exact(p, 1)
        <3>1. config \in PassConfigs["ChromaticAberration"]
            BY <1>1, <1>4
        <3> QED  BY <3>1, PassAssumption
    <2>2. \A p \in Offsets :
             LET at == channel_offsets(config, p)
             IN  at[1][1] + at[3][1] = 0 /\ at[1][2] + at[3][2] = 0
        BY <2>1, ChannelsPart
    <2> QED  BY <1>4, <2>2 DEF EffectsInRange
<1>5. CASE effect = "Ssgi"
    <2>1. config.samples \in Nat /\ config.intensity \in 0..100
        <3>1. config \in PassConfigs["Ssgi"]
            BY <1>1, <1>5
        <3> QED  BY <3>1, PassAssumption
    <2>2. config.samples = 0 => compute_gi_contribution(config) = NaN
        BY DEF compute_gi_contribution
    <2>3. ASSUME config.samples # 0
          PROVE  LightIn(config, config.intensity)
        <3> DEFINE samples == config.samples
                   intensity == config.intensity
        <3>1. samples \in Nat \ {0} /\ intensity \in 0..100
            BY <2>1, <2>3
        <3>2. SsgiSet(config, samples, intensity)
            BY DEF SsgiSet
        <3> HIDE DEF samples, intensity
        <3>3. LightIn(config, intensity)
            BY <3>1, <3>2, LightShape
        <3> QED  BY <3>3 DEF intensity
    <2> QED  BY <1>5, <2>2, <2>3 DEF EffectsInRange, LightIn
<1>6. CASE effect \notin {"Aces", "Vignette", "ChromaticAberration", "Ssgi"}
    BY <1>6 DEF EffectsInRange
<1> QED  BY <1>2, <1>3, <1>4, <1>5, <1>6

---------------------------------------------------------------------------
DrawnInv == PassInv /\ RulesInv /\ StagesInv

(* What is drawn follows from what was set, for every sequence of        *)
(* configurations, tables, set-ups and disposals, of properties and      *)
(* manifests, and of the settings of the shaders, for tables of any size - *)
(* the unit is divided finely enough for it - and whether or not their   *)
(* sizes are u32s (the passes of src/postfx, the materials, the shaders). *)
THEOREM DrawnAlwaysAsSet == ServicesSpec => []DrawnAsSet
<1>1. ServicesInit => DrawnInv
    BY PassBegin, RulesBegin, StagesBegin DEF ServicesInit, DrawnInv
<1>2. DrawnInv /\ [ServicesNext]_services => DrawnInv'
    <2> SUFFICES ASSUME DrawnInv, [ServicesNext]_services PROVE DrawnInv'
        OBVIOUS
    <2>1. CASE ServicesNext
        <3> USE <2>1 DEF ServicesNext, Move, drawing
        <3>1. [PassNext]_passes
            OBVIOUS
        <3>2. [RulesNext]_materials
            BY DEF materials
        <3>3. [StagesNext]_stages
            OBVIOUS
        <3> QED  BY <3>1, <3>2, <3>3, PassStep, RulesStep, StagesStep DEF DrawnInv
    <2>2. CASE UNCHANGED services
        <3>1. UNCHANGED passes /\ UNCHANGED materials /\ UNCHANGED stages
            BY <2>2 DEF services, drawing
        <3> QED  BY <3>1, PassStep, RulesStep, StagesStep DEF DrawnInv
    <2> QED  BY <2>1, <2>2
<1>3. DrawnInv => DrawnAsSet
    BY GradingFollows, KernelFollows, EffectsFollow, VariantsFollow, CascadesFollow,
       DitherFollows, ReadsFollow, PoliciesFollow
    DEF DrawnInv, DrawnAsSet
<1> QED  BY <1>1, <1>2, <1>3, PTL DEF ServicesSpec

=============================================================================
