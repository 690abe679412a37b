----------------------------- MODULE Attachments -----------------------------
(***************************************************************************)
(* Neutral messages (messages.go) and the files in them (attachments.go):  *)
(* what a part is, whether a model accepts it, and how it is rewritten for *)
(* a provider without text documents.                                      *)
(*                                                                         *)
(* The text of a part is a sequence of snippets [as, id]; an id is a pair  *)
(* of numbers, its message and its place there.  A media type stands for   *)
(* its base type.                                                          *)
(***************************************************************************)
EXTENDS Naturals, FiniteSets, SequencesExt

Said(id) == <<[as |-> "said", id |-> id]>>
TextPart(text) == [kind |-> "text", text |-> text]
ImagePart(id)  == [kind |-> "image", id |-> id]
BinaryPart(id, media, named) ==
    [kind |-> "binary", id |-> id, media |-> media, named |-> named,
     size |-> 1, side |-> 1, utf8 |-> TRUE]
CallPart(id) == [kind |-> "call", id |-> id]
ResultPart(id, error, attachments) ==
    [kind |-> "result", id |-> id, error |-> error, attachments |-> attachments]
ThinkingPart(id, redacted) == [kind |-> "think", id |-> id, redacted |-> redacted]

Message(role, parts) == [role |-> role, parts |-> parts]

IsSequence(s) == s \in Seq(Range(s))
IsTranscript(messages) ==
    IsSequence(messages) /\ \A i \in DOMAIN messages : IsSequence(messages[i].parts)
\* The text of a part is a sequence of snippets.
WordedParts(parts) ==
    IsSequence(parts) /\ \A j \in DOMAIN parts :
        parts[j].kind = "text" => IsSequence(parts[j].text)

-----------------------------------------------------------------------------
MediaModality ==
    [png |-> "image", bmp |-> "image", pdf |-> "pdf", audio |-> "audio",
     video |-> "video", markdown |-> "text", json |-> "text", zip |-> ""]

\* The modality a part needs, "" when it needs none.
PartModality(part) ==
    CASE part.kind = "image"  -> "image"
      [] part.kind = "binary" -> MediaModality[part.media]
      [] OTHER                -> ""

\* A limit of zero is not known, and a picture that cannot be read has side 0.
Above(n, limit) == limit > 0 /\ n > limit

MaxSide(limits, images) ==
    IF Above(images, limits.many) THEN limits.manySide ELSE limits.side

\* A model without declared modalities takes any.
AllowsModality(info, modality) ==
    info.modalities = {} \/ modality \in info.modalities

CheckPart(info, part, images) ==
    LET modality == PartModality(part)
        image    == info.image
        tooLarge ==
            CASE modality = "image" -> \/ Above(part.size, image.bytes)
                                       \/ Above(part.side, MaxSide(image, images))
              [] modality = "pdf" -> Above(part.size, info.pdfBytes)
              [] OTHER -> FALSE
    IN  IF modality \notin {"", "text"} /\ ~AllowsModality(info, modality)
        THEN "unsupported modality"
        ELSE IF part.kind # "binary" THEN "none"
        ELSE IF modality = "text" /\ ~part.utf8 THEN "invalid"
        ELSE IF modality = "image" /\ image.types # {} /\ part.media \notin image.types
        THEN "unsupported media type"
        ELSE IF tooLarge THEN "too large" ELSE "none"

\* checkMessages: the first part the model cannot accept.  The pixel limit
\* depends on the images of the whole list, the count on those seen so far.
CheckMessages(info, messages) ==
    LET places   == {<<i, j>> : i \in DOMAIN messages,
                                j \in UNION {DOMAIN messages[k].parts : k \in DOMAIN messages}}
        parts    == {l \in places : l[2] \in DOMAIN messages[l[1]].parts}
        At(l)    == messages[l[1]].parts[l[2]]
        images   == {l \in parts : PartModality(At(l)) = "image"}
        Upto(k, l) == k[1] < l[1] \/ (k[1] = l[1] /\ k[2] <= l[2])
        Seen(l)  == Cardinality({k \in images : Upto(k, l)})
        Error(l) == LET e == CheckPart(info, At(l), Cardinality(images))
                    IN  IF e = "none" /\ l \in images /\ Above(Seen(l), info.image.count)
                        THEN "too large" ELSE e
        bad      == {l \in parts : Error(l) # "none"}
        first    == CHOOSE l \in bad : \A k \in bad : Upto(l, k)
    IN  IF bad = {} THEN "none" ELSE Error(first)

-----------------------------------------------------------------------------
(* Providers that know no text document get the file's content as text, and *)
(* a label where they have no field for the name.                           *)
FileText(part)  == TextPart(<<[as |-> "file", id |-> part.id]>>)
FileLabel(part) == TextPart(<<[as |-> "label", id |-> part.id]>>)

Expanded(part, fileNames) ==
    IF part.kind # "binary" THEN <<part>>
    ELSE IF PartModality(part) = "text" THEN <<FileText(part)>>
    ELSE IF part.named /\ (PartModality(part) = "image" \/ ~fileNames)
    THEN <<FileLabel(part), part>>
    ELSE <<part>>

MapSeq(s, Op(_)) == [i \in DOMAIN s |-> Op(s[i])]
FlatMap(s, Op(_)) == FlattenSeq(MapSeq(s, Op))
\* SelectSeq, from a definition that can be proved about.
Select(s, Test(_)) == FlatMap(s, LAMBDA x : IF Test(x) THEN <<x>> ELSE <<>>)

ExpandFileParts(parts, fileNames) ==
    FlatMap(parts, LAMBDA p : Expanded(p, fileNames))

\* appendToolAttachment: a result that brings files is announced by a note.
ToolAttachment(result) ==
    IF result.attachments = <<>> THEN <<>>
    ELSE <<TextPart(<<[as |-> "note", id |-> result.id]>>)>> \o result.attachments
=============================================================================
