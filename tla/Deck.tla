-------------------------------- MODULE Deck --------------------------------
(***************************************************************************)
(* How pptx2html-core takes a presentation from its package to HTML: what  *)
(* ties a slide of the output to the part of the package it came from.     *)
(*                                                                         *)
(* The parser reads the slides in presentation order and keeps, besides    *)
(* the slides, an inventory of the embedded objects by the part that owns  *)
(* them and the notes by slide number.  The renderer sees the parsed       *)
(* slides only: a slide is the place it has among them, and a part name is *)
(* made from that place.  Shapes inside groups count as shapes of their    *)
(* slide, in the order both phases walk them.  What is in a slide is left  *)
(* out, except the shapes that become placeholders or diagnostics.         *)
(***************************************************************************)
EXTENDS Integers, Sequences, FiniteSets

CONSTANTS
  N,          (* part n of 1..N is ppt/slides/slide<n>.xml                 *)
  Ids,        (* shape ids together with the kind of object                *)
  Raws,       (* the XML of embedded objects                               *)
  Linked,     (* those of Raws that name a relationship                    *)
  None,       (* no inventory                                              *)
  MaxShapes   (* bound: shapes in a whole deck                             *)

Parts == 1..N
Inventories == [part : Parts, id : Ids, occurrence : Nat]

ASSUME DeckAssumption ==
  /\ N \in Nat
  /\ Linked \subseteq Raws
  /\ None \notin Inventories
  /\ MaxShapes \in Nat

(* SmartArt, an OLE object or an equation; a custom geometry that is not    *)
(* supported; a fill with a pattern that is not supported.  A hidden shape  *)
(* is in a slide like any other, and only embedded ones leave a trace.      *)
Embedded == [what : {"embedded"}, id : Ids, raw : Raws, hidden : BOOLEAN]
Geometry == [what |-> "geometry", hidden |-> FALSE]
Pattern  == [what |-> "pattern", hidden |-> FALSE]
Shapes   == Embedded \cup {Geometry, Pattern}

Keys == Parts \X Ids \X Raws

VARIABLES
  pc,          (* "slides", "shapes", "render", "done" or "failed"         *)
  refs,        (* the parts of sldIdLst, in presentation order             *)
  next,        (* the place in refs the parser is at                       *)
  slides,      (* presentation.slides: [part, shapes]                      *)
  seen,        (* occurrences of resolve_slide, by shape id                *)
  store,       (* embedded_inventory, by key                               *)
  notes,       (* notes_comments.notes: [number, part]                     *)
  included,    (* the places should_include_slide says yes to              *)
  place,       (* the slide the renderer is at, one-based                  *)
  shape,       (* the shape of that slide the renderer is at               *)
  occurrences, (* collector.embedded_occurrences, by key                   *)
  counter,     (* collector.counter                                        *)
  elements,    (* collector.elements: [slide, number, shape, shown]        *)
  diagnostics  (* the diagnostics, which end up without duplicates         *)

parserVars == <<refs, next, slides, seen, store, notes>>
rendererVars == <<included, place, shape, occurrences, counter, elements,
                  diagnostics>>
vars == <<pc, parserVars, rendererVars>>

Init ==
  /\ pc = "slides"
  /\ refs \in {r \in UNION {[1..n -> Parts] : n \in 0..N} :
                \A i, j \in DOMAIN r : r[i] = r[j] => i = j}
  /\ next = 1
  /\ slides = <<>>
  /\ seen = [i \in Ids |-> 0]
  /\ store = [k \in Keys |-> <<>>]
  /\ notes = <<>>
  /\ included = {}
  /\ place = 1
  /\ shape = 1
  /\ occurrences = [k \in Keys |-> 0]
  /\ counter = 0
  /\ elements = <<>>
  /\ diagnostics = {}

-----------------------------------------------------------------------------
(* The parser.                                                              *)

(* Mutant of ReadSlide: notes are numbered from zero.                       *)
ReadSlideFromZero ==
  /\ pc = "slides"
  /\ next <= Len(refs)
  /\ notes' = Append(notes, [number |-> next - 1, part |-> refs[next]])
  /\ slides' = Append(slides, [part |-> refs[next], shapes |-> <<>>])
  /\ seen' = [i \in Ids |-> 0]
  /\ pc' = "shapes"
  /\ UNCHANGED <<refs, next, store, rendererVars>>

(* A slide that can be read.  Its notes are kept under its number in refs.  *)
ReadSlide ==
  /\ pc = "slides"
  /\ next <= Len(refs)
  /\ notes' = Append(notes, [number |-> next, part |-> refs[next]])
  /\ slides' = Append(slides, [part |-> refs[next], shapes |-> <<>>])
  /\ seen' = [i \in Ids |-> 0]
  /\ pc' = "shapes"
  /\ UNCHANGED <<refs, next, store, rendererVars>>

(* A relationship or a part that is missing: the slide is left out, and the *)
(* conversion goes on without a word.                                       *)
SkipReference ==
  /\ pc = "slides"
  /\ next <= Len(refs)
  /\ next' = next + 1
  /\ UNCHANGED <<pc, refs, slides, seen, store, notes, rendererVars>>

(* Mutant of Entry: occurrences are counted by key.                         *)
EntryByKey(part, s) ==
  [part |-> part, id |-> s.id, occurrence |-> Len(store[<<part, s.id, s.raw>>])]

(* What the inventory keeps of an object.                                   *)
Entry(part, s) == [part |-> part, id |-> s.id, occurrence |-> seen[s.id]]

(* The next shape of the slide; an embedded object goes into the inventory, *)
(* whether it is hidden or not.                                             *)
ResolveShape(s) ==
  LET last == Len(slides)
      part == slides[last].part
  IN /\ pc = "shapes"
     /\ Cardinality(UNION {{i} \X DOMAIN slides[i].shapes : i \in 1..last})
          < MaxShapes
     /\ slides' = [slides EXCEPT ![last].shapes = Append(@, s)]
     /\ IF s \in Embedded
        THEN /\ seen' = [seen EXCEPT ![s.id] = @ + 1]
             /\ store' = [store EXCEPT ![<<part, s.id, s.raw>>] =
                            Append(@, Entry(part, s))]
        ELSE UNCHANGED <<seen, store>>
     /\ UNCHANGED <<pc, refs, next, notes, rendererVars>>

EndSlide ==
  /\ pc = "shapes"
  /\ pc' = "slides"
  /\ next' = next + 1
  /\ UNCHANGED <<refs, slides, seen, store, notes, rendererVars>>

(* Slide XML that cannot be parsed ends the conversion with an error.       *)
Fail ==
  /\ pc = "shapes"
  /\ pc' = "failed"
  /\ UNCHANGED <<parserVars, rendererVars>>

-----------------------------------------------------------------------------
(* The renderer.                                                            *)

(* The options and the hidden flags come down to a set of places.           *)
BeginRender ==
  /\ pc = "slides"
  /\ next > Len(refs)
  /\ pc' = "render"
  /\ included' \in SUBSET DOMAIN slides
  /\ UNCHANGED <<parserVars, place, shape, occurrences, counter, elements,
                 diagnostics>>

Rendering == pc = "render" /\ place \in DOMAIN slides

(* The shape a step renders.                                                *)
Current == slides[place].shapes[shape]

AtShape ==
  /\ Rendering
  /\ place \in included
  /\ shape \in DOMAIN slides[place].shapes

NextSlide ==
  /\ Rendering
  /\ place \in included => shape > Len(slides[place].shapes)
  /\ place' = place + 1
  /\ shape' = 1
  /\ UNCHANGED <<pc, parserVars, included, occurrences, counter, elements,
                 diagnostics>>

(* Mutant of SkipHidden: a hidden shape ends its slide.                     *)
SkipHiddenToEnd ==
  /\ AtShape
  /\ Current.hidden
  /\ shape' = Len(slides[place].shapes) + 1
  /\ UNCHANGED <<pc, parserVars, included, place, occurrences, counter,
                 elements, diagnostics>>

SkipHidden ==
  /\ AtShape
  /\ Current.hidden
  /\ shape' = shape + 1
  /\ UNCHANGED <<pc, parserVars, included, place, occurrences, counter,
                 elements, diagnostics>>

(* The part is not the part of the slide but the place, put into a name.    *)
LookupKey == <<place, Current.id, Current.raw>>

(* Mutant of Found: off by one.                                             *)
FoundAnother == occurrences[LookupKey] + 1 < Len(store[LookupKey])

Found == occurrences[LookupKey] < Len(store[LookupKey])

(* A placeholder in the HTML and its entry in the list of elements.  The    *)
(* fields slide and number make its id; shape and shown say what for.       *)
Emit(shown, ref) ==
  /\ elements' = Append(elements,
       [slide |-> place, number |-> counter, shape |-> shape,
        shown |-> shown])
  /\ diagnostics' = diagnostics \cup
       {[kind |-> "placeholder", slide |-> place, ref |-> ref]}
  /\ counter' = counter + 1
  /\ shape' = shape + 1

(* The id of a placeholder, as diagnostics refer to it.                     *)
Placeholder == <<place, counter>>

(* Mutant of RenderEmbedded: the diagnostic names the relationship.         *)
RenderEmbeddedByRaw ==
  /\ AtShape
  /\ ~Current.hidden
  /\ Current \in Embedded
  /\ Found
  /\ Emit(store[LookupKey][occurrences[LookupKey] + 1], <<Current.raw>>)
  /\ occurrences' = [occurrences EXCEPT ![LookupKey] = @ + 1]
  /\ UNCHANGED <<pc, parserVars, included, place>>

RenderEmbedded ==
  /\ AtShape
  /\ ~Current.hidden
  /\ Current \in Embedded
  /\ Found
  /\ LET entry == store[LookupKey][occurrences[LookupKey] + 1]
     IN Emit(entry, <<entry.part, entry.id, entry.occurrence>>)
  /\ occurrences' = [occurrences EXCEPT ![LookupKey] = @ + 1]
  /\ UNCHANGED <<pc, parserVars, included, place>>

(* Without an inventory the object is a plain placeholder.  Its diagnostic  *)
(* names the relationship that its XML does, or else the placeholder.       *)
RenderLost ==
  /\ AtShape
  /\ ~Current.hidden
  /\ Current \in Embedded
  /\ ~Found
  /\ Emit(None, IF Current.raw \in Linked THEN <<Current.raw>> ELSE Placeholder)
  /\ occurrences' = [occurrences EXCEPT ![LookupKey] = @ + 1]
  /\ UNCHANGED <<pc, parserVars, included, place>>

RenderGeometry ==
  /\ AtShape
  /\ Current = Geometry
  /\ Emit(None, Placeholder)
  /\ UNCHANGED <<pc, parserVars, included, place, occurrences>>

(* Mutant of RecordPattern: a pattern leaves the counter alone.             *)
RecordPatternUncounted ==
  /\ AtShape
  /\ Current = Pattern
  /\ diagnostics' = diagnostics \cup
       {[kind |-> "pattern", slide |-> place, ref |-> Placeholder]}
  /\ shape' = shape + 1
  /\ UNCHANGED <<pc, parserVars, included, place, occurrences, counter,
                 elements>>

(* A diagnostic takes a number from the same counter, and no placeholder    *)
(* goes with it.                                                            *)
RecordPattern ==
  /\ AtShape
  /\ Current = Pattern
  /\ diagnostics' = diagnostics \cup
       {[kind |-> "pattern", slide |-> place, ref |-> Placeholder]}
  /\ counter' = counter + 1
  /\ shape' = shape + 1
  /\ UNCHANGED <<pc, parserVars, included, place, occurrences, elements>>

(* At the end, the notes of the numbers that are included.                  *)
AppendNotes ==
  /\ pc = "render"
  /\ place \notin DOMAIN slides
  /\ diagnostics' = diagnostics \cup
       {[kind |-> "notes", slide |-> notes[i].number, ref |-> <<notes[i].part>>] :
          i \in {j \in DOMAIN notes : notes[j].number \in included}}
  /\ pc' = "done"
  /\ UNCHANGED <<parserVars, included, place, shape, occurrences, counter,
                 elements>>

Parse == ReadSlide \/ SkipReference \/ EndSlide \/ Fail
           \/ \E s \in Shapes : ResolveShape(s)

Render == BeginRender \/ NextSlide \/ SkipHidden \/ RenderEmbedded
            \/ RenderLost \/ RenderGeometry \/ RecordPattern \/ AppendNotes

Next == Parse \/ Render

Spec == Init /\ [][Next]_vars

-----------------------------------------------------------------------------
(* Properties.                                                              *)

TypeOK ==
  /\ pc \in {"slides", "shapes", "render", "done", "failed"}
  /\ refs \in Seq(Parts)
  /\ next \in 1..(Len(refs) + 1)
  /\ slides \in Seq([part : Parts, shapes : Seq(Shapes)])
  /\ Len(slides) <= next
  /\ seen \in [Ids -> Nat]
  /\ store \in [Keys -> Seq(Inventories)]
  /\ notes \in Seq([number : Nat, part : Parts])
  /\ included \subseteq DOMAIN slides
  /\ place \in 1..(Len(slides) + 1)
  /\ shape \in Nat \ {0}
  /\ Rendering => shape <= Len(slides[place].shapes) + 1
  /\ occurrences \in [Keys -> Nat]
  /\ counter \in Nat
  /\ elements \in Seq([slide : Nat, number : Nat, shape : Nat,
                       shown : Inventories \cup {None}])

(* The id of a placeholder occurs once in the HTML, and no diagnostic of a  *)
(* pattern has the number of one: model/preserved.rs calls it unique.       *)
NumbersAreUnique ==
  /\ \A i, j \in DOMAIN elements :
       elements[i].number = elements[j].number => i = j
  /\ \A d \in diagnostics : d.kind = "pattern" =>
       \A i \in DOMAIN elements : d.ref # <<elements[i].slide, elements[i].number>>

(* No two placeholders claim to come from the same object of the package    *)
(* (data-source-id), whatever is hidden, copied, left out or out of order.  *)
IdentitiesAreUnique ==
  \A i, j \in DOMAIN elements :
    elements[i].shown # None /\ elements[i].shown = elements[j].shown => i = j

(* The shape an element is for, and the shapes before it that could be      *)
(* taken for it.                                                            *)
ShapeOf(e) == slides[e.slide].shapes[e.shape]
Before(e) == {i \in 1..(e.shape - 1) :
                /\ slides[e.slide].shapes[i] \in Embedded
                /\ slides[e.slide].shapes[i].id = ShapeOf(e).id}

(* On a slide whose place is the number of its part, an embedded object     *)
(* shows the inventory of an object of the same part and id, and the very   *)
(* one registered for it unless a hidden object of that id comes before it. *)
InPlaceKeepsInventory ==
  \A i \in DOMAIN elements :
    LET e == elements[i]
    IN slides[e.slide].part = e.slide /\ ShapeOf(e) \in Embedded =>
         /\ e.shown # None
         /\ e.shown.part = slides[e.slide].part
         /\ e.shown.id = ShapeOf(e).id
         /\ (\A j \in Before(e) : ~slides[e.slide].shapes[j].hidden)
              => e.shown.occurrence = Cardinality(Before(e))

(* Where every slide that is rendered is in its place, no diagnostic of a   *)
(* placeholder is taken for a duplicate of another and dropped.             *)
InPlaceIsReported ==
  (\A p \in included : slides[p].part = p) =>
    Cardinality({d \in diagnostics : d.kind = "placeholder"}) = Len(elements)

(* What has a placeholder: every visible object or geometry of the slides   *)
(* that are included, once, and in the order of the deck.                   *)
ComesFirst(p, s, q, t) == p < q \/ (p = q /\ s < t)

EveryShapeOnce ==
  /\ \A i, j \in DOMAIN elements : i < j =>
       ComesFirst(elements[i].slide, elements[i].shape,
                  elements[j].slide, elements[j].shape)
  /\ {<<elements[i].slide, elements[i].shape>> : i \in DOMAIN elements} =
       {x \in UNION {{p} \X DOMAIN slides[p].shapes : p \in included} :
          /\ ~slides[x[1]].shapes[x[2]].hidden
          /\ slides[x[1]].shapes[x[2]] # Pattern
          /\ pc = "done" \/ ComesFirst(x[1], x[2], place, shape)}

NotesShown == {d.ref : d \in {x \in diagnostics : x.kind = "notes"}}
NotesOf(places) == {<<slides[p].part>> : p \in places}

(* As long as every slide could be read, the notes that are output are      *)
(* those of the slides that are output.                                     *)
NotesFollowSlides ==
  pc = "done" /\ Len(slides) = Len(refs) => NotesShown = NotesOf(included)

(* The test annotations_follow_slide_selection_and_hidden_slide_policy, for *)
(* every deck: it does not hold of one with a slide that cannot be read.    *)
NotesFollowSelection == pc = "done" => NotesShown = NotesOf(included)

(* SUPPORTED_FEATURES.md: an OLE object or SmartArt shows the preview its   *)
(* package provides.  It does not hold of a slide that is out of its place. *)
ShowsOwnInventory ==
  \A i \in DOMAIN elements :
    LET e == elements[i]
    IN ShapeOf(e) \in Embedded =>
         e.shown # None /\ e.shown.part = slides[e.slide].part

=============================================================================
