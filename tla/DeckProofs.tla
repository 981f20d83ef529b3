----------------------------- MODULE DeckProofs -----------------------------
(* Proofs about Deck, for decks of any size.                                *)
EXTENDS Deck, TLAPS, SequenceTheorems, FiniteSetTheorems

(* The parser is never behind the slides it has read, so a place is always  *)
(* the number of some part; and the renderer starts at the first shape.     *)
PlaceInv ==
  /\ Len(refs) <= N
  /\ pc = "slides" => Len(slides) < next
  /\ pc = "shapes" => next <= Len(refs) /\ Len(slides) >= 1
  /\ pc \in {"render", "done"} => Len(slides) <= N

Parsing == pc \in {"slides", "shapes", "failed"}

FreshInv ==
  Parsing => place = 1 /\ shape = 1 /\ included = {} /\ elements = <<>>

TypeInv == TypeOK /\ PlaceInv /\ FreshInv

LEMMA TypeInvInit == Init => TypeInv
<1>. SUFFICES ASSUME Init PROVE TypeInv
  OBVIOUS
<1>1. /\ refs \in Seq(Parts)
      /\ Len(refs) <= N
  <2>1. PICK n \in 0..N : refs \in [1..n -> Parts]
    BY DEF Init
  <2>. QED  BY <2>1, DeckAssumption
<1>2. /\ slides = <<>> /\ notes = <<>> /\ elements = <<>>
      /\ store \in [Keys -> Seq(Inventories)]
  BY DEF Init
<1>. QED  BY <1>1, <1>2 DEF Init, TypeInv, TypeOK, PlaceInv, FreshInv, Rendering

LEMMA TypeInvReadSlide == TypeInv /\ ReadSlide => TypeInv'
<1>. SUFFICES ASSUME TypeInv, ReadSlide PROVE TypeInv'
  OBVIOUS
<1>. USE DEF TypeInv, TypeOK, PlaceInv, FreshInv, Parsing, ReadSlide,
             rendererVars, Rendering
<1>1. refs[next] \in Parts
  OBVIOUS
<1>2. /\ slides' \in Seq([part : Parts, shapes : Seq(Shapes)])
      /\ Len(slides') = Len(slides) + 1
  BY <1>1
<1>3. notes' \in Seq([number : Nat, part : Parts])
  BY <1>1
<1>. QED  BY <1>1, <1>2, <1>3

SlideSet == [part : Parts, shapes : Seq(Shapes)]

LEMMA SlidesType ==
  ASSUME TypeInv
  PROVE  /\ slides \in Seq(SlideSet)
         /\ DOMAIN slides = 1..Len(slides)
         /\ Len(slides) \in Nat
         /\ \A i \in DOMAIN slides : /\ slides[i] \in SlideSet
                                    /\ slides[i].part \in Parts
                                    /\ slides[i].shapes \in Seq(Shapes)
         /\ pc = "shapes" => Len(slides) \in DOMAIN slides
<1>1. slides \in Seq(SlideSet)
  BY DEF TypeInv, TypeOK, SlideSet
<1>2. /\ DOMAIN slides = 1..Len(slides)
      /\ Len(slides) \in Nat
      /\ \A i \in DOMAIN slides : slides[i] \in SlideSet
  BY <1>1
<1>3. pc = "shapes" => Len(slides) >= 1
  BY DEF TypeInv, PlaceInv
<1>4. \A x \in SlideSet : x.part \in Parts /\ x.shapes \in Seq(Shapes)
  BY DEF SlideSet
<1>. QED  BY <1>1, <1>2, <1>3, <1>4

(* A shape is added to the last slide, and nothing else changes there.      *)
LEMMA ResolveSlides ==
  ASSUME TypeInv, NEW s \in Shapes, ResolveShape(s)
  PROVE  LET last == Len(slides)
         IN /\ slides' \in Seq(SlideSet)
            /\ Len(slides') = last
            /\ \A i \in DOMAIN slides : slides'[i].part = slides[i].part
<1>. DEFINE last == Len(slides)
            longer == [slides[last] EXCEPT !.shapes = Append(@, s)]
<1>1. /\ last \in 1..Len(slides)
      /\ slides[last] \in SlideSet
      /\ slides[last].shapes \in Seq(Shapes)
      /\ DOMAIN slides = 1..Len(slides)
      /\ slides \in Seq(SlideSet)
  BY SlidesType DEF ResolveShape
<1>2. Append(slides[last].shapes, s) \in Seq(Shapes)
  BY <1>1
<1>3. /\ longer \in SlideSet
      /\ longer.part = slides[last].part
  BY <1>1, <1>2 DEF SlideSet
<1>4. slides' = [slides EXCEPT ![last] = longer]
  BY DEF ResolveShape
<1>5. /\ slides' \in Seq(SlideSet)
      /\ Len(slides') = Len(slides)
      /\ \A i \in 1..Len(slides) :
           slides'[i] = IF i = last THEN longer ELSE slides[i]
  BY <1>1, <1>3, <1>4, ExceptSeq
<1>. QED  BY <1>1, <1>3, <1>5

(* What an embedded object registers.                                       *)
LEMMA ResolveStore ==
  ASSUME TypeInv, NEW s \in Shapes, ResolveShape(s), s \in Embedded
  PROVE  LET part == slides[Len(slides)].part
             key  == <<part, s.id, s.raw>>
         IN /\ key \in Keys /\ part \in Parts /\ s.id \in Ids
            /\ seen[s.id] \in Nat
            /\ seen' = [seen EXCEPT ![s.id] = @ + 1]
            /\ store' = [store EXCEPT ![key] = Append(@, Entry(part, s))]
            /\ store[key] \in Seq(Inventories)
            /\ Entry(part, s) \in Inventories
<1>. DEFINE part == slides[Len(slides)].part
            key  == <<part, s.id, s.raw>>
<1>1. part \in Parts
  BY SlidesType DEF ResolveShape
<1>2. s.id \in Ids /\ s.raw \in Raws
  BY DEF Embedded
<1>3. key \in Keys /\ seen[s.id] \in Nat
  BY <1>1, <1>2 DEF Keys, TypeInv, TypeOK
<1>4. store[key] \in Seq(Inventories)
  BY <1>3 DEF TypeInv, TypeOK
<1>5. Entry(part, s) \in Inventories
  BY <1>1, <1>2, <1>3 DEF Entry, Inventories
<1>6. /\ seen' = [seen EXCEPT ![s.id] = @ + 1]
      /\ store' = [store EXCEPT ![key] = Append(@, Entry(part, s))]
  BY DEF ResolveShape
<1>. QED  BY <1>1, <1>2, <1>3, <1>4, <1>5, <1>6

LEMMA TypeInvResolveShape ==
  ASSUME TypeInv, NEW s \in Shapes, ResolveShape(s)
  PROVE  TypeInv'
<1>1. /\ slides' \in Seq([part : Parts, shapes : Seq(Shapes)])
      /\ Len(slides') = Len(slides)
      /\ DOMAIN slides' = DOMAIN slides
  BY ResolveSlides, SlidesType DEF SlideSet
<1>2. /\ seen' \in [Ids -> Nat]
      /\ store' \in [Keys -> Seq(Inventories)]
  <2>1. CASE s \in Embedded
    <3>. DEFINE part == slides[Len(slides)].part
                key  == <<part, s.id, s.raw>>
    <3>1. Append(store[key], Entry(part, s)) \in Seq(Inventories)
      BY <2>1, ResolveStore
    <3>2. /\ seen \in [Ids -> Nat]
          /\ store \in [Keys -> Seq(Inventories)]
      BY DEF TypeInv, TypeOK
    <3>3. /\ seen' = [seen EXCEPT ![s.id] = @ + 1]
          /\ seen[s.id] \in Nat
          /\ store' = [store EXCEPT ![key] = Append(@, Entry(part, s))]
      BY <2>1, ResolveStore
    <3>4. seen' \in [Ids -> Nat]
      <4>1. seen[s.id] + 1 \in Nat
        BY <3>3
      <4>. QED  BY <3>2, <3>3, <4>1
    <3>5. store' \in [Keys -> Seq(Inventories)]
      <4>. HIDE DEF key, part
      <4>. QED  BY <3>1, <3>2, <3>3
    <3>. QED  BY <3>4, <3>5
  <2>2. CASE s \notin Embedded
    BY <2>2 DEF ResolveShape, TypeInv, TypeOK
  <2>. QED  BY <2>1, <2>2
<1>3. pc = "shapes" /\ pc' = pc /\ UNCHANGED <<refs, next, notes, rendererVars>>
  BY DEF ResolveShape
<1>. QED  BY <1>1, <1>2, <1>3 DEF TypeInv, TypeOK, PlaceInv, FreshInv, Parsing,
          rendererVars, Rendering

LEMMA TypeInvParse == TypeInv /\ Parse => TypeInv'
<1>. SUFFICES ASSUME TypeInv, Parse PROVE TypeInv'
  OBVIOUS
<1>. USE DEF TypeInv, TypeOK, PlaceInv, FreshInv, Parsing, parserVars,
             rendererVars, Rendering
<1>1. CASE ReadSlide
  BY <1>1, TypeInvReadSlide
<1>2. CASE SkipReference
  BY <1>2 DEF SkipReference
<1>3. CASE EndSlide
  BY <1>3 DEF EndSlide
<1>4. CASE Fail
  BY <1>4 DEF Fail
<1>5. ASSUME NEW s \in Shapes, ResolveShape(s) PROVE TypeInv'
  BY <1>5, TypeInvResolveShape
<1>. QED  BY <1>1, <1>2, <1>3, <1>4, <1>5 DEF Parse

(* What the renderer looks at is there.                                     *)
LEMMA AtShapeType ==
  ASSUME TypeInv, AtShape
  PROVE  /\ place \in DOMAIN slides
         /\ place \in Parts
         /\ slides[place].shapes \in Seq(Shapes)
         /\ shape \in DOMAIN slides[place].shapes
         /\ Current \in Shapes
         /\ Current \in Embedded => LookupKey \in Keys
<1>1. /\ place \in DOMAIN slides
      /\ shape \in DOMAIN slides[place].shapes
      /\ Len(slides) <= N
  BY DEF AtShape, Rendering, TypeInv, PlaceInv
<1>2. place \in Parts
  BY <1>1, SlidesType, DeckAssumption DEF Parts
<1>3. slides[place].shapes \in Seq(Shapes)
  BY <1>1, SlidesType
<1>4. Current \in Shapes
  BY <1>1, <1>3 DEF Current
<1>5. Current \in Embedded => LookupKey \in Keys
  BY <1>2 DEF LookupKey, Keys, Embedded
<1>. QED  BY <1>1, <1>2, <1>3, <1>4, <1>5

(* A step of the renderer keeps the types when it stays within the deck.    *)
LEMMA RendererType ==
  ASSUME TypeInv, pc = "render", UNCHANGED <<pc, parserVars, included>>,
         place' \in 1..(Len(slides) + 1), shape' \in Nat \ {0},
         place' \in DOMAIN slides => shape' <= Len(slides[place'].shapes) + 1,
         occurrences' \in [Keys -> Nat], counter' \in Nat,
         elements' \in Seq([slide : Nat, number : Nat, shape : Nat,
                            shown : Inventories \cup {None}])
  PROVE  TypeInv'
<1>1. /\ refs' = refs /\ next' = next /\ slides' = slides /\ seen' = seen
      /\ store' = store /\ notes' = notes
      /\ pc' = pc /\ included' = included
  BY DEF parserVars
<1>2. Rendering' => shape' <= Len(slides'[place'].shapes) + 1
  BY <1>1, Zenon DEF Rendering
<1>3. TypeOK'
  <2>1. /\ pc' \in {"slides", "shapes", "render", "done", "failed"}
        /\ refs' \in Seq(Parts)
        /\ next' \in 1..(Len(refs') + 1)
        /\ slides' \in Seq([part : Parts, shapes : Seq(Shapes)])
        /\ Len(slides') <= next'
        /\ seen' \in [Ids -> Nat]
        /\ store' \in [Keys -> Seq(Inventories)]
        /\ notes' \in Seq([number : Nat, part : Parts])
        /\ included' \subseteq DOMAIN slides'
        /\ place' \in 1..(Len(slides') + 1)
    BY <1>1, Zenon DEF TypeInv, TypeOK
  <2>. QED  BY <2>1, <1>2, Zenon DEF TypeOK
<1>4. PlaceInv'
  BY <1>1, Zenon DEF TypeInv, PlaceInv
<1>5. FreshInv'
  BY <1>1 DEF FreshInv, Parsing
<1>. QED  BY <1>3, <1>4, <1>5 DEF TypeInv

(* A step that leaves its slide where it is, at the next shape.             *)
LEMMA SamePlaceType ==
  ASSUME TypeInv, AtShape, shape' = shape + 1,
         UNCHANGED <<pc, parserVars, included, place>>,
         occurrences' \in [Keys -> Nat], counter' \in Nat,
         elements' \in Seq([slide : Nat, number : Nat, shape : Nat,
                            shown : Inventories \cup {None}])
  PROVE  TypeInv'
<1>1. /\ shape \in DOMAIN slides[place].shapes
      /\ slides[place].shapes \in Seq(Shapes)
      /\ pc = "render"
  BY AtShapeType DEF AtShape, Rendering
<1>2. shape <= Len(slides[place].shapes) /\ shape \in Nat
  BY <1>1
<1>3. place' \in 1..(Len(slides) + 1)
  BY Zenon DEF TypeInv, TypeOK
<1>4. shape' \in Nat \ {0} /\ shape' <= Len(slides[place'].shapes) + 1
  BY <1>2
<1>. QED  BY <1>1, <1>3, <1>4, RendererType

LEMMA NextShapeType ==
  ASSUME TypeInv, AtShape, shape' = shape + 1,
         UNCHANGED <<pc, parserVars, included, place, occurrences, elements>>,
         counter' \in Nat
  PROVE  TypeInv'
<1>1. /\ occurrences' \in [Keys -> Nat]
      /\ elements' \in Seq([slide : Nat, number : Nat, shape : Nat,
                            shown : Inventories \cup {None}])
  BY Zenon DEF TypeInv, TypeOK
<1>. QED  BY <1>1, SamePlaceType

(* The entry of the store that an embedded object is rendered with.         *)
LEMMA EntryType ==
  ASSUME TypeInv, AtShape, Current \in Embedded, Found
  PROVE  /\ LookupKey \in Keys
         /\ occurrences[LookupKey] \in Nat
         /\ occurrences[LookupKey] + 1 \in 1..Len(store[LookupKey])
         /\ store[LookupKey][occurrences[LookupKey] + 1] \in Inventories
<1>1. LookupKey \in Keys
  BY AtShapeType
<1>2. store[LookupKey] \in Seq(Inventories) /\ occurrences[LookupKey] \in Nat
  BY <1>1 DEF TypeInv, TypeOK
<1>3. occurrences[LookupKey] + 1 \in 1..Len(store[LookupKey])
  BY <1>2 DEF Found
<1>. QED  BY <1>1, <1>2, <1>3

LEMMA EmitType ==
  ASSUME TypeInv, AtShape, NEW shown \in Inventories \cup {None}, NEW ref,
         Emit(shown, ref), UNCHANGED <<pc, parserVars, included, place>>,
         occurrences' \in [Keys -> Nat]
  PROVE  TypeInv'
<1> DEFINE Element == [slide : Nat, number : Nat, shape : Nat,
                       shown : Inventories \cup {None}]
           new == [slide |-> place, number |-> counter, shape |-> shape,
                   shown |-> shown]
<1>1. place \in Nat /\ counter \in Nat /\ shape \in Nat
  BY AtShapeType DEF Parts, TypeInv, TypeOK
<1>2. new \in Element
  BY <1>1
<1>3. elements \in Seq(Element) /\ elements' = Append(elements, new)
  BY Zenon DEF TypeInv, TypeOK, Emit
<1>4. elements' \in Seq(Element)
  <2>. HIDE DEF Element, new
  <2>. QED  BY <1>2, <1>3
<1>5. counter' \in Nat /\ shape' = shape + 1
  BY <1>1 DEF Emit
<1>. QED  BY <1>4, <1>5, SamePlaceType

LEMMA TypeInvRender == TypeInv /\ Render => TypeInv'
<1>. SUFFICES ASSUME TypeInv, Render PROVE TypeInv'
  OBVIOUS
<1>1. CASE BeginRender
  <2>1. /\ included' \subseteq DOMAIN slides
        /\ place = 1 /\ shape = 1 /\ elements = <<>>
        /\ pc = "slides" /\ pc' = "render" /\ next = Len(refs) + 1
    BY <1>1 DEF BeginRender, TypeInv, TypeOK, FreshInv, Parsing
  <2>2. Len(slides) <= N
    BY <2>1, SlidesType, DeckAssumption DEF TypeInv, TypeOK, PlaceInv
  <2>3. 1 \in DOMAIN slides => 1 <= Len(slides[1].shapes) + 1
    BY SlidesType
  <2>. QED  BY <1>1, <2>1, <2>2, <2>3 DEF BeginRender, TypeInv, TypeOK, PlaceInv,
              FreshInv, Parsing, parserVars, Rendering
<1>2. CASE NextSlide
  <2>1. /\ place \in 1..Len(slides) /\ Len(slides) \in Nat
        /\ place' = place + 1 /\ shape' = 1
        /\ UNCHANGED <<pc, parserVars, included, occurrences, counter, elements>>
        /\ pc = "render"
    BY <1>2, SlidesType DEF NextSlide, Rendering
  <2>2. place' \in 1..(Len(slides) + 1) /\ shape' \in Nat \ {0}
    BY <2>1
  <2>3. place' \in DOMAIN slides => shape' <= Len(slides[place'].shapes) + 1
    <3>1. place' \in DOMAIN slides => slides[place'].shapes \in Seq(Shapes)
      BY SlidesType
    <3>. QED  BY <2>1, <3>1
  <2>4. /\ occurrences' \in [Keys -> Nat] /\ counter' \in Nat
        /\ elements' \in Seq([slide : Nat, number : Nat, shape : Nat,
                              shown : Inventories \cup {None}])
    BY <2>1, Zenon DEF TypeInv, TypeOK
  <2>. QED  BY <2>1, <2>2, <2>3, <2>4, RendererType
<1>3. CASE SkipHidden
  <2>1. AtShape
    BY <1>3 DEF SkipHidden
  <2>. QED  BY <1>3, <2>1, NextShapeType DEF SkipHidden, TypeInv, TypeOK
<1>4. CASE RenderEmbedded
  <2>1. AtShape /\ Current \in Embedded /\ Found
    BY <1>4 DEF RenderEmbedded
  <2>2. LookupKey \in Keys
    BY <2>1, AtShapeType
  <2>. DEFINE entry == store[LookupKey][occurrences[LookupKey] + 1]
  <2>3. entry \in Inventories
    BY <2>1, EntryType
  <2>4. occurrences' \in [Keys -> Nat]
    <3>1. occurrences \in [Keys -> Nat]
      BY Zenon DEF TypeInv, TypeOK
    <3>2. occurrences' = [occurrences EXCEPT ![LookupKey] = @ + 1]
      BY <1>4, Zenon DEF RenderEmbedded
    <3>. QED  BY <2>2, <3>1, <3>2
  <2>5. Emit(entry, <<entry.part, entry.id, entry.occurrence>>)
    BY <1>4 DEF RenderEmbedded
  <2>. QED  BY <1>4, <2>1, <2>3, <2>4, <2>5, EmitType DEF RenderEmbedded
<1>5. CASE RenderLost
  <2>1. AtShape /\ Current \in Embedded
    BY <1>5 DEF RenderLost
  <2>2. LookupKey \in Keys
    BY <2>1, AtShapeType
  <2>3. occurrences' \in [Keys -> Nat]
    <3>1. occurrences \in [Keys -> Nat]
      BY Zenon DEF TypeInv, TypeOK
    <3>2. occurrences' = [occurrences EXCEPT ![LookupKey] = @ + 1]
      BY <1>5, Zenon DEF RenderLost
    <3>. QED  BY <2>2, <3>1, <3>2
  <2>. QED  BY <1>5, <2>1, <2>3, EmitType DEF RenderLost
<1>6. CASE RenderGeometry
  <2>1. AtShape /\ Emit(None, Placeholder)
    BY <1>6 DEF RenderGeometry
  <2>2. occurrences' \in [Keys -> Nat]
    BY <1>6 DEF RenderGeometry, TypeInv, TypeOK
  <2>. QED  BY <1>6, <2>1, <2>2, EmitType DEF RenderGeometry
<1>7. CASE RecordPattern
  <2>1. AtShape
    BY <1>7 DEF RecordPattern
  <2>2. counter' \in Nat
    BY <1>7 DEF RecordPattern, TypeInv, TypeOK
  <2>3. /\ shape' = shape + 1
        /\ UNCHANGED <<pc, parserVars, included, place, occurrences, elements>>
    BY <1>7 DEF RecordPattern
  <2>. QED  BY <2>1, <2>2, <2>3, NextShapeType
<1>8. CASE AppendNotes
  BY <1>8 DEF AppendNotes, TypeInv, TypeOK, PlaceInv, FreshInv, Parsing,
              parserVars, Rendering
<1>. QED  BY <1>1, <1>2, <1>3, <1>4, <1>5, <1>6, <1>7, <1>8 DEF Render

LEMMA TypeInvStutter == TypeInv /\ UNCHANGED vars => TypeInv'
  BY DEF vars, parserVars, rendererVars, TypeInv, TypeOK, PlaceInv, FreshInv,
         Parsing, Rendering

LEMMA TypeInvariant == Spec => []TypeInv
<1>1. TypeInv /\ [Next]_vars => TypeInv'
  BY TypeInvParse, TypeInvRender, TypeInvStutter DEF Next
<1>. QED  BY TypeInvInit, <1>1, PTL DEF Spec

(* Every reachable state has its types, and no lookup of the renderer is    *)
(* out of range.                                                            *)
THEOREM TypeCorrect == Spec => []TypeOK
<1>1. TypeInv => TypeOK
  BY DEF TypeInv
<1>. QED  BY TypeInvariant, <1>1, PTL

-----------------------------------------------------------------------------
(* Numbers.  One counter serves placeholders and patterns: what it gave out *)
(* is below it, so the next number is new to both.                          *)

ElementSet == [slide : Nat, number : Nat, shape : Nat,
               shown : Inventories \cup {None}]

LEMMA ElementsType ==
  ASSUME TypeInv
  PROVE  /\ elements \in Seq(ElementSet)
         /\ DOMAIN elements = 1..Len(elements)
         /\ Len(elements) \in Nat
         /\ \A i \in DOMAIN elements :
              /\ elements[i].slide \in Nat
              /\ elements[i].number \in Nat
              /\ elements[i].shape \in Nat
<1>1. elements \in Seq(ElementSet)
  BY DEF TypeInv, TypeOK, ElementSet
<1>2. /\ DOMAIN elements = 1..Len(elements)
      /\ Len(elements) \in Nat
      /\ \A i \in DOMAIN elements : elements[i] \in ElementSet
  BY <1>1
<1>. QED  BY <1>1, <1>2 DEF ElementSet

(* The element that Emit adds is the last one.                              *)
LEMMA EmitElements ==
  ASSUME TypeInv, AtShape, NEW shown \in Inventories \cup {None}, NEW ref,
         Emit(shown, ref)
  PROVE  /\ DOMAIN elements' = 1..(Len(elements) + 1)
         /\ \A i \in 1..Len(elements) : elements'[i] = elements[i]
         /\ elements'[Len(elements) + 1] =
              [slide |-> place, number |-> counter, shape |-> shape,
               shown |-> shown]
         /\ counter' = counter + 1 /\ shape' = shape + 1
<1>. DEFINE new == [slide |-> place, number |-> counter, shape |-> shape,
                    shown |-> shown]
<1>1. elements \in Seq(ElementSet)
  BY ElementsType
<1>2. new \in ElementSet
  BY DEF TypeInv, TypeOK, ElementSet
<1>3. elements' = Append(elements, new)
  BY DEF Emit
<1>4. /\ elements' \in Seq(ElementSet)
      /\ Len(elements') = Len(elements) + 1
      /\ \A i \in 1..Len(elements) : elements'[i] = elements[i]
      /\ elements'[Len(elements) + 1] = new
  BY <1>1, <1>2, <1>3, AppendProperties
<1>5. DOMAIN elements' = 1..Len(elements')
  BY <1>4
<1>. QED  BY <1>4, <1>5 DEF Emit

NumberInv ==
  /\ \A i \in DOMAIN elements : elements[i].number < counter
  /\ \A i, j \in DOMAIN elements :
       elements[i].number = elements[j].number => i = j
  /\ \A d \in diagnostics : d.kind = "pattern" =>
       /\ d.ref \in Nat \X Nat
       /\ d.ref[2] < counter
       /\ \A i \in DOMAIN elements : d.ref[2] # elements[i].number

LEMMA NumberInvEmit ==
  ASSUME TypeInv, NumberInv, AtShape,
         NEW shown \in Inventories \cup {None}, NEW ref, Emit(shown, ref)
  PROVE  NumberInv'
<1>. DEFINE last == Len(elements) + 1
<1>1. /\ DOMAIN elements = 1..Len(elements) /\ Len(elements) \in Nat
      /\ DOMAIN elements' = 1..last
      /\ \A i \in 1..Len(elements) : elements'[i] = elements[i]
      /\ elements'[last].number = counter
      /\ counter' = counter + 1 /\ counter \in Nat
  <2>1. counter \in Nat
    BY DEF TypeInv, TypeOK
  <2>2. elements'[last] = [slide |-> place, number |-> counter,
                           shape |-> shape, shown |-> shown]
    BY EmitElements, Zenon
  <2>3. elements'[last].number = counter
    BY <2>2
  <2>. QED  BY <2>1, <2>3, ElementsType, EmitElements
<1>2. \A i \in DOMAIN elements : elements[i].number \in Nat
  BY ElementsType
<1>3. \A i \in DOMAIN elements' :
        \/ i \in DOMAIN elements /\ elements'[i] = elements[i]
        \/ i = last /\ elements'[i].number = counter
  BY <1>1
<1>4. \A i \in DOMAIN elements' : elements'[i].number < counter'
  BY <1>1, <1>2, <1>3 DEF NumberInv
<1>5. \A i, j \in DOMAIN elements' :
        elements'[i].number = elements'[j].number => i = j
  <2>1. \A i \in DOMAIN elements : elements[i].number < counter
    BY DEF NumberInv
  <2>2. \A i \in DOMAIN elements : elements[i].number # counter
    BY <2>1, <1>1, <1>2
  <2>. QED  BY <1>1, <1>3, <2>2 DEF NumberInv
<1>6. ASSUME NEW d \in diagnostics', d.kind = "pattern"
      PROVE  /\ d.ref \in Nat \X Nat
             /\ d.ref[2] < counter'
             /\ \A i \in DOMAIN elements' : d.ref[2] # elements'[i].number
  <2>1. d \in diagnostics
    BY <1>6 DEF Emit
  <2>2. /\ d.ref \in Nat \X Nat /\ d.ref[2] < counter
        /\ \A i \in DOMAIN elements : d.ref[2] # elements[i].number
    BY <1>6, <2>1 DEF NumberInv
  <2>3. d.ref[2] \in Nat
    BY <2>2
  <2>. QED  BY <2>2, <2>3, <1>1, <1>3
<1>. QED  BY <1>4, <1>5, <1>6 DEF NumberInv

LEMMA NumberInvPattern ==
  ASSUME TypeInv, NumberInv, RecordPattern
  PROVE  NumberInv'
<1>1. /\ counter' = counter + 1 /\ counter \in Nat
      /\ elements' = elements /\ place \in Nat
  BY DEF RecordPattern, TypeInv, TypeOK
<1>2. \A i \in DOMAIN elements :
        elements[i].number \in Nat /\ elements[i].number < counter
  BY ElementsType DEF NumberInv
<1>3. ASSUME NEW d \in diagnostics', d.kind = "pattern"
      PROVE  /\ d.ref \in Nat \X Nat
             /\ d.ref[2] < counter'
             /\ \A i \in DOMAIN elements : d.ref[2] # elements[i].number
  <2>1. CASE d \in diagnostics
    <3>1. /\ d.ref \in Nat \X Nat /\ d.ref[2] < counter
          /\ \A i \in DOMAIN elements : d.ref[2] # elements[i].number
      BY <1>3, <2>1 DEF NumberInv
    <3>2. d.ref[2] \in Nat
      BY <3>1
    <3>. QED  BY <3>1, <3>2, <1>1
  <2>2. CASE d \notin diagnostics
    <3>1. d.ref = <<place, counter>>
      BY <2>2 DEF RecordPattern, Placeholder
    <3>. QED  BY <3>1, <1>1, <1>2
  <2>. QED  BY <2>1, <2>2
<1>4. \A i \in DOMAIN elements : elements[i].number < counter'
  BY <1>1, <1>2
<1>. QED  BY <1>1, <1>3, <1>4 DEF NumberInv

LEMMA NumberInvStep ==
  TypeInv /\ NumberInv /\ [Next]_vars => NumberInv'
<1>. SUFFICES ASSUME TypeInv, NumberInv, [Next]_vars PROVE NumberInv'
  OBVIOUS
<1>1. CASE RenderEmbedded
  <2>. DEFINE entry == store[LookupKey][occurrences[LookupKey] + 1]
  <2>1. AtShape /\ entry \in Inventories
    BY <1>1, EntryType DEF RenderEmbedded
  <2>. QED  BY <1>1, <2>1, NumberInvEmit DEF RenderEmbedded
<1>2. CASE RenderLost
  BY <1>2, NumberInvEmit DEF RenderLost
<1>3. CASE RenderGeometry
  BY <1>3, NumberInvEmit DEF RenderGeometry
<1>4. CASE RecordPattern
  BY <1>4, NumberInvPattern
<1>5. CASE AppendNotes
  BY <1>5 DEF AppendNotes, NumberInv
<1>6. CASE UNCHANGED <<counter, elements, diagnostics>>
  BY <1>6 DEF NumberInv
<1>7. BeginRender \/ NextSlide \/ SkipHidden
        => UNCHANGED <<counter, elements, diagnostics>>
  BY DEF BeginRender, NextSlide, SkipHidden
<1>8. Parse \/ UNCHANGED vars => UNCHANGED <<counter, elements, diagnostics>>
  BY DEF Parse, ReadSlide, SkipReference, EndSlide, Fail, ResolveShape, vars,
         rendererVars
<1>. QED  BY <1>1, <1>2, <1>3, <1>4, <1>5, <1>6, <1>7, <1>8 DEF Next, Render

(* No two placeholders have one id, and no pattern has the number of one.   *)
THEOREM IdsAreUnique == Spec => []NumbersAreUnique
<1>1. Init => NumberInv
  BY DEF Init, NumberInv
<1>2. TypeInv /\ NumberInv => NumbersAreUnique
  BY DEF NumberInv, NumbersAreUnique
<1>. QED  BY <1>1, <1>2, TypeInvariant, NumberInvStep, PTL DEF Spec

-----------------------------------------------------------------------------
(* Identities.  An entry of the inventory is registered once: its part is   *)
(* read once, and within a part seen counts what has the same id.  And an   *)
(* entry is looked up once: occurrences counts the lookups of its key.      *)

(* No two entries of the store are equal.                                   *)
EntriesDiffer ==
  \A k, l \in Keys : \A m \in 1..Len(store[k]), n \in 1..Len(store[l]) :
    store[k][m] = store[l][n] => k = l /\ m = n

StoreInv ==
  /\ \A i, j \in DOMAIN refs : refs[i] = refs[j] => i = j
  /\ \A k \in Keys : \A n \in 1..Len(store[k]) :
       store[k][n].part = k[1] /\ store[k][n].id = k[2]
  /\ EntriesDiffer
  /\ pc = "slides" => \A k \in Keys :
       Len(store[k]) > 0 => \E j \in 1..(next - 1) : refs[j] = k[1]
  /\ pc = "shapes" =>
       /\ slides[Len(slides)].part = refs[next]
       /\ \A k \in Keys : Len(store[k]) > 0 => \E j \in 1..next : refs[j] = k[1]
       /\ \A k \in Keys : k[1] = refs[next] =>
            \A n \in 1..Len(store[k]) : store[k][n].occurrence < seen[k[2]]

LEMMA StoreType ==
  ASSUME TypeInv, NEW k \in Keys
  PROVE  /\ store[k] \in Seq(Inventories) /\ Len(store[k]) \in Nat
         /\ \A n \in 1..Len(store[k]) : store[k][n].occurrence \in Nat
         /\ k[1] \in Parts /\ k[2] \in Ids /\ seen[k[2]] \in Nat
<1>1. store[k] \in Seq(Inventories)
  BY DEF TypeInv, TypeOK
<1>2. Len(store[k]) \in Nat /\ \A n \in 1..Len(store[k]) : store[k][n] \in Inventories
  BY <1>1
<1>3. k[1] \in Parts /\ k[2] \in Ids
  BY DEF Keys
<1>4. seen[k[2]] \in Nat
  BY <1>3 DEF TypeInv, TypeOK
<1>. QED  BY <1>1, <1>2, <1>3, <1>4 DEF Inventories

LEMMA StoreInvInit == Init => StoreInv
<1>. SUFFICES ASSUME Init PROVE StoreInv
  OBVIOUS
<1>1. \A k \in Keys : store[k] = <<>>
  BY DEF Init
<1>2. \A i, j \in DOMAIN refs : refs[i] = refs[j] => i = j
  BY DEF Init
<1>3. pc = "slides"
  BY DEF Init
<1>. QED  BY <1>1, <1>2, <1>3 DEF StoreInv, EntriesDiffer

LEMMA StoreInvReadSlide ==
  ASSUME TypeInv, StoreInv, ReadSlide
  PROVE  StoreInv'
<1>1. /\ pc = "slides" /\ pc' = "shapes" /\ next \in 1..Len(refs)
      /\ refs' = refs /\ next' = next /\ store' = store
      /\ refs \in Seq(Parts)
  BY DEF ReadSlide, TypeInv, TypeOK
<1>2. slides'[Len(slides')].part = refs[next]
  <2>. DEFINE new == [part |-> refs[next], shapes |-> <<>>]
  <2>1. refs[next] \in Parts
    BY <1>1
  <2>2. new \in SlideSet
    BY <2>1 DEF SlideSet
  <2>3. slides \in Seq(SlideSet) /\ slides' = Append(slides, new)
    BY SlidesType DEF ReadSlide
  <2>4. Len(slides') = Len(slides) + 1 /\ slides'[Len(slides) + 1] = new
    BY <2>2, <2>3, AppendProperties
  <2>. QED  BY <2>4
<1>3. \A k \in Keys : Len(store[k]) > 0 => \E j \in 1..(next - 1) : refs[j] = k[1]
  BY <1>1 DEF StoreInv
<1>4. \A k \in Keys : Len(store[k]) > 0 => \E j \in 1..next : refs[j] = k[1]
  BY <1>1, <1>3
<1>5. ASSUME NEW k \in Keys, k[1] = refs[next], NEW n \in 1..Len(store[k])
      PROVE  FALSE
  <2>1. Len(store[k]) > 0
    BY StoreType
  <2>2. PICK j \in 1..(next - 1) : refs[j] = k[1]
    BY <2>1, <1>3
  <2>3. j \in DOMAIN refs /\ next \in DOMAIN refs /\ j # next
    BY <1>1
  <2>. QED  BY <2>2, <2>3, <1>5 DEF StoreInv
<1>. QED  BY <1>1, <1>2, <1>4, <1>5 DEF StoreInv, EntriesDiffer

LEMMA StoreInvResolveShape ==
  ASSUME TypeInv, StoreInv, NEW s \in Shapes, ResolveShape(s)
  PROVE  StoreInv'
<1>1. /\ pc = "shapes" /\ pc' = "shapes" /\ refs' = refs /\ next' = next
  BY DEF ResolveShape
<1>2. slides'[Len(slides')].part = slides[Len(slides)].part
  BY <1>1, ResolveSlides, SlidesType
<1>3. CASE s \notin Embedded
  <2>1. seen' = seen /\ store' = store
    BY <1>3 DEF ResolveShape
  <2>. QED  BY <1>1, <1>2, <2>1 DEF StoreInv, EntriesDiffer
<1>4. CASE s \in Embedded
  <2>. DEFINE part == slides[Len(slides)].part
              key  == <<part, s.id, s.raw>>
              new  == Entry(part, s)
              last == Len(store[key]) + 1
  <2>1. /\ key \in Keys /\ s.id \in Ids /\ seen[s.id] \in Nat
        /\ seen' = [seen EXCEPT ![s.id] = @ + 1]
        /\ store' = [store EXCEPT ![key] = Append(@, new)]
        /\ store[key] \in Seq(Inventories) /\ new \in Inventories
    BY <1>4, ResolveStore
  <2>2. /\ new.part = part /\ new.id = s.id /\ new.occurrence = seen[s.id]
        /\ key[1] = part /\ key[2] = s.id
        /\ part = refs[next]
    BY <1>1 DEF Entry, StoreInv
  <2>3. /\ store'[key] = Append(store[key], new)
        /\ \A k \in Keys : k # key => store'[k] = store[k]
    <3>. HIDE DEF key, new
    <3>. QED  BY <2>1 DEF TypeInv, TypeOK
  <2>4. /\ Len(store'[key]) = last /\ store'[key][last] = new
        /\ \A n \in 1..Len(store[key]) : store'[key][n] = store[key][n]
    BY <2>1, <2>3, AppendProperties
  <2>5. /\ seen \in [Ids -> Nat]
        /\ \A i \in Ids : seen'[i] = IF i = s.id THEN seen[i] + 1 ELSE seen[i]
    BY <2>1 DEF TypeInv, TypeOK
  <2>6. ASSUME NEW k \in Keys, NEW n \in 1..Len(store'[k])
        PROVE  \/ n \in 1..Len(store[k]) /\ store'[k][n] = store[k][n]
               \/ k = key /\ n = last /\ store'[k][n] = new
    <3>. HIDE DEF key, new
    <3>1. CASE k # key
      BY <3>1, <2>3
    <3>2. CASE k = key
      <4>1. Len(store[key]) \in Nat
        BY <2>1
      <4>2. n \in 1..last
        BY <3>2, <2>4
      <4>. QED  BY <3>2, <2>4, <4>1, <4>2
    <3>. QED  BY <3>1, <3>2
  <2>7. \A k \in Keys : \A n \in 1..Len(store[k]) : store[k][n] # new
    <3>. SUFFICES ASSUME NEW k \in Keys, NEW n \in 1..Len(store[k]),
                         store[k][n] = new
                  PROVE  FALSE
      OBVIOUS
    <3>1. k[1] = part /\ k[2] = s.id
      BY <2>2 DEF StoreInv
    <3>2. store[k][n].occurrence < seen[s.id]
      BY <1>1, <2>2, <3>1 DEF StoreInv
    <3>. QED  BY <2>1, <2>2, <3>2
  <2>. HIDE DEF part, key, new, last
  <2>8. \A k \in Keys : \A n \in 1..Len(store'[k]) :
          store'[k][n].part = k[1] /\ store'[k][n].id = k[2]
    BY <2>2, <2>6 DEF StoreInv
  <2>9. EntriesDiffer'
    <3>. SUFFICES ASSUME NEW k \in Keys, NEW l \in Keys,
                         NEW m \in 1..Len(store'[k]), NEW n \in 1..Len(store'[l]),
                         store'[k][m] = store'[l][n]
                  PROVE  k = l /\ m = n
      BY DEF EntriesDiffer
    <3>1. CASE m \in 1..Len(store[k]) /\ store'[k][m] = store[k][m]
               /\ n \in 1..Len(store[l]) /\ store'[l][n] = store[l][n]
      <4>1. store[k][m] = store[l][n]
        BY <3>1
      <4>. QED  BY <3>1, <4>1 DEF StoreInv, EntriesDiffer
    <3>. QED  BY <2>6, <2>7, <3>1
  <2>10. \A k \in Keys : Len(store'[k]) > 0 => \E j \in 1..next : refs[j] = k[1]
    <3>. SUFFICES ASSUME NEW k \in Keys, Len(store'[k]) > 0
                  PROVE  \E j \in 1..next : refs[j] = k[1]
      OBVIOUS
    <3>1. CASE k = key
      BY <3>1, <2>2 DEF TypeInv, TypeOK
    <3>2. CASE k # key
      BY <3>2, <2>3, <1>1 DEF StoreInv
    <3>. QED  BY <3>1, <3>2
  <2>11. ASSUME NEW k \in Keys, k[1] = refs[next], NEW n \in 1..Len(store'[k])
         PROVE  store'[k][n].occurrence < seen'[k[2]]
    <3>1. k[2] \in Ids
      BY StoreType
    <3>2. CASE n \in 1..Len(store[k]) /\ store'[k][n] = store[k][n]
      <4>1. store[k][n].occurrence < seen[k[2]]
        BY <1>1, <2>11, <3>2 DEF StoreInv
      <4>2. store[k][n].occurrence \in Nat /\ seen[k[2]] \in Nat
        BY <3>2, StoreType
      <4>. QED  BY <3>1, <3>2, <4>1, <4>2, <2>5
    <3>3. CASE k = key /\ n = last /\ store'[k][n] = new
      BY <3>1, <3>3, <2>1, <2>2, <2>5
    <3>. QED  BY <2>6, <3>2, <3>3
  <2>12. slides'[Len(slides')].part = refs[next]
    BY <1>2, <2>2 DEF part
  <2>. QED  BY <1>1, <2>8, <2>9, <2>10, <2>11, <2>12 DEF StoreInv
<1>. QED  BY <1>3, <1>4

LEMMA StoreInvStep == TypeInv /\ StoreInv /\ [Next]_vars => StoreInv'
<1>. SUFFICES ASSUME TypeInv, StoreInv, [Next]_vars PROVE StoreInv'
  OBVIOUS
<1>1. CASE ReadSlide
  BY <1>1, StoreInvReadSlide
<1>2. ASSUME NEW s \in Shapes, ResolveShape(s) PROVE StoreInv'
  BY <1>2, StoreInvResolveShape
<1>3. CASE SkipReference
  <2>1. /\ pc = "slides" /\ pc' = "slides" /\ next' = next + 1 /\ next \in Nat
        /\ refs' = refs /\ store' = store
    BY <1>3 DEF SkipReference, TypeInv, TypeOK
  <2>2. \A k \in Keys : Len(store[k]) > 0 => \E j \in 1..(next' - 1) : refs[j] = k[1]
    BY <2>1 DEF StoreInv
  <2>. QED  BY <2>1, <2>2 DEF StoreInv, EntriesDiffer
<1>4. CASE EndSlide
  <2>1. /\ pc = "shapes" /\ pc' = "slides" /\ next' = next + 1 /\ next \in Nat
        /\ refs' = refs /\ store' = store
    BY <1>4 DEF EndSlide, TypeInv, TypeOK
  <2>2. \A k \in Keys : Len(store[k]) > 0 => \E j \in 1..(next' - 1) : refs[j] = k[1]
    BY <2>1 DEF StoreInv
  <2>. QED  BY <2>1, <2>2 DEF StoreInv, EntriesDiffer
<1>5. CASE Fail
  BY <1>5 DEF Fail, parserVars, StoreInv, EntriesDiffer
<1>6. CASE Render
  <2>1. pc' \in {"render", "done"} /\ UNCHANGED parserVars
    BY <1>6 DEF Render, BeginRender, NextSlide, SkipHidden, RenderEmbedded,
                RenderLost, RenderGeometry, RecordPattern, AppendNotes,
                AtShape, Rendering
  <2>. QED  BY <2>1 DEF parserVars, StoreInv, EntriesDiffer
<1>7. CASE UNCHANGED vars
  BY <1>7 DEF vars, parserVars, StoreInv, EntriesDiffer
<1>. QED  BY <1>1, <1>2, <1>3, <1>4, <1>5, <1>6, <1>7 DEF Next, Parse

(* Every identity that is shown was looked up under its key.                *)
LookedUp(shown, entries, count) ==
  \E k \in Keys : \E m \in 1..Len(entries[k]) :
    m <= count[k] /\ shown = entries[k][m]

IdentityInv ==
  /\ \A i \in DOMAIN elements :
       elements[i].shown # None =>
         LookedUp(elements[i].shown, store, occurrences)
  /\ IdentitiesAreUnique

LEMMA IdentityInvEmbedded ==
  ASSUME TypeInv, StoreInv, IdentityInv, RenderEmbedded
  PROVE  IdentityInv'
<1>. DEFINE key  == LookupKey
            m    == occurrences[key] + 1
            new  == store[key][m]
            last == Len(elements) + 1
<1>1. /\ AtShape /\ key \in Keys /\ occurrences[key] \in Nat
      /\ m \in 1..Len(store[key]) /\ new \in Inventories
      /\ store' = store
      /\ occurrences' = [occurrences EXCEPT ![key] = @ + 1]
      /\ Emit(new, <<new.part, new.id, new.occurrence>>)
  BY EntryType DEF RenderEmbedded, parserVars
<1>2. /\ DOMAIN elements' = 1..last
      /\ \A i \in 1..Len(elements) : elements'[i] = elements[i]
      /\ DOMAIN elements = 1..Len(elements) /\ Len(elements) \in Nat
  BY <1>1, EmitElements, ElementsType
<1>3. elements'[last] = [slide |-> place, number |-> counter,
                         shape |-> shape, shown |-> new]
  <2>. HIDE DEF new
  <2>. QED  BY <1>1, EmitElements, Zenon
<1>4. elements'[last].shown = new
  BY <1>3
<1>5. \A i \in DOMAIN elements' :
        \/ i \in DOMAIN elements /\ elements'[i] = elements[i]
        \/ i = last
  BY <1>2
<1>6. /\ occurrences \in [Keys -> Nat]
      /\ \A k \in Keys : occurrences[k] \in Nat /\ occurrences'[k] \in Nat
                        /\ occurrences[k] <= occurrences'[k]
      /\ occurrences'[key] = m
  <2>1. occurrences \in [Keys -> Nat]
    BY DEF TypeInv, TypeOK
  <2>. HIDE DEF key
  <2>. QED  BY <1>1, <2>1
<1>. HIDE DEF key, m, new, last
<1>7. \A x : LookedUp(x, store, occurrences) => LookedUp(x, store', occurrences')
  BY <1>1, <1>6 DEF LookedUp
<1>8. LookedUp(new, store', occurrences')
  BY <1>1, <1>6 DEF LookedUp, new
<1>9. ~LookedUp(new, store, occurrences)
  <2>. SUFFICES ASSUME NEW k \in Keys, NEW n \in 1..Len(store[k]),
                       n <= occurrences[k], new = store[k][n]
                PROVE  FALSE
    BY DEF LookedUp
  <2>1. k = key /\ n = m
    BY <1>1 DEF new, StoreInv, EntriesDiffer
  <2>. QED  BY <1>1, <2>1 DEF m
<1>10. \A i \in DOMAIN elements' :
         elements'[i].shown # None =>
           LookedUp(elements'[i].shown, store', occurrences')
  BY <1>4, <1>5, <1>7, <1>8 DEF IdentityInv
<1>11. IdentitiesAreUnique'
  BY <1>4, <1>5, <1>9 DEF IdentityInv, IdentitiesAreUnique
<1>. QED  BY <1>10, <1>11 DEF IdentityInv

(* A plain placeholder shows no identity.                                   *)
LEMMA IdentityInvPlain ==
  ASSUME TypeInv, IdentityInv, AtShape, NEW ref, Emit(None, ref),
         store' = store,
         \A k \in Keys : occurrences[k] <= occurrences'[k],
         occurrences' \in [Keys -> Nat]
  PROVE  IdentityInv'
<1>. DEFINE last == Len(elements) + 1
<1>1. /\ DOMAIN elements' = 1..last
      /\ \A i \in 1..Len(elements) : elements'[i] = elements[i]
      /\ DOMAIN elements = 1..Len(elements) /\ Len(elements) \in Nat
  BY EmitElements, ElementsType
<1>2. elements'[last] = [slide |-> place, number |-> counter,
                         shape |-> shape, shown |-> None]
  BY EmitElements, Zenon
<1>3. elements'[last].shown = None
  BY <1>2
<1>4. \A i \in DOMAIN elements' :
        \/ i \in DOMAIN elements /\ elements'[i] = elements[i]
        \/ i = last
  BY <1>1
<1>5. \A k \in Keys : occurrences[k] \in Nat /\ occurrences'[k] \in Nat
  BY DEF TypeInv, TypeOK
<1>. HIDE DEF last
<1>6. \A x : LookedUp(x, store, occurrences) => LookedUp(x, store', occurrences')
  BY <1>5 DEF LookedUp
<1>7. \A i \in DOMAIN elements' :
         elements'[i].shown # None =>
           LookedUp(elements'[i].shown, store', occurrences')
  BY <1>3, <1>4, <1>6 DEF IdentityInv
<1>8. IdentitiesAreUnique'
  BY <1>3, <1>4 DEF IdentityInv, IdentitiesAreUnique
<1>. QED  BY <1>7, <1>8 DEF IdentityInv

LEMMA IdentityInvStep ==
  TypeInv /\ TypeInv' /\ StoreInv /\ IdentityInv /\ [Next]_vars => IdentityInv'
<1>. SUFFICES ASSUME TypeInv, TypeInv', StoreInv, IdentityInv, [Next]_vars
              PROVE IdentityInv'
  OBVIOUS
<1>0. occurrences \in [Keys -> Nat] /\ occurrences' \in [Keys -> Nat]
  BY DEF TypeInv, TypeOK
<1>1. CASE RenderEmbedded
  BY <1>1, IdentityInvEmbedded
<1>2. CASE RenderLost
  <2>1. /\ AtShape /\ LookupKey \in Keys /\ store' = store
        /\ occurrences' = [occurrences EXCEPT ![LookupKey] = @ + 1]
    BY <1>2, AtShapeType DEF RenderLost, parserVars
  <2>2. \A k \in Keys : occurrences[k] <= occurrences'[k]
    BY <1>0, <2>1
  <2>. QED  BY <1>0, <1>2, <2>1, <2>2, IdentityInvPlain DEF RenderLost
<1>3. CASE RenderGeometry
  <2>1. /\ AtShape /\ store' = store /\ occurrences' = occurrences
        /\ Emit(None, Placeholder)
    BY <1>3 DEF RenderGeometry, parserVars
  <2>2. \A k \in Keys : occurrences[k] <= occurrences'[k]
    BY <1>0, <2>1
  <2>. QED  BY <1>0, <2>1, <2>2, IdentityInvPlain
<1>4. CASE UNCHANGED <<store, occurrences, elements>>
  BY <1>4 DEF IdentityInv, LookedUp, IdentitiesAreUnique
<1>5. BeginRender \/ NextSlide \/ SkipHidden \/ RecordPattern \/ AppendNotes
        \/ UNCHANGED vars => UNCHANGED <<store, occurrences, elements>>
  BY DEF BeginRender, NextSlide, SkipHidden, RecordPattern, AppendNotes, vars,
         parserVars, rendererVars
<1>6. CASE Parse
  <2>1. elements' = elements /\ Parsing
    BY <1>6 DEF Parse, ReadSlide, SkipReference, EndSlide, Fail, ResolveShape,
                rendererVars, Parsing
  <2>2. DOMAIN elements' = {}
    BY <2>1 DEF TypeInv, FreshInv
  <2>. QED  BY <2>2 DEF IdentityInv, IdentitiesAreUnique
<1>. QED  BY <1>1, <1>2, <1>3, <1>4, <1>5, <1>6 DEF Next, Render

(* No two placeholders name the same object of the package as their source. *)
THEOREM SourcesAreUnique == Spec => []IdentitiesAreUnique
<1>1. Init => IdentityInv
  BY DEF Init, IdentityInv, IdentitiesAreUnique
<1>2. IdentityInv => IdentitiesAreUnique
  BY DEF IdentityInv
<1>. QED  BY <1>1, <1>2, TypeInvariant, StoreInvInit, StoreInvStep,
          IdentityInvStep, PTL DEF Spec

-----------------------------------------------------------------------------
(* Order.  The elements are the visible shapes before the place the         *)
(* renderer is at, no more and no fewer.                                    *)

Due(p, s) ==
  /\ p \in included
  /\ s \in DOMAIN slides[p].shapes
  /\ ~slides[p].shapes[s].hidden
  /\ slides[p].shapes[s] # Pattern

OrderInv ==
  /\ \A i, j \in DOMAIN elements : i < j =>
       ComesFirst(elements[i].slide, elements[i].shape,
                  elements[j].slide, elements[j].shape)
  /\ \A i \in DOMAIN elements :
       /\ Due(elements[i].slide, elements[i].shape)
       /\ ComesFirst(elements[i].slide, elements[i].shape, place, shape)
  /\ \A p, s \in Nat : Due(p, s) /\ ComesFirst(p, s, place, shape) =>
       \E i \in DOMAIN elements : elements[i].slide = p /\ elements[i].shape = s
  /\ pc = "done" => place \notin DOMAIN slides

(* Where the renderer is, in numbers.                                       *)
LEMMA PlaceType ==
  ASSUME TypeInv
  PROVE  /\ place \in Nat /\ shape \in Nat /\ shape >= 1
         /\ \A p, s : Due(p, s) => /\ p \in Nat /\ s \in Nat /\ s >= 1
                                  /\ p \in DOMAIN slides
                                  /\ p <= Len(slides)
                                  /\ s <= Len(slides[p].shapes)
<1>1. place \in Nat /\ shape \in Nat /\ shape >= 1 /\ included \subseteq DOMAIN slides
  BY SlidesType DEF TypeInv, TypeOK
<1>2. ASSUME NEW p, NEW s, Due(p, s)
      PROVE  /\ p \in Nat /\ s \in Nat /\ s >= 1
             /\ p \in DOMAIN slides /\ p <= Len(slides)
             /\ s <= Len(slides[p].shapes)
  <2>1. p \in DOMAIN slides /\ s \in DOMAIN slides[p].shapes
    BY <1>1, <1>2 DEF Due
  <2>2. p \in 1..Len(slides) /\ slides[p].shapes \in Seq(Shapes)
    BY <2>1, SlidesType
  <2>3. s \in 1..Len(slides[p].shapes) /\ Len(slides[p].shapes) \in Nat
    BY <2>1, <2>2
  <2>. QED  BY <2>1, <2>2, <2>3, SlidesType
<1>. QED  BY <1>1, <1>2

(* The renderer moves on, and nothing that is due lies between.             *)
LEMMA OrderInvMove ==
  ASSUME OrderInv, UNCHANGED <<slides, included, elements>>, pc' # "done",
         \A i \in DOMAIN elements :
           ComesFirst(elements[i].slide, elements[i].shape, place', shape'),
         \A p, s \in Nat : Due(p, s) /\ ComesFirst(p, s, place', shape')
                             => ComesFirst(p, s, place, shape)
  PROVE  OrderInv'
<1>1. \A i, j \in DOMAIN elements' : i < j =>
        ComesFirst(elements'[i].slide, elements'[i].shape,
                   elements'[j].slide, elements'[j].shape)
  BY DEF OrderInv
<1>2. \A i \in DOMAIN elements' :
        /\ Due(elements[i].slide, elements[i].shape)'
        /\ ComesFirst(elements'[i].slide, elements'[i].shape, place', shape')
  <2>. SUFFICES ASSUME NEW i \in DOMAIN elements'
                PROVE  /\ Due(elements[i].slide, elements[i].shape)'
                       /\ ComesFirst(elements'[i].slide, elements'[i].shape,
                                     place', shape')
    OBVIOUS
  <2>1. Due(elements[i].slide, elements[i].shape)
    BY DEF OrderInv
  <2>2. Due(elements[i].slide, elements[i].shape)'
    BY <2>1, Zenon DEF Due
  <2>. QED  BY <2>2
<1>3. \A p, s \in Nat : Due(p, s)' /\ ComesFirst(p, s, place', shape') =>
        \E i \in DOMAIN elements' : elements'[i].slide = p /\ elements'[i].shape = s
  <2>. SUFFICES ASSUME NEW p \in Nat, NEW s \in Nat, Due(p, s)',
                       ComesFirst(p, s, place', shape')
                PROVE  \E i \in DOMAIN elements' :
                         elements'[i].slide = p /\ elements'[i].shape = s
    OBVIOUS
  <2>1. Due(p, s)
    BY Zenon DEF Due
  <2>2. \E i \in DOMAIN elements : elements[i].slide = p /\ elements[i].shape = s
    BY <2>1 DEF OrderInv
  <2>. QED  BY <2>2
<1>. QED  BY <1>1, <1>2, <1>3, Zenon DEF OrderInv

(* The renderer passes a shape that gets no placeholder.                    *)
LEMMA OrderInvPass ==
  ASSUME TypeInv, OrderInv, AtShape, ~Due(place, shape), shape' = shape + 1,
         UNCHANGED <<pc, slides, included, place, elements>>
  PROVE  OrderInv'
<1>1. \A p, s \in Nat : Due(p, s) /\ ComesFirst(p, s, place, shape + 1)
                          => ComesFirst(p, s, place, shape)
  BY PlaceType DEF ComesFirst
<1>2. \A i \in DOMAIN elements :
        ComesFirst(elements[i].slide, elements[i].shape, place, shape + 1)
  BY PlaceType, ElementsType DEF OrderInv, ComesFirst
<1>3. pc' # "done"
  BY DEF AtShape, Rendering
<1>. QED  BY <1>1, <1>2, <1>3, OrderInvMove

LEMMA OrderInvEmit ==
  ASSUME TypeInv, OrderInv, AtShape, ~Current.hidden, Current # Pattern,
         NEW shown \in Inventories \cup {None}, NEW ref, Emit(shown, ref),
         UNCHANGED <<pc, slides, included, place>>
  PROVE  OrderInv'
<1>. DEFINE last == Len(elements) + 1
<1>1. /\ DOMAIN elements' = 1..last
      /\ \A i \in 1..Len(elements) : elements'[i] = elements[i]
      /\ DOMAIN elements = 1..Len(elements) /\ Len(elements) \in Nat
      /\ shape' = shape + 1
  BY EmitElements, ElementsType
<1>2. elements'[last] = [slide |-> place, number |-> counter,
                         shape |-> shape, shown |-> shown]
  BY EmitElements, Zenon
<1>3. elements'[last].slide = place /\ elements'[last].shape = shape
  BY <1>2
<1>4. \A i \in DOMAIN elements' :
        \/ i \in DOMAIN elements /\ elements'[i] = elements[i] /\ i < last
        \/ i = last
  BY <1>1
<1>5. DOMAIN elements \subseteq DOMAIN elements' /\ last \in DOMAIN elements'
  BY <1>1
<1>6. /\ place \in Nat /\ shape \in Nat
      /\ \A i \in DOMAIN elements : elements[i].slide \in Nat /\ elements[i].shape \in Nat
  BY PlaceType, ElementsType
<1>7. Due(place, shape)
  BY DEF AtShape, Current, Due
<1>9. \A i, j \in DOMAIN elements' : i < j =>
        ComesFirst(elements'[i].slide, elements'[i].shape,
                   elements'[j].slide, elements'[j].shape)
  <2>. SUFFICES ASSUME NEW i \in DOMAIN elements', NEW j \in DOMAIN elements',
                       i < j
                PROVE  ComesFirst(elements'[i].slide, elements'[i].shape,
                                  elements'[j].slide, elements'[j].shape)
    OBVIOUS
  <2>1. i \in DOMAIN elements /\ elements'[i] = elements[i]
    BY <1>1
  <2>2. CASE j = last
    BY <2>1, <2>2, <1>3 DEF OrderInv
  <2>3. CASE j \in DOMAIN elements /\ elements'[j] = elements[j]
    BY <2>1, <2>3 DEF OrderInv
  <2>. QED  BY <1>4, <2>2, <2>3
<1>. HIDE DEF last
<1>10. \A i \in DOMAIN elements' :
         /\ Due(elements'[i].slide, elements'[i].shape)
         /\ ComesFirst(elements'[i].slide, elements'[i].shape, place, shape + 1)
  <2>. SUFFICES ASSUME NEW i \in DOMAIN elements'
                PROVE  /\ Due(elements'[i].slide, elements'[i].shape)
                       /\ ComesFirst(elements'[i].slide, elements'[i].shape,
                                     place, shape + 1)
    OBVIOUS
  <2>1. CASE i = last
    BY <2>1, <1>3, <1>6, <1>7 DEF ComesFirst
  <2>2. CASE i \in DOMAIN elements /\ elements'[i] = elements[i]
    <3>1. /\ Due(elements[i].slide, elements[i].shape)
          /\ ComesFirst(elements[i].slide, elements[i].shape, place, shape)
      BY <2>2 DEF OrderInv
    <3>. QED  BY <2>2, <3>1, <1>6 DEF ComesFirst
  <2>. QED  BY <1>4, <2>1, <2>2
<1>11. ASSUME NEW p \in Nat, NEW s \in Nat, Due(p, s),
              ComesFirst(p, s, place, shape + 1)
       PROVE  \E i \in DOMAIN elements' :
                elements'[i].slide = p /\ elements'[i].shape = s
  <2>1. ComesFirst(p, s, place, shape) \/ (p = place /\ s = shape)
    BY <1>6, <1>11 DEF ComesFirst
  <2>2. CASE p = place /\ s = shape
    BY <2>2, <1>3, <1>5
  <2>3. CASE ComesFirst(p, s, place, shape)
    <3>1. PICK i \in DOMAIN elements : elements[i].slide = p /\ elements[i].shape = s
      BY <1>11, <2>3 DEF OrderInv
    <3>2. elements'[i] = elements[i]
      BY <3>1, <1>1
    <3>. QED  BY <3>1, <3>2, <1>5
  <2>. QED  BY <2>1, <2>2, <2>3
<1>12. pc # "done"
  BY DEF AtShape, Rendering
<1>13. \A p, s : Due(p, s)' <=> Due(p, s)
  BY DEF Due
<1>14. \A i \in DOMAIN elements' :
         /\ Due(elements[i].slide, elements[i].shape)'
         /\ ComesFirst(elements'[i].slide, elements'[i].shape, place', shape')
  <2>. SUFFICES ASSUME NEW i \in DOMAIN elements'
                PROVE  /\ Due(elements[i].slide, elements[i].shape)'
                       /\ ComesFirst(elements'[i].slide, elements'[i].shape,
                                     place', shape')
    OBVIOUS
  <2>1. Due(elements'[i].slide, elements'[i].shape)
    BY <1>10
  <2>2. Due(elements[i].slide, elements[i].shape)'
    BY <2>1, Zenon DEF Due
  <2>. QED  BY <2>2, <1>10, <1>1
<1>15. \A p, s \in Nat : Due(p, s)' /\ ComesFirst(p, s, place', shape') =>
         \E i \in DOMAIN elements' : elements'[i].slide = p /\ elements'[i].shape = s
  <2>. SUFFICES ASSUME NEW p \in Nat, NEW s \in Nat, Due(p, s)',
                       ComesFirst(p, s, place', shape')
                PROVE  \E i \in DOMAIN elements' :
                         elements'[i].slide = p /\ elements'[i].shape = s
    OBVIOUS
  <2>1. Due(p, s)
    BY <1>13, Zenon
  <2>2. ComesFirst(p, s, place, shape + 1)
    BY <1>1
  <2>. QED  BY <2>1, <2>2, <1>11
<1>16. pc' # "done"
  BY <1>12
<1>. QED  BY <1>9, <1>14, <1>15, <1>16, Zenon DEF OrderInv

LEMMA OrderInvNextSlide ==
  ASSUME TypeInv, OrderInv, NextSlide
  PROVE  OrderInv'
<1>1. /\ place' = place + 1 /\ shape' = 1 /\ pc' = "render"
      /\ UNCHANGED <<slides, included, elements>>
      /\ place \in included => shape > Len(slides[place].shapes)
      /\ place \in DOMAIN slides
  BY DEF NextSlide, Rendering, parserVars
<1>2. \A p, s \in Nat : Due(p, s) /\ ComesFirst(p, s, place + 1, 1)
                          => ComesFirst(p, s, place, shape)
  <2>. SUFFICES ASSUME NEW p \in Nat, NEW s \in Nat, Due(p, s),
                       ComesFirst(p, s, place + 1, 1)
                PROVE  ComesFirst(p, s, place, shape)
    OBVIOUS
  <2>1. p \in included /\ s >= 1 /\ s <= Len(slides[p].shapes)
    BY PlaceType DEF Due
  <2>2. p <= place
    BY <2>1, PlaceType DEF ComesFirst
  <2>3. CASE p = place
    <3>1. slides[place].shapes \in Seq(Shapes)
      BY <1>1, SlidesType
    <3>2. Len(slides[place].shapes) \in Nat
      BY <3>1
    <3>. QED  BY <2>1, <2>3, <3>2, <1>1, PlaceType DEF ComesFirst
  <2>. QED  BY <2>2, <2>3, PlaceType DEF ComesFirst
<1>3. \A i \in DOMAIN elements :
        ComesFirst(elements[i].slide, elements[i].shape, place + 1, 1)
  BY PlaceType, ElementsType DEF OrderInv, ComesFirst
<1>. QED  BY <1>1, <1>2, <1>3, OrderInvMove

(* As long as nothing is rendered, nothing is due.                          *)
LEMMA OrderInvFresh ==
  elements = <<>> /\ place = 1 /\ shape = 1 /\ pc # "done" /\ TypeInv => OrderInv
<1>. SUFFICES ASSUME elements = <<>>, place = 1, shape = 1, pc # "done", TypeInv
              PROVE  OrderInv
  OBVIOUS
<1>1. \A p, s \in Nat : Due(p, s) => ~ComesFirst(p, s, place, shape)
  <2>. SUFFICES ASSUME NEW p \in Nat, NEW s \in Nat, Due(p, s)
                PROVE  ~ComesFirst(p, s, 1, 1)
    OBVIOUS
  <2>1. p \in DOMAIN slides /\ s >= 1
    BY PlaceType
  <2>2. p >= 1
    BY <2>1, SlidesType
  <2>. QED  BY <2>1, <2>2 DEF ComesFirst
<1>2. DOMAIN elements = {}
  OBVIOUS
<1>. QED  BY <1>1, <1>2 DEF OrderInv

LEMMA OrderInvStep ==
  TypeInv /\ TypeInv' /\ OrderInv /\ [Next]_vars => OrderInv'
<1>. SUFFICES ASSUME TypeInv, TypeInv', OrderInv, [Next]_vars PROVE OrderInv'
  OBVIOUS
<1>1. CASE Parse
  <2>1. Parsing' /\ pc' # "done"
    BY <1>1 DEF Parse, ReadSlide, SkipReference, EndSlide, Fail, ResolveShape,
                Parsing
  <2>2. (elements = <<>> /\ place = 1 /\ shape = 1 /\ pc # "done" /\ TypeInv)'
    BY <2>1 DEF TypeInv, FreshInv
  <2>. QED  BY <2>2, OrderInvFresh, PTL
<1>2. CASE BeginRender
  <2>1. /\ elements' = elements /\ place' = place /\ shape' = shape
        /\ pc = "slides" /\ pc' # "done"
    BY <1>2 DEF BeginRender
  <2>2. (elements = <<>> /\ place = 1 /\ shape = 1 /\ pc # "done" /\ TypeInv)'
    BY <2>1 DEF TypeInv, FreshInv, Parsing
  <2>. QED  BY <2>2, OrderInvFresh, PTL
<1>3. CASE NextSlide
  BY <1>3, OrderInvNextSlide
<1>4. CASE SkipHidden
  BY <1>4, OrderInvPass DEF SkipHidden, parserVars, Due, Current
<1>5. CASE RenderEmbedded
  <2>. DEFINE entry == store[LookupKey][occurrences[LookupKey] + 1]
  <2>1. AtShape /\ entry \in Inventories /\ ~Current.hidden
    BY <1>5, EntryType DEF RenderEmbedded
  <2>2. Current # Pattern
    BY <1>5 DEF RenderEmbedded, Embedded, Pattern
  <2>. QED  BY <1>5, <2>1, <2>2, OrderInvEmit DEF RenderEmbedded, parserVars
<1>6. CASE RenderLost
  <2>1. Current # Pattern
    BY <1>6 DEF RenderLost, Embedded, Pattern
  <2>. QED  BY <1>6, <2>1, OrderInvEmit DEF RenderLost, parserVars
<1>7. CASE RenderGeometry
  <2>1. Current # Pattern /\ ~Current.hidden
    BY <1>7 DEF RenderGeometry, Geometry, Pattern
  <2>. QED  BY <1>7, <2>1, OrderInvEmit DEF RenderGeometry, parserVars
<1>8. CASE RecordPattern
  BY <1>8, OrderInvPass DEF RecordPattern, parserVars, Due, Current
<1>9. CASE AppendNotes
  BY <1>9 DEF AppendNotes, parserVars, OrderInv, Due
<1>10. CASE UNCHANGED vars
  BY <1>10 DEF vars, parserVars, rendererVars, OrderInv, Due
<1>. QED  BY <1>1, <1>2, <1>3, <1>4, <1>5, <1>6, <1>7, <1>8, <1>9, <1>10
          DEF Next, Render

LEMMA OrderInvImplies == TypeInv /\ OrderInv => EveryShapeOnce
<1>. SUFFICES ASSUME TypeInv, OrderInv PROVE EveryShapeOnce
  OBVIOUS
<1>. DEFINE Have == {<<elements[i].slide, elements[i].shape>> : i \in DOMAIN elements}
            Owed == {x \in UNION {{p} \X DOMAIN slides[p].shapes : p \in included} :
                       /\ ~slides[x[1]].shapes[x[2]].hidden
                       /\ slides[x[1]].shapes[x[2]] # Pattern
                       /\ pc = "done" \/ ComesFirst(x[1], x[2], place, shape)}
<1>1. ASSUME NEW i \in DOMAIN elements
      PROVE  <<elements[i].slide, elements[i].shape>> \in Owed
  BY DEF OrderInv, Due
<1>2. ASSUME NEW x \in Owed PROVE x \in Have
  <2>1. PICK p \in included : x \in {p} \X DOMAIN slides[p].shapes
    OBVIOUS
  <2>. DEFINE s == x[2]
  <2>2. x = <<p, s>> /\ Due(p, s)
    <3>1. x = <<p, s>> /\ x[1] = p /\ s \in DOMAIN slides[p].shapes
      BY <2>1
    <3>2. ~slides[x[1]].shapes[x[2]].hidden /\ slides[x[1]].shapes[x[2]] # Pattern
      BY <1>2
    <3>. QED  BY <3>1, <3>2 DEF Due
  <2>3. /\ p \in Nat /\ s \in Nat /\ p \in DOMAIN slides
        /\ place \in Nat /\ p <= Len(slides)
    BY <2>2, PlaceType
  <2>4. ComesFirst(p, s, place, shape)
    <3>1. CASE pc = "done"
      <4>1. place > Len(slides)
        BY <3>1, SlidesType DEF OrderInv, TypeInv, TypeOK
      <4>. QED  BY <4>1, <2>3, SlidesType DEF ComesFirst
    <3>2. CASE pc # "done"
      BY <3>2, <2>2
    <3>. QED  BY <3>1, <3>2
  <2>. HIDE DEF s, Have, Owed
  <2>5. PICK i \in DOMAIN elements : elements[i].slide = p /\ elements[i].shape = s
    BY <2>2, <2>3, <2>4 DEF OrderInv
  <2>. QED  BY <2>2, <2>5 DEF Have
<1>3. Have = Owed
  BY <1>1, <1>2
<1>. QED  BY <1>3 DEF EveryShapeOnce, OrderInv

(* The placeholders are the visible objects and geometries of the slides    *)
(* that are included: each once, in the order of the deck.                  *)
THEOREM ShapesInOrder == Spec => []EveryShapeOnce
<1>1. Init => TypeInv /\ OrderInv
  <2>1. Init => elements = <<>> /\ place = 1 /\ shape = 1 /\ pc # "done"
    BY DEF Init
  <2>. QED  BY <2>1, TypeInvInit, OrderInvFresh
<1>. QED  BY <1>1, TypeInvariant, OrderInvStep, OrderInvImplies, PTL DEF Spec

-----------------------------------------------------------------------------
(* Notes.  They are kept with their slide; as long as no reference was      *)
(* skipped, the number of each is the place of its slide.                   *)

AllRead == Len(slides) = IF pc \in {"shapes", "failed"} THEN next ELSE next - 1

NotesInv ==
  /\ Len(notes) = Len(slides)
  /\ \A i \in 1..Len(slides) : notes[i].part = slides[i].part
  /\ AllRead => \A i \in 1..Len(slides) : notes[i].number = i
  /\ pc \in {"render", "done"} => next = Len(refs) + 1
  /\ pc # "done" => \A d \in diagnostics : d.kind # "notes"
  /\ pc = "done" =>
       \A r : r \in NotesShown <=>
         \E i \in 1..Len(notes) : notes[i].number \in included /\ r = <<notes[i].part>>

LEMMA NotesType ==
  ASSUME TypeInv
  PROVE  /\ notes \in Seq([number : Nat, part : Parts])
         /\ DOMAIN notes = 1..Len(notes)
         /\ Len(notes) \in Nat /\ Len(slides) \in Nat /\ Len(refs) \in Nat
         /\ next \in 1..(Len(refs) + 1)
         /\ pc = "slides" => Len(slides) < next
<1>1. notes \in Seq([number : Nat, part : Parts])
  BY DEF TypeInv, TypeOK
<1>2. Len(notes) \in Nat /\ DOMAIN notes = 1..Len(notes)
  BY <1>1
<1>. QED  BY <1>1, <1>2, SlidesType DEF TypeInv, TypeOK, PlaceInv

LEMMA NotesInvReadSlide ==
  ASSUME TypeInv, NotesInv, ReadSlide
  PROVE  NotesInv'
<1>. DEFINE note == [number |-> next, part |-> refs[next]]
            slide == [part |-> refs[next], shapes |-> <<>>]
            last == Len(slides) + 1
<1>1. /\ pc = "slides" /\ pc' = "shapes" /\ next' = next /\ diagnostics' = diagnostics
      /\ notes' = Append(notes, note) /\ slides' = Append(slides, slide)
      /\ refs[next] \in Parts /\ next \in Nat
  BY DEF ReadSlide, rendererVars, TypeInv, TypeOK
<1>2. note \in [number : Nat, part : Parts] /\ slide \in SlideSet
  BY <1>1 DEF SlideSet
<1>3. /\ Len(notes') = last
      /\ \A i \in 1..Len(slides) : notes'[i] = notes[i]
      /\ notes'[last] = note
  BY <1>1, <1>2, NotesType, AppendProperties DEF NotesInv
<1>4. /\ Len(slides') = last
      /\ \A i \in 1..Len(slides) : slides'[i] = slides[i]
      /\ slides'[last] = slide
  BY <1>1, <1>2, SlidesType, AppendProperties
<1>5. note.part = slide.part /\ note.number = next
  OBVIOUS
<1>. HIDE DEF note, slide
<1>6. \A i \in 1..last : notes'[i].part = slides'[i].part
  BY <1>3, <1>4, <1>5, NotesType DEF NotesInv
<1>7. AllRead' => AllRead /\ next = last
  BY <1>1, <1>4, NotesType DEF AllRead
<1>8. AllRead' => \A i \in 1..last : notes'[i].number = i
  BY <1>3, <1>5, <1>7, NotesType DEF NotesInv
<1>. QED  BY <1>1, <1>3, <1>4, <1>6, <1>8 DEF NotesInv

(* A step that leaves the notes and the slides they belong to.              *)
LEMMA NotesInvKeep ==
  ASSUME TypeInv, NotesInv, notes' = notes, Len(slides') = Len(slides),
         \A i \in 1..Len(slides) : slides'[i].part = slides[i].part,
         AllRead' => AllRead, pc' # "done",
         pc' = "render" => next' = Len(refs') + 1,
         \A d \in diagnostics' : d \in diagnostics \/ d.kind # "notes",
         pc # "done"
  PROVE  NotesInv'
BY DEF NotesInv

LEMMA NotesInvEmit ==
  ASSUME NEW shown, NEW ref, Emit(shown, ref)
  PROVE  \A d \in diagnostics' : d \in diagnostics \/ d.kind # "notes"
BY DEF Emit

LEMMA NotesInvRender ==
  ASSUME TypeInv, NotesInv, Render, ~AppendNotes
  PROVE  NotesInv'
<1>1. notes' = notes /\ slides' = slides /\ next' = next /\ refs' = refs
  BY DEF Render, BeginRender, NextSlide, SkipHidden, RenderEmbedded, RenderLost,
         RenderGeometry, RecordPattern, parserVars
<1>2. \A d \in diagnostics' : d \in diagnostics \/ d.kind # "notes"
  BY NotesInvEmit DEF Render, BeginRender, NextSlide, SkipHidden, RenderEmbedded,
     RenderLost, RenderGeometry, RecordPattern
<1>3. /\ pc' = "render"
      /\ pc = "render" \/ (pc = "slides" /\ next > Len(refs))
  BY DEF Render, BeginRender, NextSlide, SkipHidden, RenderEmbedded,
     RenderLost, RenderGeometry, RecordPattern, AtShape, Rendering
<1>4. next' = Len(refs') + 1
  BY <1>1, <1>3, NotesType DEF NotesInv
<1>5. AllRead' => AllRead
  BY <1>1, <1>3 DEF AllRead
<1>. QED  BY <1>1, <1>2, <1>3, <1>4, <1>5, NotesInvKeep

LEMMA NotesInvAppend ==
  ASSUME TypeInv, NotesInv, AppendNotes
  PROVE  NotesInv'
<1>. DEFINE D(i) == [kind |-> "notes", slide |-> notes[i].number, ref |-> <<notes[i].part>>]
            Chosen == {j \in DOMAIN notes : notes[j].number \in included}
<1>1. /\ pc = "render" /\ pc' = "done" /\ included' = included
      /\ notes' = notes /\ slides' = slides /\ next' = next /\ refs' = refs
      /\ diagnostics' = diagnostics \cup {D(i) : i \in Chosen}
  BY DEF AppendNotes, parserVars
<1>2. \A d \in diagnostics : d.kind # "notes"
  BY <1>1 DEF NotesInv
<1>3. \A i : D(i).kind = "notes" /\ D(i).ref = <<notes[i].part>>
  OBVIOUS
<1>. HIDE DEF D
<1>4. ASSUME NEW r PROVE r \in NotesShown' <=> \E i \in Chosen : r = <<notes[i].part>>
  <2>1. ASSUME r \in NotesShown' PROVE \E i \in Chosen : r = <<notes[i].part>>
    <3>1. PICK d \in diagnostics' : d.kind = "notes" /\ r = d.ref
      BY <2>1 DEF NotesShown
    <3>. QED  BY <1>1, <1>2, <1>3, <3>1
  <2>2. ASSUME NEW i \in Chosen, r = <<notes[i].part>> PROVE r \in NotesShown'
    BY <1>1, <1>3, <2>2 DEF NotesShown
  <2>. QED  BY <2>1, <2>2
<1>5. AllRead' => AllRead
  BY <1>1 DEF AllRead
<1>. QED  BY <1>1, <1>4, <1>5, NotesType DEF NotesInv

LEMMA NotesInvStep ==
  TypeInv /\ NotesInv /\ [Next]_vars => NotesInv'
<1>. SUFFICES ASSUME TypeInv, NotesInv, [Next]_vars PROVE NotesInv'
  OBVIOUS
<1>1. CASE ReadSlide
  BY <1>1, NotesInvReadSlide
<1>2. CASE SkipReference
  <2>1. ~AllRead' /\ pc = "slides" /\ pc' = "slides"
    BY <1>2, NotesType DEF SkipReference, AllRead
  <2>. QED  BY <1>2, <2>1, NotesInvKeep DEF SkipReference, rendererVars
<1>3. CASE EndSlide
  <2>1. AllRead' => AllRead
    BY <1>3, NotesType DEF EndSlide, AllRead
  <2>. QED  BY <1>3, <2>1, NotesInvKeep DEF EndSlide, rendererVars
<1>4. CASE Fail
  <2>1. AllRead' => AllRead
    BY <1>4 DEF Fail, AllRead, parserVars
  <2>. QED  BY <1>4, <2>1, NotesInvKeep DEF Fail, parserVars, rendererVars
<1>5. ASSUME NEW s \in Shapes, ResolveShape(s) PROVE NotesInv'
  <2>1. /\ Len(slides') = Len(slides)
        /\ \A i \in 1..Len(slides) : slides'[i].part = slides[i].part
    BY <1>5, ResolveSlides, SlidesType
  <2>2. /\ pc = "shapes" /\ pc' = "shapes" /\ next' = next /\ notes' = notes
        /\ diagnostics' = diagnostics
    BY <1>5 DEF ResolveShape, rendererVars
  <2>3. AllRead' => AllRead
    BY <2>1, <2>2 DEF AllRead
  <2>. QED  BY <2>1, <2>2, <2>3, NotesInvKeep
<1>6. CASE Render
  BY <1>6, NotesInvRender, NotesInvAppend
<1>7. CASE UNCHANGED vars
  BY <1>7, Zenon DEF vars, parserVars, rendererVars, NotesInv, AllRead, NotesShown
<1>. QED  BY <1>1, <1>2, <1>3, <1>4, <1>5, <1>6, <1>7 DEF Next, Parse

LEMMA NotesInvImplies == TypeInv /\ NotesInv => NotesFollowSlides
<1>. SUFFICES ASSUME TypeInv, NotesInv, pc = "done", Len(slides) = Len(refs)
              PROVE  NotesShown = NotesOf(included)
  BY DEF NotesFollowSlides
<1>1. AllRead
  BY NotesType DEF NotesInv, AllRead
<1>2. \A i \in 1..Len(slides) : notes[i].number = i /\ notes[i].part = slides[i].part
  BY <1>1 DEF NotesInv
<1>3. included \subseteq 1..Len(slides) /\ Len(notes) = Len(slides)
  BY SlidesType DEF TypeInv, TypeOK, NotesInv
<1>4. ASSUME NEW r PROVE r \in NotesShown <=> r \in NotesOf(included)
  <2>1. r \in NotesShown <=>
          \E i \in 1..Len(notes) : notes[i].number \in included /\ r = <<notes[i].part>>
    BY DEF NotesInv
  <2>2. r \in NotesOf(included) <=> \E p \in included : r = <<slides[p].part>>
    BY DEF NotesOf
  <2>. QED  BY <1>2, <1>3, <2>1, <2>2
<1>. QED  BY <1>4

(* As long as every slide could be read, the notes that are output are      *)
(* those of the slides that are output.                                     *)
THEOREM NotesStay == Spec => []NotesFollowSlides
<1>1. Init => NotesInv
  BY DEF Init, NotesInv, AllRead
<1>. QED  BY <1>1, TypeInvariant, NotesInvStep, NotesInvImplies, PTL DEF Spec

-----------------------------------------------------------------------------
(* Inventories.  How many of the first n shapes of a slide are in M: the    *)
(* occurrences that both phases count are such numbers.                     *)

UpTo(shapes, n, M) == {i \in 1..n : shapes[i] \in M}
Count(shapes, n, M) == Cardinality(UpTo(shapes, n, M))

WithId(id) == {x \in Embedded : x.id = id}
WithKey(id, raw) == {x \in WithId(id) : x.raw = raw}
Shown(id, raw) == {x \in WithKey(id, raw) : ~x.hidden}

LEMMA CountType ==
  ASSUME NEW shapes, NEW n \in Nat, NEW M
  PROVE  IsFiniteSet(UpTo(shapes, n, M)) /\ Count(shapes, n, M) \in Nat
<1>1. IsFiniteSet(1..n)
  BY FS_Interval
<1>2. UpTo(shapes, n, M) \subseteq 1..n
  BY DEF UpTo
<1>3. IsFiniteSet(UpTo(shapes, n, M))
  BY <1>1, <1>2, FS_Subset
<1>. QED  BY <1>3, FS_CardinalityType DEF Count

LEMMA CountNone ==
  ASSUME NEW shapes, NEW M
  PROVE  Count(shapes, 0, M) = 0
<1>1. UpTo(shapes, 0, M) = {}
  BY DEF UpTo
<1>. QED  BY <1>1, FS_EmptySet DEF Count

LEMMA CountNext ==
  ASSUME NEW shapes, NEW n \in Nat, NEW M
  PROVE  Count(shapes, n + 1, M) =
           IF shapes[n + 1] \in M THEN Count(shapes, n, M) + 1
                                  ELSE Count(shapes, n, M)
<1>1. CASE shapes[n + 1] \in M
  <2>1. UpTo(shapes, n + 1, M) = UpTo(shapes, n, M) \cup {n + 1}
    BY <1>1 DEF UpTo
  <2>2. n + 1 \notin UpTo(shapes, n, M)
    BY DEF UpTo
  <2>3. IsFiniteSet(UpTo(shapes, n, M))
    BY CountType
  <2>. QED  BY <1>1, <2>1, <2>2, <2>3, FS_AddElement DEF Count
<1>2. CASE shapes[n + 1] \notin M
  <2>1. UpTo(shapes, n + 1, M) = UpTo(shapes, n, M)
    BY <1>2 DEF UpTo
  <2>. QED  BY <1>2, <2>1 DEF Count
<1>. QED  BY <1>1, <1>2

LEMMA CountSame ==
  ASSUME NEW a, NEW b, NEW n \in Nat, NEW M, \A i \in 1..n : a[i] = b[i]
  PROVE  Count(a, n, M) = Count(b, n, M)
<1>1. UpTo(a, n, M) = UpTo(b, n, M)
  BY DEF UpTo
<1>. QED  BY <1>1 DEF Count

LEMMA CountFewer ==
  ASSUME NEW shapes, NEW n \in Nat, NEW L, NEW M, L \subseteq M
  PROVE  Count(shapes, n, L) <= Count(shapes, n, M)
<1>1. UpTo(shapes, n, L) \subseteq UpTo(shapes, n, M)
  BY DEF UpTo
<1>2. IsFiniteSet(UpTo(shapes, n, M))
  BY CountType
<1>. QED  BY <1>1, <1>2, FS_Subset DEF Count

(* Every embedded object of a slide has its entry: the entries of its key   *)
(* are in the order of its slide, and the occurrence of each is the number  *)
(* of objects of its id before it.                                          *)
Registered(entries, slide, s) ==
  LET x   == slide.shapes[s]
      key == <<slide.part, x.id, x.raw>>
      n   == Count(slide.shapes, s - 1, WithKey(x.id, x.raw))
  IN x \in Embedded =>
       /\ n < Len(entries[key])
       /\ entries[key][n + 1].occurrence = Count(slide.shapes, s - 1, WithId(x.id))

(* What has been counted for the slide that is being read.                  *)
Counted(counts, entries, slide) ==
  \A id \in Ids :
    /\ counts[id] = Count(slide.shapes, Len(slide.shapes), WithId(id))
    /\ \A raw \in Raws :
         Len(entries[<<slide.part, id, raw>>]) =
           Count(slide.shapes, Len(slide.shapes), WithKey(id, raw))

RegisteredInv ==
  /\ \A p \in 1..Len(slides) : \A s \in 1..Len(slides[p].shapes) :
       Registered(store, slides[p], s)
  /\ pc = "shapes" => Counted(seen, store, slides[Len(slides)])

LEMMA RegisteredInvReadSlide ==
  ASSUME TypeInv, StoreInv, RegisteredInv, ReadSlide
  PROVE  RegisteredInv'
<1>. DEFINE slide == [part |-> refs[next], shapes |-> <<>>]
            last  == Len(slides) + 1
<1>1. /\ pc = "slides" /\ next \in 1..Len(refs)
      /\ refs \in Seq(Parts) /\ refs[next] \in Parts
      /\ store' = store /\ slides' = Append(slides, slide)
      /\ seen' = [i \in Ids |-> 0]
  BY DEF ReadSlide, TypeInv, TypeOK
<1>2. slide \in SlideSet /\ slide.part = refs[next] /\ slide.shapes = <<>>
  BY <1>1 DEF SlideSet
<1>3. /\ Len(slides') = last /\ Len(slides) \in Nat
      /\ \A p \in 1..Len(slides) : slides'[p] = slides[p]
      /\ slides'[last] = slide
  BY <1>1, <1>2, SlidesType, AppendProperties
<1>. HIDE DEF slide
<1>4. Counted(seen', store', slide)
  <2>1. ASSUME NEW id \in Ids, NEW raw \in Raws
        PROVE  Len(store[<<refs[next], id, raw>>]) = 0
    <3>. DEFINE k == <<refs[next], id, raw>>
    <3>1. k \in Keys /\ k[1] = refs[next]
      BY <1>1 DEF Keys
    <3>. HIDE DEF k
    <3>2. ASSUME Len(store[k]) > 0 PROVE FALSE
      <4>1. PICK j \in 1..(next - 1) : refs[j] = k[1]
        BY <1>1, <3>1, <3>2 DEF StoreInv
      <4>2. j \in DOMAIN refs /\ next \in DOMAIN refs /\ j # next
        BY <1>1
      <4>. QED  BY <3>1, <4>1, <4>2 DEF StoreInv
    <3>. QED  BY <3>1, <3>2, StoreType DEF k
  <2>2. \A M : Count(slide.shapes, Len(slide.shapes), M) = 0
    BY <1>2, CountNone
  <2>3. \A id \in Ids : seen'[id] = 0
    BY <1>1
  <2>. QED  BY <1>1, <1>2, <2>1, <2>2, <2>3 DEF Counted
<1>5. ASSUME NEW p \in 1..Len(slides'), NEW s \in 1..Len(slides'[p].shapes)
      PROVE  Registered(store', slides'[p], s)
  <2>1. p \in 1..Len(slides)
    <3>. SUFFICES p # last
      BY <1>3
    <3>. QED  BY <1>2, <1>3
  <2>2. Registered(store, slides[p], s) /\ slides'[p] = slides[p]
    BY <1>3, <2>1 DEF RegisteredInv
  <2>. QED  BY <1>1, <2>2
<1>. QED  BY <1>3, <1>4, <1>5 DEF RegisteredInv


LEMMA RegisteredInvResolveShape ==
  ASSUME TypeInv, RegisteredInv, NEW s \in Shapes, ResolveShape(s)
  PROVE  RegisteredInv'
<1>. DEFINE last   == Len(slides)
            old    == slides[last]
            longer == slides'[last]
            n      == Len(old.shapes)
<1>1. /\ last \in 1..Len(slides) /\ Len(slides) \in Nat
      /\ old.part \in Parts /\ old.shapes \in Seq(Shapes) /\ n \in Nat
  BY SlidesType DEF ResolveShape
<1>2. /\ Len(slides') = last
      /\ \A p \in 1..Len(slides) : p # last => slides'[p] = slides[p]
      /\ longer.part = old.part
      /\ longer.shapes = Append(old.shapes, s)
  <2>1. slides' = [slides EXCEPT ![last].shapes = Append(@, s)]
    BY DEF ResolveShape
  <2>2. old \in SlideSet /\ slides \in Seq(SlideSet)
    BY <1>1, SlidesType
  <2>. QED  BY <1>1, <2>1, <2>2, ResolveSlides, SlidesType DEF SlideSet
<1>3. /\ Len(longer.shapes) = n + 1 /\ longer.shapes[n + 1] = s
      /\ \A i \in 1..n : longer.shapes[i] = old.shapes[i]
  BY <1>1, <1>2, AppendProperties
<1>4. Counted(seen, store, old)
  BY DEF RegisteredInv, ResolveShape
<1>. HIDE DEF last, old, longer, n
<1>5. \A M : \A m \in 0..n : Count(longer.shapes, m, M) = Count(old.shapes, m, M)
  <2>. SUFFICES ASSUME NEW M, NEW m \in 0..n
                PROVE  Count(longer.shapes, m, M) = Count(old.shapes, m, M)
    OBVIOUS
  <2>1. m \in Nat /\ \A i \in 1..m : longer.shapes[i] = old.shapes[i]
    BY <1>1, <1>3
  <2>. QED  BY <2>1, CountSame
<1>6. \A M : Count(longer.shapes, n + 1, M) =
               IF s \in M THEN Count(old.shapes, n, M) + 1
                          ELSE Count(old.shapes, n, M)
  BY <1>1, <1>3, <1>5, CountNext
(* The entries of a key only grow.                                          *)
<1>7. \A k \in Keys : /\ Len(store[k]) <= Len(store'[k])
                      /\ Len(store[k]) \in Nat /\ Len(store'[k]) \in Nat
                      /\ \A m \in 1..Len(store[k]) : store'[k][m] = store[k][m]
  <2>1. CASE s \in Embedded
    <3>. DEFINE key == <<slides[Len(slides)].part, s.id, s.raw>>
                new == Entry(slides[Len(slides)].part, s)
    <3>1. /\ key \in Keys /\ new \in Inventories
          /\ store[key] \in Seq(Inventories)
          /\ store' = [store EXCEPT ![key] = Append(@, new)]
          /\ store \in [Keys -> Seq(Inventories)]
      BY <2>1, ResolveStore DEF TypeInv, TypeOK
    <3>. HIDE DEF key, new
    <3>2. /\ Len(Append(store[key], new)) = Len(store[key]) + 1
          /\ \A m \in 1..Len(store[key]) : Append(store[key], new)[m] = store[key][m]
      BY <3>1, AppendProperties
    <3>3. \A k \in Keys : Len(store[k]) \in Nat
      BY StoreType
    <3>. QED  BY <3>1, <3>2, <3>3
  <2>2. CASE s \notin Embedded
    BY <2>2, StoreType DEF ResolveShape
  <2>. QED  BY <2>1, <2>2
<1>8. ASSUME NEW p \in 1..Len(slides), NEW i \in 1..Len(slides[p].shapes),
             Registered(store, slides[p], i)
      PROVE  Registered(store', slides[p], i)
  <2>. DEFINE x   == slides[p].shapes[i]
              key == <<slides[p].part, x.id, x.raw>>
              c   == Count(slides[p].shapes, i - 1, WithKey(x.id, x.raw))
  <2>. SUFFICES ASSUME x \in Embedded
                PROVE  /\ c < Len(store'[key])
                       /\ store'[key][c + 1].occurrence =
                            Count(slides[p].shapes, i - 1, WithId(x.id))
    BY DEF Registered
  <2>1. /\ c < Len(store[key])
        /\ store[key][c + 1].occurrence =
             Count(slides[p].shapes, i - 1, WithId(x.id))
    BY <1>8 DEF Registered
  <2>2. key \in Keys
    BY SlidesType DEF Keys, Embedded
  <2>3. i - 1 \in Nat
    BY SlidesType
  <2>4. c \in Nat
    BY <2>3, CountType
  <2>. HIDE DEF x, key, c
  <2>5. /\ Len(store[key]) \in Nat /\ Len(store'[key]) \in Nat
        /\ Len(store[key]) <= Len(store'[key])
        /\ \A m \in 1..Len(store[key]) : store'[key][m] = store[key][m]
    BY <1>7, <2>2
  <2>6. c < Len(store'[key]) /\ store'[key][c + 1] = store[key][c + 1]
    BY <2>1, <2>4, <2>5
  <2>. QED  BY <2>1, <2>6
<1>9. ASSUME s \in Embedded
      PROVE  LET key == <<old.part, s.id, s.raw>>
             IN /\ key \in Keys /\ s.id \in Ids /\ s.raw \in Raws
                /\ seen \in [Ids -> Nat] /\ seen' = [seen EXCEPT ![s.id] = @ + 1]
                /\ store'[key] = Append(store[key], Entry(old.part, s))
                /\ store[key] \in Seq(Inventories)
                /\ Entry(old.part, s) \in Inventories
                /\ Entry(old.part, s).occurrence = seen[s.id]
                /\ \A k \in Keys : k # key => store'[k] = store[k]
  <2>. DEFINE key == <<old.part, s.id, s.raw>>
  <2>1. /\ key \in Keys /\ s.id \in Ids /\ s.raw \in Raws
        /\ seen' = [seen EXCEPT ![s.id] = @ + 1]
        /\ store' = [store EXCEPT ![key] = Append(@, Entry(old.part, s))]
        /\ store[key] \in Seq(Inventories)
        /\ Entry(old.part, s) \in Inventories
    BY <1>9, ResolveStore DEF old, last, Embedded
  <2>2. seen \in [Ids -> Nat] /\ store \in [Keys -> Seq(Inventories)]
    BY DEF TypeInv, TypeOK
  <2>3. Entry(old.part, s).occurrence = seen[s.id]
    BY DEF Entry
  <2>. HIDE DEF key
  <2>4. /\ store'[key] = Append(store[key], Entry(old.part, s))
        /\ \A k \in Keys : k # key => store'[k] = store[k]
    BY <2>1, <2>2
  <2>. QED  BY <2>1, <2>2, <2>3, <2>4 DEF key
<1>10. Counted(seen', store', longer)
  <2>1. CASE s \notin Embedded
    <3>1. seen' = seen /\ store' = store
      BY <2>1 DEF ResolveShape
    <3>2. \A id, raw : s \notin WithId(id) /\ s \notin WithKey(id, raw)
      BY <2>1 DEF WithId, WithKey
    <3>. QED  BY <1>2, <1>3, <1>4, <1>6, <3>1, <3>2 DEF Counted, n
  <2>2. CASE s \in Embedded
    <3>1. ASSUME NEW id \in Ids
          PROVE  seen'[id] = Count(longer.shapes, n + 1, WithId(id))
      <4>1. seen[id] = Count(old.shapes, n, WithId(id))
        BY <1>4 DEF Counted, n
      <4>2. s \in WithId(id) <=> s.id = id
        BY <2>2 DEF WithId
      <4>. QED  BY <1>6, <1>9, <2>2, <4>1, <4>2
    <3>2. ASSUME NEW id \in Ids, NEW raw \in Raws
          PROVE  Len(store'[<<old.part, id, raw>>]) =
                   Count(longer.shapes, n + 1, WithKey(id, raw))
      <4>. DEFINE k == <<old.part, id, raw>>
                  key == <<old.part, s.id, s.raw>>
      <4>1. Len(store[k]) = Count(old.shapes, n, WithKey(id, raw)) /\ k \in Keys
        BY <1>1, <1>4 DEF Counted, n, Keys
      <4>2. s \in WithKey(id, raw) <=> k = key
        BY <2>2 DEF WithId, WithKey
      <4>. HIDE DEF k
      <4>3. CASE k = key
        <5>1. Len(store'[k]) = Len(store[k]) + 1
          BY <1>9, <2>2, <4>3, AppendProperties
        <5>. QED  BY <1>6, <4>1, <4>2, <4>3, <5>1 DEF k
      <4>4. CASE k # key
        <5>1. store'[k] = store[k]
          BY <1>9, <2>2, <4>1, <4>4
        <5>. QED  BY <1>6, <4>1, <4>2, <4>4, <5>1 DEF k
      <4>. QED  BY <4>3, <4>4
    <3>. QED  BY <1>2, <1>3, <3>1, <3>2 DEF Counted
  <2>. QED  BY <2>1, <2>2
<1>11. ASSUME NEW i \in 1..n
       PROVE  Registered(store', longer, i)
  <2>1. Registered(store', old, i)
    BY <1>1, <1>8 DEF RegisteredInv, old, n, last
  <2>2. i \in Nat /\ i - 1 \in 0..n
    BY <1>1
  <2>. QED  BY <1>2, <1>3, <1>5, <2>1, <2>2 DEF Registered
<1>12. Registered(store', longer, n + 1)
  <2>. SUFFICES ASSUME s \in Embedded PROVE Registered(store', longer, n + 1)
    BY <1>3 DEF Registered
  <2>. DEFINE key == <<old.part, s.id, s.raw>>
  <2>1. Len(store[key]) = Count(old.shapes, n, WithKey(s.id, s.raw))
    BY <1>4, <1>9 DEF Counted, n
  <2>2. seen[s.id] = Count(old.shapes, n, WithId(s.id))
    BY <1>4, <1>9 DEF Counted, n
  <2>3. /\ Len(store'[key]) = Len(store[key]) + 1
        /\ store'[key][Len(store[key]) + 1] = Entry(old.part, s)
        /\ Len(store[key]) \in Nat
    BY <1>9, AppendProperties
  <2>4. (n + 1) - 1 = n /\ n \in 0..n
    BY <1>1
  <2>5. /\ Count(longer.shapes, (n + 1) - 1, WithKey(s.id, s.raw)) = Len(store[key])
        /\ Count(longer.shapes, (n + 1) - 1, WithId(s.id)) = seen[s.id]
    BY <1>5, <2>1, <2>2, <2>4
  <2>6. longer.shapes[n + 1] = s /\ longer.part = old.part
    BY <1>2, <1>3
  <2>7. /\ Len(store[key]) < Len(store'[key])
        /\ store'[key][Len(store[key]) + 1].occurrence = seen[s.id]
    BY <1>9, <2>3
  <2>. QED  BY <2>5, <2>6, <2>7 DEF Registered
<1>13. ASSUME NEW p \in 1..Len(slides'), NEW i \in 1..Len(slides'[p].shapes)
       PROVE  Registered(store', slides'[p], i)
  <2>1. CASE p = last
    <3>1. i \in 1..n \/ i = n + 1
      BY <1>1, <1>3, <2>1 DEF longer
    <3>. QED  BY <1>11, <1>12, <2>1, <3>1 DEF longer
  <2>2. CASE p # last
    <3>1. p \in 1..Len(slides) /\ slides'[p] = slides[p]
      BY <1>2, <2>2 DEF last
    <3>. QED  BY <1>8, <3>1 DEF RegisteredInv
  <2>. QED  BY <2>1, <2>2
<1>14. slides'[Len(slides')] = longer
  BY <1>2 DEF longer
<1>. QED  BY <1>10, <1>13, <1>14 DEF RegisteredInv


LEMMA RegisteredInvStep ==
  TypeInv /\ StoreInv /\ RegisteredInv /\ [Next]_vars => RegisteredInv'
<1>. SUFFICES ASSUME TypeInv, StoreInv, RegisteredInv, [Next]_vars
              PROVE  RegisteredInv'
  OBVIOUS
<1>1. CASE ReadSlide
  BY <1>1, RegisteredInvReadSlide
<1>2. ASSUME NEW s \in Shapes, ResolveShape(s) PROVE RegisteredInv'
  BY <1>2, RegisteredInvResolveShape
<1>3. CASE pc' # "shapes" /\ UNCHANGED <<slides, store>>
  BY <1>3 DEF RegisteredInv
<1>4. SkipReference \/ EndSlide \/ Fail => pc' # "shapes" /\ UNCHANGED <<slides, store>>
  BY DEF SkipReference, EndSlide, Fail, parserVars
<1>5. Render => pc' # "shapes" /\ UNCHANGED <<slides, store>>
  BY DEF Render, BeginRender, NextSlide, SkipHidden, RenderEmbedded, RenderLost,
         RenderGeometry, RecordPattern, AppendNotes, AtShape, Rendering, parserVars
<1>6. CASE UNCHANGED vars
  BY <1>6 DEF vars, parserVars, RegisteredInv
<1>. QED  BY <1>1, <1>2, <1>3, <1>4, <1>5, <1>6 DEF Next, Parse

(* What has been looked up for the slide that is being rendered: its        *)
(* visible objects before the shape the renderer is at.                     *)
LookupInv ==
  /\ Parsing => \A k \in Keys : occurrences[k] = 0
  /\ pc = "render" => \A p \in Parts : p > place =>
       \A id \in Ids, raw \in Raws : occurrences[<<p, id, raw>>] = 0
  /\ Rendering => \A id \in Ids, raw \in Raws :
       occurrences[<<place, id, raw>>] =
         Count(slides[place].shapes, shape - 1, Shown(id, raw))

(* The renderer passes a shape that is no visible embedded object.          *)
LEMMA LookupInvPass ==
  ASSUME TypeInv, LookupInv, AtShape, Current \notin Embedded \/ Current.hidden,
         shape' = shape + 1, UNCHANGED <<pc, slides, place, occurrences>>
  PROVE  LookupInv'
<1>1. /\ Rendering /\ shape \in Nat /\ shape >= 1 /\ pc = "render"
      /\ (shape + 1) - 1 = (shape - 1) + 1 /\ shape - 1 \in Nat
      /\ (shape - 1) + 1 = shape
  BY PlaceType DEF AtShape, Rendering
<1>2. \A id, raw : Current \notin Shown(id, raw)
  BY DEF Shown, WithKey, WithId
<1>3. ASSUME NEW id \in Ids, NEW raw \in Raws
      PROVE  occurrences[<<place, id, raw>>] =
               Count(slides[place].shapes, shape, Shown(id, raw))
  <2>1. Count(slides[place].shapes, (shape - 1) + 1, Shown(id, raw))
          = Count(slides[place].shapes, shape - 1, Shown(id, raw))
    BY <1>1, <1>2, CountNext DEF Current
  <2>2. occurrences[<<place, id, raw>>] =
          Count(slides[place].shapes, shape - 1, Shown(id, raw))
    BY <1>1 DEF LookupInv
  <2>. QED  BY <1>1, <2>1, <2>2
<1>4. shape' - 1 = shape
  BY <1>1
<1>. QED  BY <1>1, <1>3, <1>4 DEF LookupInv, Parsing, Rendering

(* A visible embedded object, found or not, is counted under its key.       *)
LEMMA LookupInvCount ==
  ASSUME TypeInv, LookupInv, AtShape, Current \in Embedded, ~Current.hidden,
         shape' = shape + 1, UNCHANGED <<pc, slides, place>>,
         occurrences' = [occurrences EXCEPT ![LookupKey] = @ + 1]
  PROVE  LookupInv'
<1>1. /\ Rendering /\ shape \in Nat /\ shape >= 1 /\ pc = "render"
      /\ shape - 1 \in Nat /\ (shape - 1) + 1 = shape /\ shape' - 1 = shape
      /\ place \in Parts /\ place \in Nat
  BY PlaceType, AtShapeType DEF AtShape, Rendering
<1>2. /\ LookupKey \in Keys
      /\ occurrences \in [Keys -> Nat]
      /\ \A k \in Keys : occurrences'[k] =
           IF k = LookupKey THEN occurrences[k] + 1 ELSE occurrences[k]
  <2>1. LookupKey \in Keys /\ occurrences \in [Keys -> Nat]
    BY AtShapeType DEF TypeInv, TypeOK
  <2>. QED  BY <2>1
<1>3. ASSUME NEW id \in Ids, NEW raw \in Raws
      PROVE  occurrences'[<<place, id, raw>>] =
               Count(slides[place].shapes, shape, Shown(id, raw))
  <2>. DEFINE k == <<place, id, raw>>
  <2>1. k \in Keys
    BY <1>1 DEF Keys
  <2>2. Current \in Shown(id, raw) <=> k = LookupKey
    BY DEF Shown, WithKey, WithId, LookupKey
  <2>3. Count(slides[place].shapes, (shape - 1) + 1, Shown(id, raw)) =
          IF k = LookupKey THEN Count(slides[place].shapes, shape - 1, Shown(id, raw)) + 1
                           ELSE Count(slides[place].shapes, shape - 1, Shown(id, raw))
    BY <1>1, <2>2, CountNext DEF Current
  <2>4. occurrences[k] = Count(slides[place].shapes, shape - 1, Shown(id, raw))
    BY <1>1 DEF LookupInv
  <2>. HIDE DEF k
  <2>5. occurrences'[k] = Count(slides[place].shapes, shape, Shown(id, raw))
    BY <1>1, <1>2, <2>1, <2>3, <2>4
  <2>. QED  BY <2>5 DEF k
<1>4. ASSUME NEW p \in Parts, p > place, NEW id \in Ids, NEW raw \in Raws
      PROVE  occurrences'[<<p, id, raw>>] = 0
  <2>1. <<p, id, raw>> \in Keys /\ p # place /\ occurrences[<<p, id, raw>>] = 0
    BY <1>1, <1>4 DEF Keys, LookupInv, Parts
  <2>2. <<p, id, raw>> # LookupKey
    BY <2>1 DEF LookupKey
  <2>. QED  BY <1>2, <2>1, <2>2
<1>. QED  BY <1>1, <1>3, <1>4 DEF LookupInv, Parsing, Rendering

LEMMA LookupInvStep ==
  TypeInv /\ LookupInv /\ [Next]_vars => LookupInv'
<1>. SUFFICES ASSUME TypeInv, LookupInv, [Next]_vars PROVE LookupInv'
  OBVIOUS
<1>1. CASE Parse
  <2>1. Parsing /\ Parsing' /\ occurrences' = occurrences
    BY <1>1 DEF Parse, ReadSlide, SkipReference, EndSlide, Fail, ResolveShape,
                Parsing, rendererVars
  <2>2. ~Rendering' /\ pc' # "render"
    BY <2>1 DEF Parsing, Rendering
  <2>. QED  BY <2>1, <2>2 DEF LookupInv
<1>2. CASE BeginRender
  <2>1. /\ Parsing /\ pc' = "render" /\ occurrences' = occurrences
        /\ slides' = slides /\ place' = place /\ shape' = shape
        /\ place = 1 /\ shape = 1
    BY <1>2 DEF BeginRender, Parsing, parserVars, TypeInv, FreshInv
  <2>2. \A k \in Keys : occurrences'[k] = 0
    BY <2>1 DEF LookupInv
  <2>3. \A M : Count(slides[1].shapes, 1 - 1, M) = 0
    BY CountNone
  <2>4. Rendering' => 1 \in Parts
    <3>1. Rendering' => 1 <= N
      BY <1>2, <2>1, SlidesType, DeckAssumption
         DEF BeginRender, Rendering, TypeInv, TypeOK, PlaceInv
    <3>. QED  BY <3>1, DeckAssumption DEF Parts
  <2>5. \A p \in Parts, id \in Ids, raw \in Raws : occurrences'[<<p, id, raw>>] = 0
    BY <2>2 DEF Keys
  <2>. QED  BY <2>1, <2>3, <2>4, <2>5 DEF LookupInv, Parsing
<1>3. CASE NextSlide
  <2>1. /\ pc = "render" /\ pc' = "render" /\ place \in DOMAIN slides
        /\ place' = place + 1 /\ shape' = 1 /\ slides' = slides
        /\ occurrences' = occurrences
    BY <1>3 DEF NextSlide, Rendering, parserVars
  <2>2. place \in Nat /\ (Rendering' => place + 1 \in Parts)
    <3>1. place \in 1..Len(slides) /\ Len(slides) \in Nat /\ Len(slides) <= N
      BY <2>1, SlidesType DEF TypeInv, PlaceInv
    <3>2. Rendering' => place + 1 \in 1..Len(slides)
      BY <2>1, SlidesType DEF Rendering
    <3>. QED  BY <3>1, <3>2, DeckAssumption DEF Parts
  <2>3. \A M : Count(slides[place + 1].shapes, 1 - 1, M) = 0
    BY CountNone
  <2>4. \A p \in Parts : p > place => \A id \in Ids, raw \in Raws :
          occurrences[<<p, id, raw>>] = 0
    BY <2>1 DEF LookupInv
  <2>5. \A p \in Parts : p \in Nat /\ (p > place + 1 => p > place)
    BY <2>2 DEF Parts
  <2>6. Rendering' => \A id \in Ids, raw \in Raws : occurrences[<<place + 1, id, raw>>] = 0
    BY <2>2, <2>4
  <2>. QED  BY <2>1, <2>3, <2>4, <2>5, <2>6 DEF LookupInv, Parsing
<1>4. CASE SkipHidden
  BY <1>4, LookupInvPass DEF SkipHidden, parserVars
<1>5. CASE RenderEmbedded
  BY <1>5, LookupInvCount DEF RenderEmbedded, Emit, parserVars
<1>6. CASE RenderLost
  BY <1>6, LookupInvCount DEF RenderLost, Emit, parserVars
<1>7. CASE RenderGeometry
  <2>1. Current \notin Embedded
    BY <1>7 DEF RenderGeometry, Geometry, Embedded
  <2>. QED  BY <1>7, <2>1, LookupInvPass DEF RenderGeometry, Emit, parserVars
<1>8. CASE RecordPattern
  <2>1. Current \notin Embedded
    BY <1>8 DEF RecordPattern, Pattern, Embedded
  <2>. QED  BY <1>8, <2>1, LookupInvPass DEF RecordPattern, parserVars
<1>9. CASE AppendNotes
  BY <1>9 DEF AppendNotes, LookupInv, Parsing, Rendering
<1>10. CASE UNCHANGED vars
  BY <1>10 DEF vars, parserVars, rendererVars, LookupInv, Parsing, Rendering
<1>. QED  BY <1>1, <1>2, <1>3, <1>4, <1>5, <1>6, <1>7, <1>8, <1>9, <1>10
          DEF Next, Render


(* What an element of an embedded object keeps, on a slide in its place.    *)
Kept(e) ==
  slides[e.slide].part = e.slide /\ ShapeOf(e) \in Embedded =>
    /\ e.shown # None
    /\ e.shown.part = slides[e.slide].part
    /\ e.shown.id = ShapeOf(e).id
    /\ (\A j \in Before(e) : ~slides[e.slide].shapes[j].hidden)
         => e.shown.occurrence = Cardinality(Before(e))

(* In place, the entry of a visible object has not been looked up: there    *)
(* are no more visible objects of its key before it than there are objects. *)
LEMMA InPlaceIsFound ==
  ASSUME TypeInv, StoreInv, RegisteredInv, LookupInv, AtShape,
         Current \in Embedded, ~Current.hidden, slides[place].part = place
  PROVE  LET entry  == store[LookupKey][occurrences[LookupKey] + 1]
             earlier == UpTo(slides[place].shapes, shape - 1, WithId(Current.id))
         IN /\ Found
            /\ entry.part = place /\ entry.id = Current.id
            /\ (\A j \in earlier : ~slides[place].shapes[j].hidden)
                 => entry.occurrence = Cardinality(earlier)
<1>. DEFINE shapes == slides[place].shapes
            id     == Current.id
            raw    == Current.raw
            n      == Count(shapes, shape - 1, WithKey(id, raw))
            m      == Count(shapes, shape - 1, Shown(id, raw))
            entry  == store[LookupKey][occurrences[LookupKey] + 1]
            earlier == UpTo(shapes, shape - 1, WithId(id))
<1>1. /\ place \in 1..Len(slides) /\ shape \in 1..Len(shapes)
      /\ Rendering /\ shape - 1 \in Nat
  <2>1. place \in DOMAIN slides /\ shape \in DOMAIN shapes /\ shapes \in Seq(Shapes)
    BY AtShapeType
  <2>. QED  BY <2>1, SlidesType DEF AtShape
<1>2. LookupKey \in Keys /\ id \in Ids /\ raw \in Raws
  BY AtShapeType DEF Embedded
<1>3. occurrences[LookupKey] = m
  BY <1>1, <1>2 DEF LookupInv, LookupKey
<1>4. /\ n < Len(store[LookupKey])
      /\ store[LookupKey][n + 1].occurrence = Count(shapes, shape - 1, WithId(id))
  BY <1>1 DEF RegisteredInv, Registered, LookupKey, Current
<1>5. m <= n /\ m \in Nat /\ n \in Nat
  <2>1. Shown(id, raw) \subseteq WithKey(id, raw)
    BY DEF Shown
  <2>. QED  BY <1>1, <2>1, CountFewer, CountType
<1>6. Found
  BY <1>2, <1>3, <1>4, <1>5, StoreType DEF Found
<1>7. entry.part = place /\ entry.id = id
  <2>1. occurrences[LookupKey] + 1 \in 1..Len(store[LookupKey])
    BY <1>6, EntryType
  <2>2. LookupKey[1] = place /\ LookupKey[2] = id
    BY DEF LookupKey
  <2>. QED  BY <1>2, <2>1, <2>2 DEF StoreInv
<1>8. ASSUME \A j \in earlier : ~shapes[j].hidden
      PROVE  entry.occurrence = Cardinality(earlier)
  <2>1. UpTo(shapes, shape - 1, Shown(id, raw)) = UpTo(shapes, shape - 1, WithKey(id, raw))
    BY <1>8 DEF UpTo, Shown, WithKey
  <2>2. m = n
    BY <2>1 DEF Count
  <2>. QED  BY <1>3, <1>4, <2>2 DEF Count
<1>. QED  BY <1>6, <1>7, <1>8

LEMMA BeforeIsUpTo ==
  ASSUME NEW e
  PROVE  Before(e) = UpTo(slides[e.slide].shapes, e.shape - 1, WithId(ShapeOf(e).id))
BY DEF Before, UpTo, WithId

(* What every element that Emit adds has to be.                             *)
NewKept(shown) ==
  LET earlier == UpTo(slides[place].shapes, shape - 1, WithId(Current.id))
  IN slides[place].part = place /\ Current \in Embedded =>
       /\ shown # None
       /\ shown.part = place /\ shown.id = Current.id
       /\ (\A j \in earlier : ~slides[place].shapes[j].hidden)
            => shown.occurrence = Cardinality(earlier)

KeptInv == \A i \in DOMAIN elements : Kept(elements[i])

LEMMA KeptInvEmit ==
  ASSUME TypeInv, KeptInv, AtShape, NEW shown \in Inventories \cup {None}, NEW ref,
         Emit(shown, ref), UNCHANGED <<slides, place>>, NewKept(shown)
  PROVE  KeptInv'
<1>. DEFINE last == Len(elements) + 1
            new  == [slide |-> place, number |-> counter, shape |-> shape,
                     shown |-> shown]
<1>1. /\ DOMAIN elements' = 1..last /\ DOMAIN elements = 1..Len(elements)
      /\ Len(elements) \in Nat
      /\ \A i \in 1..Len(elements) : elements'[i] = elements[i]
      /\ elements'[last] = new
  BY EmitElements, ElementsType, Zenon
<1>2. new.slide = place /\ new.shape = shape /\ new.shown = shown
  OBVIOUS
<1>. HIDE DEF new
<1>3. Kept(new)
  <2>1. ShapeOf(new) = Current
    BY <1>2 DEF ShapeOf, Current
  <2>2. Before(new) = UpTo(slides[place].shapes, shape - 1, WithId(Current.id))
    BY <1>2, <2>1, BeforeIsUpTo
  <2>. QED  BY <1>2, <2>1, <2>2 DEF Kept, NewKept
<1>4. ASSUME NEW i \in 1..last PROVE Kept(elements'[i])
  <2>1. CASE i = last
    BY <1>1, <1>3, <2>1
  <2>2. CASE i # last
    <3>1. i \in 1..Len(elements)
      BY <1>1, <2>2
    <3>2. Kept(elements[i])
      BY <1>1, <3>1 DEF KeptInv
    <3>. QED  BY <1>1, <3>1, <3>2
  <2>. QED  BY <2>1, <2>2
<1>5. ASSUME NEW i \in DOMAIN elements' PROVE Kept(elements[i])'
  <2>1. Kept(elements'[i])
    BY <1>1, <1>4
  <2>. QED  BY <2>1 DEF Kept, ShapeOf, Before
<1>. QED  BY <1>5 DEF KeptInv

LEMMA KeptInvStep ==
  TypeInv /\ TypeInv' /\ StoreInv /\ RegisteredInv /\ LookupInv /\ KeptInv
    /\ [Next]_vars => KeptInv'
<1>. SUFFICES ASSUME TypeInv, TypeInv', StoreInv, RegisteredInv, LookupInv,
                     KeptInv, [Next]_vars
              PROVE  KeptInv'
  OBVIOUS
<1>1. CASE RenderEmbedded
  <2>. DEFINE entry == store[LookupKey][occurrences[LookupKey] + 1]
  <2>1. /\ AtShape /\ Current \in Embedded /\ ~Current.hidden /\ Found
        /\ Emit(entry, <<entry.part, entry.id, entry.occurrence>>)
        /\ UNCHANGED <<slides, place>>
    BY <1>1 DEF RenderEmbedded, parserVars
  <2>2. entry \in Inventories /\ entry # None
    BY <2>1, EntryType, DeckAssumption
  <2>3. NewKept(entry)
    BY <2>1, <2>2, InPlaceIsFound DEF NewKept
  <2>. HIDE DEF entry
  <2>. QED  BY <2>1, <2>2, <2>3, KeptInvEmit
<1>2. CASE RenderLost
  <2>1. /\ AtShape /\ Current \in Embedded /\ ~Current.hidden /\ ~Found
        /\ UNCHANGED <<slides, place>>
    BY <1>2 DEF RenderLost, parserVars
  <2>2. NewKept(None)
    BY <2>1, InPlaceIsFound DEF NewKept
  <2>. QED  BY <1>2, <2>1, <2>2, KeptInvEmit DEF RenderLost
<1>3. CASE RenderGeometry
  <2>1. NewKept(None)
    BY <1>3 DEF RenderGeometry, NewKept, Geometry, Embedded
  <2>. QED  BY <1>3, <2>1, KeptInvEmit DEF RenderGeometry, parserVars
<1>4. CASE UNCHANGED <<slides, elements>>
  BY <1>4 DEF KeptInv, Kept, ShapeOf, Before
<1>5. BeginRender \/ NextSlide \/ SkipHidden \/ RecordPattern \/ AppendNotes
        \/ UNCHANGED vars => UNCHANGED <<slides, elements>>
  BY DEF BeginRender, NextSlide, SkipHidden, RecordPattern, AppendNotes, vars,
         parserVars, rendererVars
<1>6. CASE Parse
  <2>1. elements' = elements /\ Parsing
    BY <1>6 DEF Parse, ReadSlide, SkipReference, EndSlide, Fail, ResolveShape,
                rendererVars, Parsing
  <2>2. DOMAIN elements' = {}
    BY <2>1 DEF TypeInv, FreshInv
  <2>. QED  BY <2>2 DEF KeptInv
<1>. QED  BY <1>1, <1>2, <1>3, <1>4, <1>5, <1>6 DEF Next, Render

PlacesInv == StoreInv /\ RegisteredInv /\ LookupInv /\ KeptInv

LEMMA PlacesInvariant == Spec => []PlacesInv
<1>1. Init => PlacesInv
  BY StoreInvInit DEF Init, PlacesInv, RegisteredInv, LookupInv, KeptInv, Rendering
<1>2. TypeInv /\ TypeInv' /\ PlacesInv /\ [Next]_vars => PlacesInv'
  BY StoreInvStep, RegisteredInvStep, LookupInvStep, KeptInvStep DEF PlacesInv
<1>. QED  BY <1>1, <1>2, TypeInvariant, PTL DEF Spec

(* On a slide whose place is the number of its part, an embedded object     *)
(* shows the entry that was registered for it, or, after a hidden object of *)
(* its id, at least an entry of its part and id.                            *)
THEOREM InventoryKept == Spec => []InPlaceKeepsInventory
<1>1. PlacesInv => InPlaceKeepsInventory
  BY DEF PlacesInv, KeptInv, Kept, InPlaceKeepsInventory
<1>. QED  BY <1>1, PlacesInvariant, PTL

-----------------------------------------------------------------------------
(* Reports.  The diagnostic of an element, and that no two are the same.    *)

Reported == {d \in diagnostics : d.kind = "placeholder"}
InPlace == \A p \in included : slides[p].part = p

RefOf(e) == IF e.shown # None
            THEN <<e.shown.part, e.shown.id, e.shown.occurrence>>
            ELSE <<e.slide, e.number>>
ReportOf(e) == [kind |-> "placeholder", slide |-> e.slide, ref |-> RefOf(e)]

ReportInv ==
  /\ Parsing => diagnostics = {}
  /\ InPlace =>
       /\ IsFiniteSet(Reported) /\ Cardinality(Reported) = Len(elements)
       /\ \A d \in Reported : \E i \in DOMAIN elements : d = ReportOf(elements[i])

(* The diagnostics of two elements differ.                                  *)
LEMMA ReportsDiffer ==
  ASSUME NEW e \in ElementSet, NEW f \in ElementSet,
         e.number # f.number, e.shown # None => e.shown # f.shown
  PROVE  ReportOf(e) # ReportOf(f)
<1>1. SUFFICES RefOf(e) # RefOf(f)
  BY DEF ReportOf
<1>2. /\ e.shown = None \/ e.shown \in Inventories
      /\ f.shown = None \/ f.shown \in Inventories
  BY DEF ElementSet
<1>3. CASE e.shown # None /\ f.shown # None
  <2>1. ASSUME RefOf(e) = RefOf(f) PROVE FALSE
    <3>1. /\ e.shown.part = f.shown.part /\ e.shown.id = f.shown.id
          /\ e.shown.occurrence = f.shown.occurrence
      BY <1>3, <2>1 DEF RefOf
    <3>2. e.shown = f.shown
      BY <1>2, <1>3, <3>1 DEF Inventories
    <3>. QED  BY <1>3, <3>2
  <2>. QED  BY <2>1
<1>4. CASE e.shown = None /\ f.shown = None
  BY <1>4 DEF RefOf
<1>5. CASE (e.shown = None) # (f.shown = None)
  BY <1>5 DEF RefOf
<1>. QED  BY <1>3, <1>4, <1>5

LEMMA ReportInvEmit ==
  ASSUME TypeInv, NumberInv, ReportInv, AtShape,
         NEW shown \in Inventories \cup {None}, NEW ref, Emit(shown, ref),
         UNCHANGED <<pc, slides, place, included>>, IdentitiesAreUnique',
         InPlace => ref = IF shown # None
                          THEN <<shown.part, shown.id, shown.occurrence>>
                          ELSE <<place, counter>>
  PROVE  ReportInv'
<1>. DEFINE last == Len(elements) + 1
            new  == [slide |-> place, number |-> counter, shape |-> shape,
                     shown |-> shown]
<1>1. /\ DOMAIN elements' = 1..last /\ DOMAIN elements = 1..Len(elements)
      /\ Len(elements) \in Nat
      /\ \A i \in 1..Len(elements) : elements'[i] = elements[i]
      /\ elements'[last] = new
  BY EmitElements, ElementsType, Zenon
<1>2. Len(elements') = last
  <2>1. elements \in Seq(ElementSet) /\ new \in ElementSet
    BY ElementsType, PlaceType DEF ElementSet, TypeInv, TypeOK
  <2>2. elements' = Append(elements, new)
    BY DEF Emit
  <2>. HIDE DEF new
  <2>. QED  BY <2>1, <2>2, AppendProperties
<1>3. /\ new \in ElementSet
      /\ new.slide = place /\ new.number = counter /\ new.shown = shown
  BY PlaceType DEF ElementSet, TypeInv, TypeOK
<1>. HIDE DEF new
<1>10. ~Parsing'
  BY DEF AtShape, Rendering, Parsing
<1>. SUFFICES ASSUME InPlace'
              PROVE  /\ IsFiniteSet(Reported') /\ Cardinality(Reported') = last
                     /\ \A d \in Reported' : \E i \in DOMAIN elements' :
                          d = ReportOf(elements'[i])
  BY <1>2, <1>10 DEF ReportInv, ReportOf, RefOf
<1>4. InPlace
  BY DEF InPlace
<1>5. ReportOf(new) = [kind |-> "placeholder", slide |-> place, ref |-> ref]
  BY <1>3, <1>4 DEF ReportOf, RefOf
<1>6. Reported' = Reported \cup {ReportOf(new)}
  BY <1>5 DEF Reported, Emit
<1>7. ReportOf(new) \notin Reported
  <2>. SUFFICES ASSUME NEW i \in DOMAIN elements, ReportOf(new) = ReportOf(elements[i])
                PROVE  FALSE
    BY <1>4 DEF ReportInv
  <2>1. elements[i] \in ElementSet
    BY ElementsType
  <2>2. elements[i].number # new.number
    <3>1. elements[i].number < counter /\ elements[i].number \in Nat /\ counter \in Nat
      BY ElementsType DEF NumberInv, TypeInv, TypeOK
    <3>. QED  BY <1>3, <3>1
  <2>3. new.shown # None => new.shown # elements[i].shown
    <3>1. i \in DOMAIN elements' /\ last \in DOMAIN elements' /\ i # last
      BY <1>1
    <3>2. elements'[i] = elements[i] /\ elements'[last] = new
      BY <1>1
    <3>. QED  BY <3>1, <3>2, Zenon DEF IdentitiesAreUnique
  <2>. QED  BY <1>3, <2>1, <2>2, <2>3, ReportsDiffer
<1>8. IsFiniteSet(Reported') /\ Cardinality(Reported') = last
  BY <1>4, <1>6, <1>7, FS_AddElement DEF ReportInv
<1>9. ASSUME NEW d \in Reported'
      PROVE  \E i \in DOMAIN elements' : d = ReportOf(elements'[i])
  <2>1. CASE d = ReportOf(new)
    BY <1>1, <2>1
  <2>2. CASE d \in Reported
    <3>1. PICK i \in DOMAIN elements : d = ReportOf(elements[i])
      BY <1>4, <2>2 DEF ReportInv
    <3>. QED  BY <1>1, <3>1
  <2>. QED  BY <1>6, <2>1, <2>2
<1>. QED  BY <1>8, <1>9

LEMMA ReportInvKeep ==
  ASSUME ReportInv, elements' = elements, Reported' = Reported, InPlace' => InPlace,
         ~Parsing'
  PROVE  ReportInv'
BY DEF ReportInv, ReportOf, RefOf

LEMMA ReportInvFresh == elements = <<>> /\ diagnostics = {} => ReportInv
BY FS_EmptySet DEF ReportInv, Reported

LEMMA ReportInvStep ==
  TypeInv /\ NumberInv /\ PlacesInv /\ IdentitiesAreUnique' /\ ReportInv
    /\ [Next]_vars => ReportInv'
<1>. SUFFICES ASSUME TypeInv, NumberInv, PlacesInv, IdentitiesAreUnique',
                     ReportInv, [Next]_vars
              PROVE  ReportInv'
  OBVIOUS
<1>1. CASE RenderEmbedded
  <2>. DEFINE entry == store[LookupKey][occurrences[LookupKey] + 1]
  <2>1. /\ AtShape /\ Current \in Embedded /\ Found
        /\ Emit(entry, <<entry.part, entry.id, entry.occurrence>>)
        /\ UNCHANGED <<pc, slides, place, included>>
    BY <1>1 DEF RenderEmbedded, parserVars
  <2>2. entry \in Inventories /\ entry # None
    BY <2>1, EntryType, DeckAssumption
  <2>. HIDE DEF entry
  <2>. QED  BY <2>1, <2>2, ReportInvEmit
<1>2. CASE RenderLost
  <2>1. /\ AtShape /\ Current \in Embedded /\ ~Current.hidden /\ ~Found
        /\ UNCHANGED <<pc, slides, place, included>> /\ place \in included
    BY <1>2 DEF RenderLost, parserVars, AtShape
  <2>2. ~InPlace
    BY <2>1, InPlaceIsFound DEF PlacesInv, InPlace
  <2>. QED  BY <1>2, <2>1, <2>2, ReportInvEmit DEF RenderLost
<1>3. CASE RenderGeometry
  BY <1>3, ReportInvEmit DEF RenderGeometry, Placeholder, parserVars
<1>4. CASE RecordPattern \/ AppendNotes
  <2>1. Reported' = Reported
    BY <1>4 DEF RecordPattern, AppendNotes, Reported
  <2>2. UNCHANGED <<slides, included, elements>> /\ ~Parsing'
    BY <1>4 DEF RecordPattern, AppendNotes, AtShape, Rendering, Parsing, parserVars
  <2>. QED  BY <2>1, <2>2, ReportInvKeep DEF InPlace
<1>5. CASE NextSlide \/ SkipHidden
  <2>1. UNCHANGED <<slides, included, elements, diagnostics>> /\ ~Parsing'
    BY <1>5 DEF NextSlide, SkipHidden, AtShape, Rendering, Parsing, parserVars
  <2>. QED  BY <2>1, ReportInvKeep DEF InPlace, Reported
<1>6. CASE Parse \/ BeginRender
  <2>1. Parsing /\ UNCHANGED <<elements, diagnostics>>
    BY <1>6 DEF Parse, ReadSlide, SkipReference, EndSlide, Fail, ResolveShape,
                BeginRender, Parsing, rendererVars
  <2>2. (elements = <<>> /\ diagnostics = {})'
    BY <2>1 DEF TypeInv, FreshInv, ReportInv
  <2>. QED  BY <2>2, ReportInvFresh, PTL
<1>7. CASE UNCHANGED vars
  BY <1>7 DEF vars, parserVars, rendererVars, ReportInv, InPlace, Reported,
              ReportOf, RefOf, Parsing
<1>. QED  BY <1>1, <1>2, <1>3, <1>4, <1>5, <1>6, <1>7 DEF Next, Render

(* Where every slide that is rendered is in its place, every placeholder    *)
(* has a diagnostic of its own.                                             *)
THEOREM ReportedOnce == Spec => []InPlaceIsReported
<1>1. Init => NumberInv /\ ReportInv
  BY ReportInvFresh DEF Init, NumberInv
<1>2. ReportInv => InPlaceIsReported
  BY DEF ReportInv, InPlaceIsReported, InPlace, Reported
<1>. QED  BY <1>1, <1>2, TypeInvariant, NumberInvStep, PlacesInvariant,
          SourcesAreUnique, ReportInvStep, PTL DEF Spec

=============================================================================
