----------------------------- MODULE SaxMachine -----------------------------
(***************************************************************************)
(* The event loop that the slide, layout, master and theme parsers of      *)
(* pptx2html-core share: a stack of open elements, boolean "where am I"    *)
(* flags, builders under construction, and colours (and other values) that *)
(* wait in a temporary until an end tag stores them.                       *)
(*                                                                         *)
(* Each parser is a module of rule tables, one rule per match arm, in the  *)
(* order in which the handlers are tried; the first arm whose guard holds  *)
(* handles the event.  The document is whatever the grammar Children       *)
(* allows, outside the Barred paths.  Every value carries its home, the slot and the element that    *)
(* own it by its place in the document, which the parser never looks at:   *)
(* the properties compare where the code puts a value with its home.       *)
(***************************************************************************)
EXTENDS Naturals, Sequences

CONSTANTS
  Children,  \* tag -> sequence of the sets of its children (the XML schema)
  Many,      \* tags that may occur again beside each other
  Required,  \* tag -> the tags one of which must be its last child
  Barred,    \* path suffixes that the documents do not contain
  Root,      \* the document element
  MaxDepth,  \* bound on the nesting
  Values,    \* tags of the elements that carry a value and no builder
  Colours,   \* those whose value has modifiers below it, so waits for its end tag
  Names,     \* flags and builders of the parser
  Temps,     \* where a value waits for an end tag
  Opens,     \* rules for start tags
  Closes,    \* rules for end tags
  Routes,    \* rules for values
  Stacked,   \* the tag that is kept on a stack of its own (groups)
  Homes,     \* <<value, path suffix, slot, owner tags>>: where values belong
  Pieces,    \* tag -> tags of the elements its result belongs to
  Scope      \* flag -> tags of the elements inside which it may be set

VARIABLES
  path,      \* the open elements, outermost first
  last,      \* the last child that the innermost one has so far, or ""
  on,        \* name -> depth of the element that set it, 0 when off or absent
  stack,     \* depths of the open Stacked elements
  kept,      \* temporary -> the values waiting in it
  stored,    \* what the last event stored: [token, slot, at]
  pushed,    \* what the last event appended: [what, at, into]
  lost       \* values that have a home and that the last event dropped

vars == <<path, last, on, stack, kept, stored, pushed, lost>>

---------------------------------------------------------------------------
(* Which rule handles an event.                                            *)

Elements(s) == {s[i] : i \in 1..Len(s)}

\* What a guard can see: the names that are on, the temporaries in which a value
\* waits, the open elements, the stack.
Active(p) == {n \in Names : on[n] # 0} \cup {t \in Temps : kept[t] # {}}
               \cup Elements(p) \cup (IF stack = <<>> THEN {} ELSE {"stack"})

Matches(rules, tag, act) ==
  {i \in 1..Len(rules) : /\ rules[i].tag = tag
                         /\ rules[i].need \subseteq act
                         /\ rules[i].lack \cap act = {}}

\* The first arm that handles the event; none is the empty set.
First(rules, tag, act) ==
  LET m == Matches(rules, tag, act)
  IN IF m = {} THEN {} ELSE {rules[CHOOSE i \in m : \A j \in m : i <= j]}

---------------------------------------------------------------------------
(* Where a value belongs: the innermost owner on the path of its suffix.    *)

Ends(p, s) == Len(s) <= Len(p) /\ SubSeq(p, Len(p) - Len(s) + 1, Len(p)) = s

\* Depth of the innermost open element with one of the tags, 0 if there is none.
Inner(p, tags) ==
  LET d == {i \in 1..Len(p) : p[i] \in tags}
  IN IF d = {} THEN 0 ELSE CHOOSE i \in d : \A j \in d : j <= i

Nowhere == [slot |-> "nowhere", at |-> 0, until |-> 0]

Home(value, p) ==
  LET m == {i \in 1..Len(Homes) : Homes[i][1] = value /\ Ends(p, Homes[i][2])}
      h == Homes[CHOOSE i \in m : \A j \in m : Len(Homes[j][2]) <= Len(Homes[i][2])]
  IN IF m = {} THEN Nowhere
     ELSE [slot |-> h[3], at |-> Inner(p, h[4]), until |-> Len(p) - Len(h[2]) + 1]

Waiting(k) == UNION {k[t] : t \in Temps}

\* What an event dropped: values with a home that neither wait nor were stored,
\* and values still waiting although the element they belong to is closed.
Dropped(new) ==
  {t \in Waiting(kept) \cup new : /\ t.slot # "nowhere"
                                  /\ t \notin Waiting(kept')
                                  /\ ~\E s \in stored' : s.token = t}
  \cup {t \in Waiting(kept') : t.slot # "nowhere" /\ t.until > Len(path')}

---------------------------------------------------------------------------
(* The documents: children in the order of the schema, once unless Many.    *)

Top == path[Len(path)]

Place(tag) == CHOOSE i \in 1..Len(Children[Top]) : tag \in Children[Top][i]
Offered ==
  {tag \in UNION Elements(Children[Top]) :
     /\ \/ last = ""
        \/ Place(last) < Place(tag)
        \/ Place(last) = Place(tag) /\ {last, tag} \subseteq Many
     /\ ~\E s \in Barred : Ends(Append(path, tag), s)}

Init ==
  /\ path = <<Root>> /\ last = ""
  /\ on = [n \in Names |-> 0]
  /\ stack = <<>>
  /\ kept = [t \in Temps |-> {}]
  /\ stored = {} /\ pushed = {} /\ lost = {}

\* Where a builder was started; the innermost group, or the document itself.
At(name) == CASE name = "container" -> IF stack = <<>> THEN 0 ELSE stack[Len(stack)]
              [] name = "document" -> 0
              [] OTHER -> on[name]
Present(name) == name \in {"container", "document"} \/ on[name] # 0

\* Event::Start of an element that carries no value.
StartElement(tag) ==
  /\ Len(path) < MaxDepth
  /\ path' = Append(path, tag) /\ last' = ""
  /\ LET d == Len(path) + 1
         r == First(Opens, tag, Active(path'))
         sets == UNION {x.set : x \in r}
         resets == UNION {x.reset : x \in r}
     IN /\ on' = [n \in Names |-> IF n \in sets THEN d
                                  ELSE IF n \in resets THEN 0 ELSE on[n]]
        /\ kept' = [t \in Temps |-> IF t \in resets THEN {} ELSE kept[t]]
        /\ stack' = IF tag = Stacked /\ r = {} THEN Append(stack, d) ELSE stack
  /\ stored' = {} /\ pushed' = {}
  /\ lost' = Dropped({})

\* Event::End of an element that carries no value.
EndElement ==
  /\ Len(path) > 1 /\ Top \notin Values
  /\ Top \in DOMAIN Required => last \in Required[Top]
  /\ path' = SubSeq(path, 1, Len(path) - 1)
  /\ last' = Top
  /\ LET r == First(Closes, Top, Active(path'))
         takes == UNION {x.takes : x \in r}
         moves == {m \in UNION {x.moves : x \in r} :
                     Present(m.from) /\ Present(m.into)}
         gone == UNION {x.clear \cup {m.from : m \in x.moves} : x \in r}
         pops == Top = Stacked /\ r = {} /\ stack # <<>>
         below == IF pops THEN SubSeq(stack, 1, Len(stack) - 1) ELSE stack
     IN /\ on' = [n \in Names |-> IF n \in gone THEN 0 ELSE on[n]]
        /\ stack' = below
        /\ pushed' = {[what |-> m.what, at |-> At(m.from), into |-> At(m.into)] : m \in moves}
                     \cup (IF pops THEN {[what |-> Stacked, at |-> At("container"),
                             into |-> IF below = <<>> THEN 0 ELSE below[Len(below)]]}
                           ELSE {})
        /\ kept' = [t \in Temps |->
                      (IF \E k \in takes : k.temp = t THEN {} ELSE kept[t])
                      \cup UNION {kept[k.temp] : k \in {k \in takes :
                                     k.into = "kept" /\ k.slot = t}}]
        /\ stored' = UNION {{[token |-> v, slot |-> k.slot, at |-> At(k.into)] :
                               v \in kept[k.temp]} :
                            k \in {k \in takes : k.into # "kept" /\ Present(k.into)}}
  /\ lost' = Dropped({})

\* What one route does with a value, given the temporaries as they are.
Put(r, tok, k) ==
  [kept |-> CASE r.act = "keep" -> [k EXCEPT ![r.slot] = {tok}]
              [] r.act = "add" -> [k EXCEPT ![r.slot] = @ \cup {tok}]
              [] OTHER -> k,
   stored |-> CASE r.act = "store" ->
                     {[token |-> tok, slot |-> r.slot, at |-> At(b)] :
                        b \in {b \in r.into : Present(b)}}
                [] r.act = "touch" ->
                     {[token |-> t, slot |-> tok.slot, at |-> tok.at] : t \in k[r.slot]}
                [] OTHER -> {}]

\* Hand a value to the first route for it; it is ignored when no arm takes it.
Deliver(tag, tok, k) ==
  LET r == First(Routes, tag, Active(path'))
      put == IF r = {} THEN [kept |-> k, stored |-> {}]
             ELSE Put(CHOOSE x \in r : TRUE, tok, k)
  IN /\ kept' = put.kept
     /\ stored' = put.stored
     /\ pushed' = {}
     /\ UNCHANGED <<on, stack>>

\* Event::Empty (or Text) of a value.
EmptyValue(tag) ==
  /\ path' = path /\ last' = tag
  /\ Deliver(tag, Home(tag, path), kept)
  /\ lost' = Dropped({Home(tag, path)})

\* Event::Start of a value that has children: it waits until its end tag.
StartValue(tag) ==
  /\ Len(path) < MaxDepth
  /\ path' = Append(path, tag) /\ last' = ""
  /\ Deliver("start", Home(tag, path), kept)
  /\ lost' = Dropped({Home(tag, path)})

\* A modifier of the value that is open.
ModifyValue ==
  /\ Top \in Values
  /\ path' = path /\ last' = last
  /\ LET own == Home(Top, SubSeq(path, 1, Len(path) - 1))
     IN /\ Deliver("modifier", own, kept)
        /\ lost' = Dropped(IF stored' = {} THEN {own} ELSE {})

\* Event::End of a value: take what waits in the current slot and route it.
EndValue ==
  /\ Top \in Values
  /\ path' = SubSeq(path, 1, Len(path) - 1) /\ last' = Top
  /\ \/ \E tok \in kept["current"] :
          /\ Deliver(Top, tok, [kept EXCEPT !["current"] = {}])
          /\ lost' = Dropped({})
     \/ /\ kept["current"] = {}
        /\ UNCHANGED <<on, stack, kept>>
        /\ stored' = {} /\ pushed' = {}
        /\ lost' = Dropped({})

Next ==
  \/ \E tag \in Offered \ Values : StartElement(tag)
  \/ \E tag \in Offered \cap Values : EmptyValue(tag)
  \/ \E tag \in Offered \cap Colours : StartValue(tag)
  \/ ModifyValue
  \/ EndElement
  \/ EndValue

Spec == Init /\ [][Next]_vars

---------------------------------------------------------------------------
(* Properties. *)

\* Every value the parser stores is stored in the slot and in the object it
\* belongs to by its place in the document (route_color, assign_color,
\* handle_end and the arms of the main loop).
ValuesGoHome ==
  \A s \in stored : s.token.slot = s.slot /\ s.token.at = s.at

\* What an element sets up ends with it and not before: no value that has a
\* home is dropped, overwritten while it waits, or left waiting after the
\* element it belongs to; and every flag and every builder is off outside the
\* elements it speaks about, so that nothing leaks from one shape, run, cell
\* or frame into the next.
NoValueLost ==
  /\ lost = {}
  /\ \A n \in Names : on[n] # 0 =>
       \E d \in 1..Len(path) : path[d] \in Scope[n] /\ d <= on[n]

\* The end of an element that yields an object appends exactly that object,
\* once, to the object that encloses it; no other event appends anything.
PieceOf(p) ==
  LET tag == p[Len(p)]
      outer == SubSeq(p, 1, Len(p) - 1)
  IN IF tag \notin DOMAIN Pieces THEN {}
     ELSE {[what |-> tag, at |-> Len(p), into |-> Inner(outer, Pieces[tag])]}
PiecesOnce ==
  [][pushed' = IF Len(path') < Len(path) THEN PieceOf(path) ELSE {}]_vars

=============================================================================
