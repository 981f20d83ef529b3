--------------------------- MODULE MCSlideParser ---------------------------
(***************************************************************************)
(* The grammar for SlideParser: the elements of a slide in the order of    *)
(* the DrawingML and PresentationML schemas, as far as the parser reads    *)
(* them, with those it is known to misplace.  Limits bars the latter.      *)
(***************************************************************************)
EXTENDS SlideParser, TLC

Fill == {"solidFill", "gradFill", "pattFill", "blipFill"}
GroupChildren == {"sp", "pic", "cxnSp", "graphicFrame", "grpSp"}

Shapes ==
  "sld" :> <<{"cSld"}>> @@ "cSld" :> <<{"bg"}, {"spTree"}>> @@ "bg" :> <<{"bgPr"}>>
  @@ "bgPr" :> <<Fill>>
  @@ "spTree" :> <<{"nvGrpSpPr"}, {"grpSpPr"}, GroupChildren>>
  @@ "grpSp" :> <<{"nvGrpSpPr"}, {"grpSpPr"}, GroupChildren>>
  @@ "nvGrpSpPr" :> <<{"cNvPr"}, {"nvPr"}>> @@ "grpSpPr" :> <<{"xfrm"}, Fill>>
  @@ "xfrm" :> <<{"off"}>> @@ "cNvPr" :> <<{"hlink"}>> @@ "nvPr" :> <<{"ph"}>>
  @@ "sp" :> <<{"nvSpPr"}, {"spPr"}, {"style"}, {"txBody"}>>
  @@ "nvSpPr" :> <<{"cNvPr"}, {"nvPr"}>> @@ "nvPicPr" :> <<{"cNvPr"}, {"nvPr"}>>
  @@ "pic" :> <<{"nvPicPr"}, {"blipFill"}, {"spPr"}>>
  @@ "cxnSp" :> <<{"spPr"}, {"style"}>> @@ "blipFill" :> <<{"blip"}>>
  @@ "spPr" :> <<{"xfrm"}, {"prstGeom", "custGeom"}, Fill, {"ln"}, {"effectLst"}, {"sp3d"}>>
  @@ "prstGeom" :> <<{"avLst"}>>
  @@ "custGeom" :> <<{"avLst"}, {"gdLst"}, {"ahXY"}, {"cxn"}, {"path"}>>
  @@ "avLst" :> <<{"gd"}>> @@ "gdLst" :> <<{"gd"}>>
  @@ "path" :> <<{"moveTo"}>> @@ "moveTo" :> <<{"pt"}>>
  @@ "ahXY" :> <<{"pos"}>> @@ "cxn" :> <<{"pos"}>>
  @@ "ln" :> <<{"solidFill", "gradFill", "pattFill"}>>
  @@ "effectLst" :> <<{"glow"}, {"outerShdw"}>> @@ "sp3d" :> <<{"extrusionClr"}>>
  @@ "extrusionClr" :> <<{"clr"}>>
  @@ "style" :> <<{"lnRef"}, {"fillRef"}>>
  @@ "lnRef" :> <<{"clr"}>> @@ "fillRef" :> <<{"clr"}>>
  @@ "solidFill" :> <<{"clr"}>> @@ "gradFill" :> <<{"gs"}>> @@ "gs" :> <<{"clr"}>>
  @@ "pattFill" :> <<{"fgClr"}, {"bgClr"}>>
  @@ "fgClr" :> <<{"clr"}>> @@ "bgClr" :> <<{"clr"}>>
  @@ "outerShdw" :> <<{"clr"}>> @@ "glow" :> <<{"clr"}>> @@ "clr" :> <<>>

Texts ==
  "txBody" :> <<{"bodyPr"}, {"lstStyle"}, {"p"}>> @@ "lstStyle" :> <<{"lvl1pPr"}>>
  @@ "lvl1pPr" :> <<{"lnSpc"}, {"spcBef"}, {"buClr"}, {"buBlip", "buChar"}, {"defRPr"}>>
  @@ "lnSpc" :> <<{"spcPct"}>> @@ "spcBef" :> <<{"spcPct"}>> @@ "buClr" :> <<{"clr"}>>
  @@ "buBlip" :> <<{"blip"}>>
  @@ "defRPr" :> <<{"ln"}, {"solidFill", "gradFill"}, {"effectLst"}, {"latin"}>>
  @@ "p" :> <<{"pPr"}, {"r", "fld"}, {"endParaRPr"}>>
  @@ "pPr" :> <<{"lnSpc"}, {"spcBef"}, {"buClr"}, {"buBlip", "buChar"}, {"defRPr"}>>
  @@ "r" :> <<{"rPr"}, {"t"}>> @@ "fld" :> <<{"rPr"}, {"t"}>> @@ "t" :> <<{"chars"}>>
  @@ "endParaRPr" :> <<{"solidFill"}, {"latin"}>>
  @@ "rPr" :> <<{"ln"}, {"solidFill", "gradFill"}, {"effectLst"}, {"highlight"},
               {"latin"}, {"hlink"}>>
  @@ "highlight" :> <<{"clr"}>>

Frames ==
  "graphicFrame" :> <<{"nvGraphicFramePr"}, {"xfrm"}, {"graphic"}>>
  @@ "nvGraphicFramePr" :> <<{"cNvPr"}, {"nvPr"}>>
  @@ "graphic" :> <<{"tableData", "chartData", "oleData"}>> @@ "tableData" :> <<{"tbl"}>>
  @@ "chartData" :> <<{"chart"}>> @@ "oleData" :> <<{"oleObj"}>> @@ "oleObj" :> <<{"pic"}>>
  @@ "tbl" :> <<{"tblPr"}, {"tr"}>> @@ "tblPr" :> <<{"tableStyleId"}>>
  @@ "tableStyleId" :> <<{"chars"}>> @@ "tr" :> <<{"tc"}>> @@ "tc" :> <<{"txBody"}, {"tcPr"}>>
  @@ "tcPr" :> <<{"lnL"}, {"lnR"}, {"solidFill", "gradFill", "pattFill"}>>
  @@ "lnL" :> <<{"solidFill", "pattFill"}>> @@ "lnR" :> <<{"solidFill", "pattFill"}>>

Schema == Frames @@ Texts @@ Shapes
Repeatable == GroupChildren \cup {"p", "r", "fld", "gs", "gd", "path", "moveTo", "ahXY",
                                  "cxn", "tr", "tc"}

\* A frame ends with its graphic, the graphic with its data, a table's data with
\* the table.
LastChild == "graphicFrame" :> {"graphic"} @@ "tableData" :> {"tbl"}
  @@ "graphic" :> {"tableData", "chartData", "oleData"}

\* Elements whose values the parser puts somewhere else, or drops.
Effects == {<<"rPr", "effectLst", "glow">>, <<"spPr", "sp3d">>}
OutlineColours == {<<"rPr", "ln">>, <<"defRPr", "ln">>, <<"ln", "gradFill">>,
                   <<"ln", "pattFill">>, <<"lnL", "pattFill">>, <<"lnR", "pattFill">>}
TextFills == {<<"rPr", "gradFill">>, <<"defRPr", "gradFill">>, <<"tcPr", "gradFill">>,
              <<"defRPr", "effectLst">>}
ListColours == {<<"lvl1pPr", "buClr">>, <<"lvl1pPr", "buChar">>}
GroupFills == {<<"grpSpPr", f>> : f \in Fill}
Previews == {<<"oleObj", "pic">>}
Limits == Effects \cup OutlineColours \cup TextFills \cup ListColours \cup GroupFills
            \cup Previews

=============================================================================
