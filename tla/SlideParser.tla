---------------------------- MODULE SlideParser ----------------------------
(***************************************************************************)
(* parse_slide_impl: the SAX parser of a slide part, with the states of    *)
(* its four helpers: graphic frames, tables, text and fills.  One rule per *)
(* match arm; names are the code's flags and builders (tbl_ and txt_ are   *)
(* the fields of TableSaxState and TextSaxState).  Tags that one arm       *)
(* treats alike have one representative: lnL/lnR for the four borders,     *)
(* lnRef/fillRef for the four style references, lnSpc/spcBef for spacing,  *)
(* lvl1pPr for the nine levels, clr for the four colour elements, latin    *)
(* for the three typefaces, hlink for the click and hover actions.         *)
(* tableData, chartData and oleData are a:graphicData by its uri.          *)
(***************************************************************************)
EXTENDS Naturals, Sequences, SaxRules

CONSTANTS Children, Many, Required, Barred, MaxDepth
VARIABLES path, last, on, stack, kept, stored, pushed, lost

Root == "sld"
Stacked == "grpSp"
Colours == {"clr"}
Values == {"clr", "blip", "chart", "ph", "hlink", "chars", "latin", "spcPct",
           "buChar", "bodyPr", "off", "gd", "pt", "pos"}

Objects == {"sp", "pic", "cxnSp", "graphicFrame"}

\* Every flag and builder of the parser, with the elements it speaks about.
Scope ==
  [in_frame |-> {"graphicFrame"}, in_graphic |-> {"graphic"},
   in_data |-> {"tableData", "chartData", "oleData"}, is_chart |-> {"graphicFrame"},
   unsupported |-> {"graphicFrame"}, shape |-> Objects, is_picture |-> {"pic"},
   is_connector |-> {"cxnSp"}, in_nv_pr |-> {"nvPr"}, in_sp_pr |-> {"spPr"},
   in_grp_sp_pr |-> {"grpSpPr"}, in_av_lst |-> {"avLst", "gdLst"},
   in_cust_geom |-> {"custGeom"}, in_cust_geom_path |-> {"path"},
   in_cust_geom_cmd |-> {"moveTo"}, xy_handle |-> {"ahXY"}, site |-> {"cxn"},
   owner_shape |-> {"cNvPr"}, owner_group |-> {"cNvPr"},
   tbl_in_table |-> {"tbl"}, tbl_builder |-> {"graphicFrame"}, tbl_in_row |-> {"tr"},
   tbl_row |-> {"tr"}, tbl_in_cell |-> {"tc"}, tbl_cell |-> {"tc"},
   tbl_in_properties |-> {"tcPr"}, tbl_lnL |-> {"lnL"}, tbl_lnR |-> {"lnR"},
   tbl_paragraph |-> {"p"}, tbl_run |-> {"r"}, tbl_in_text |-> {"t"},
   tbl_in_rPr |-> {"rPr"}, tbl_in_defRPr |-> {"defRPr"}, tbl_in_lnSpc |-> {"lnSpc"},
   tbl_in_spcBef |-> {"spcBef"}, tbl_in_buClr |-> {"buClr"},
   tbl_in_buBlip |-> {"buBlip"}, tbl_in_lstStyle |-> {"lstStyle"},
   tbl_list_level |-> {"lvl1pPr"}, tbl_in_style_id |-> {"tableStyleId"},
   txt_paragraph |-> {"p"}, txt_run |-> {"r"}, txt_in_text |-> {"t"},
   txt_in_rPr |-> {"rPr"}, txt_in_defRPr |-> {"defRPr"}, txt_in_lnSpc |-> {"lnSpc"},
   txt_in_spcBef |-> {"spcBef"}, txt_in_buClr |-> {"buClr"},
   txt_in_buBlip |-> {"buBlip"}, txt_in_lstStyle |-> {"lstStyle"},
   txt_level |-> {"lvl1pPr"}, txt_list_defRPr |-> {"defRPr"},
   txt_list_lnSpc |-> {"lnSpc"}, txt_list_spcBef |-> {"spcBef"},
   in_line |-> {"ln"}, in_gradient |-> {"gradFill"}, text_effects |-> {"effectLst"},
   text_shadow |-> {"outerShdw"}, in_highlight |-> {"highlight"},
   shape_effects |-> {"effectLst"}, shape_shadow |-> {"outerShdw"},
   shape_glow |-> {"glow"}, in_style |-> {"style"}, ln_ref |-> {"lnRef"},
   fill_ref |-> {"fillRef"}, in_background |-> {"bgPr"}, bg_image |-> {"blipFill"},
   bg_gradient |-> {"gradFill"}, pattern |-> {"pattFill"}, pattern_bg |-> {"pattFill"},
   pattern_cell |-> {"pattFill"}, pattern_shape |-> {"pattFill"},
   role |-> {"fgClr", "bgClr"}]
Names == DOMAIN Scope

\* Options and vectors in which a value waits for the end of an element.
Temps == {"current", "effect", "stops", "pattern_colours", "style_ln", "style_fill",
          "bg_rel", "bg_solid", "bg_stops", "run_defaults", "paragraph_defaults",
          "tbl_list_style", "cust_geom_pts"}

\* What a new ShapeBuilder resets.
\* Mutant: what an earlier shape was is not forgotten.
KeepOldShape == {}
NewShape == {"unsupported", "is_picture", "is_connector"}

---------------------------------------------------------------------------
(* Where values belong, by the schema: <<value, path suffix, slot, owners>>. *)

Homes ==
  << <<"clr", <<"spPr", "solidFill">>, "fill", Objects>>,
     <<"clr", <<"spPr", "gradFill", "gs">>, "stop", Objects>>,
     <<"clr", <<"spPr", "pattFill", "fgClr">>, "pattern", Objects>>,
     <<"clr", <<"spPr", "pattFill", "bgClr">>, "pattern", Objects>>,
     <<"clr", <<"spPr", "ln", "solidFill">>, "border", Objects>>,
     <<"clr", <<"spPr", "effectLst", "outerShdw">>, "shadow", Objects>>,
     <<"clr", <<"spPr", "effectLst", "glow">>, "glow", Objects>>,
     <<"clr", <<"style", "lnRef">>, "lnRef", Objects>>,
     <<"clr", <<"style", "fillRef">>, "fillRef", Objects>>,
     <<"clr", <<"sp", "txBody", "lstStyle", "lvl1pPr", "defRPr", "solidFill">>, "list",
       Objects>>,
     <<"clr", <<"pPr", "defRPr", "solidFill">>, "defaultRun", {"p"}>>,
     <<"clr", <<"pPr", "buClr">>, "bulletColour", {"p"}>>,
     <<"clr", <<"r", "rPr", "solidFill">>, "run", {"r"}>>,
     <<"clr", <<"r", "rPr", "highlight">>, "highlight", {"r"}>>,
     <<"clr", <<"r", "rPr", "effectLst", "outerShdw">>, "runShadow", {"r"}>>,
     <<"clr", <<"tcPr", "lnL", "solidFill">>, "lnL", {"tc"}>>,
     <<"clr", <<"tcPr", "lnR", "solidFill">>, "lnR", {"tc"}>>,
     <<"clr", <<"tcPr", "solidFill">>, "fill", {"tc"}>>,
     <<"clr", <<"tcPr", "pattFill", "fgClr">>, "pattern", {"tc"}>>,
     <<"clr", <<"tcPr", "pattFill", "bgClr">>, "pattern", {"tc"}>>,
     <<"clr", <<"bgPr", "solidFill">>, "background", {}>>,
     <<"clr", <<"bgPr", "gradFill", "gs">>, "backgroundStop", {}>>,
     <<"clr", <<"bgPr", "pattFill", "fgClr">>, "pattern", {}>>,
     <<"clr", <<"bgPr", "pattFill", "bgClr">>, "pattern", {}>>,
     <<"blip", <<"pic", "blipFill">>, "image", Objects>>,
     <<"blip", <<"spPr", "blipFill">>, "image", Objects>>,
     <<"blip", <<"bgPr", "blipFill">>, "backgroundImage", {}>>,
     <<"blip", <<"pPr", "buBlip">>, "bullet", {"p"}>>,
     <<"blip", <<"sp", "txBody", "lstStyle", "lvl1pPr", "buBlip">>, "list", Objects>>,
     <<"blip", <<"tc", "txBody", "lstStyle", "lvl1pPr", "buBlip">>, "list", {"tc"}>>,
     <<"chart", <<"chartData">>, "chart", Objects>>,
     <<"ph", <<"nvSpPr", "nvPr">>, "placeholder", Objects>>,
     <<"ph", <<"nvPicPr", "nvPr">>, "placeholder", Objects>>,
     <<"ph", <<"nvGraphicFramePr", "nvPr">>, "placeholder", Objects>>,
     <<"hlink", <<"grpSp", "nvGrpSpPr", "cNvPr">>, "action", {"grpSp"}>>,
     <<"hlink", <<"nvSpPr", "cNvPr">>, "action", Objects>>,
     <<"hlink", <<"nvPicPr", "cNvPr">>, "action", Objects>>,
     <<"hlink", <<"nvGraphicFramePr", "cNvPr">>, "action", Objects>>,
     <<"hlink", <<"r", "rPr">>, "action", {"r"}>>,
     <<"chars", <<"r", "t">>, "text", {"r"}>>,
     <<"chars", <<"tableStyleId">>, "tableStyle", {"tbl"}>>,
     <<"latin", <<"r", "rPr">>, "font", {"r"}>>,
     <<"latin", <<"pPr", "defRPr">>, "defaultFont", {"p"}>>,
     <<"latin", <<"sp", "txBody", "lstStyle", "lvl1pPr", "defRPr">>, "list", Objects>>,
     <<"spcPct", <<"pPr", "lnSpc">>, "lnSpc", {"p"}>>,
     <<"spcPct", <<"pPr", "spcBef">>, "spcBef", {"p"}>>,
     <<"spcPct", <<"sp", "txBody", "lstStyle", "lvl1pPr", "lnSpc">>, "list", Objects>>,
     <<"spcPct", <<"sp", "txBody", "lstStyle", "lvl1pPr", "spcBef">>, "list", Objects>>,
     <<"buChar", <<"p", "pPr">>, "bullet", {"p"}>>,
     <<"buChar", <<"sp", "txBody", "lstStyle", "lvl1pPr">>, "list", Objects>>,
     <<"bodyPr", <<"sp", "txBody">>, "bodyPr", {"sp"}>>,
     <<"off", <<"spPr", "xfrm">>, "position", Objects>>,
     <<"off", <<"graphicFrame", "xfrm">>, "position", {"graphicFrame"}>>,
     <<"off", <<"grpSp", "grpSpPr", "xfrm">>, "position", {"grpSp"}>>,
     <<"gd", <<"prstGeom", "avLst">>, "adjust", Objects>>,
     <<"gd", <<"custGeom", "avLst">>, "guide", {"custGeom"}>>,
     <<"gd", <<"custGeom", "gdLst">>, "guide", {"custGeom"}>>,
     <<"pt", <<"path", "moveTo">>, "point", {"path"}>>,
     <<"pos", <<"ahXY">>, "handle", {"ahXY"}>>,
     <<"pos", <<"cxn">>, "site", {"cxn"}>> >>

\* Elements that yield an object, and what the object is part of.
Pieces ==
  [sp |-> {"grpSp"}, pic |-> {"grpSp"}, cxnSp |-> {"grpSp"}, graphicFrame |-> {"grpSp"},
   grpSp |-> {"grpSp"}, p |-> {"sp", "tc"}, r |-> {"p"}, tc |-> {"tr"}, tr |-> {"tbl"},
   path |-> {"custGeom"}, ahXY |-> {"custGeom"}, cxn |-> {"custGeom"},
   custGeom |-> Objects]



---------------------------------------------------------------------------
(* Start tags, in the order in which parse_slide_impl asks its handlers.    *)

OwnerOpens ==
  << Open("cNvPr", {"nvGrpSpPr", "stack"}, {"shape"}, {"owner_group"}, {"owner_shape"}),
     Open("cNvPr", {"nvGraphicFramePr", "in_frame", "shape"}, {},
          {"owner_shape"}, {"owner_group"}),
     Open("cNvPr", {"nvPicPr", "is_picture"}, {}, {"owner_shape"}, {"owner_group"}),
     Open("cNvPr", {"nvCxnSpPr", "is_connector"}, {}, {"owner_shape"}, {"owner_group"}),
     Open("cNvPr", {"nvSpPr", "shape"}, {"in_frame", "is_picture", "is_connector"},
          {"owner_shape"}, {"owner_group"}) >>

FrameOpens ==
  << Open("graphicFrame", {}, {"in_frame"}, {"in_frame", "shape"}, NewShape),
     Open("graphic", {"in_frame"}, {}, {"in_graphic"}, {}),
     Open("tableData", {"in_graphic"}, {}, {"in_data"}, {"is_chart"}),
     Open("chartData", {"in_graphic"}, {}, {"in_data", "is_chart"}, {}),
     Open("oleData", {"in_graphic", "shape"}, {}, {"in_data", "unsupported"}, {"is_chart"}) >>

TableOpens ==
  << Open("tbl", {"in_frame"}, {}, {"tbl_in_table", "tbl_builder"}, {}),
     Open("tableStyleId", {"tbl_in_table"}, {}, {"tbl_in_style_id"}, {}),
     Open("tr", {"tbl_in_table"}, {}, {"tbl_in_row", "tbl_row"}, {}),
     Open("tc", {"tbl_in_row"}, {}, {"tbl_in_cell", "tbl_cell"},
          {"tbl_list_style", "tbl_list_level"}),
     Open("tcPr", {"tbl_in_cell"}, {}, {"tbl_in_properties"}, {}),
     Open("lnL", {"tbl_in_properties"}, {}, {"tbl_lnL"}, {"tbl_lnR"}),
     Open("lnR", {"tbl_in_properties"}, {}, {"tbl_lnR"}, {"tbl_lnL"}),
     Open("p", {"tbl_in_cell"}, {}, {"tbl_paragraph"}, {}),
     Open("lstStyle", {"tbl_in_cell"}, {}, {"tbl_in_lstStyle"}, {}),
     Open("lvl1pPr", {"tbl_in_lstStyle"}, {}, {"tbl_list_level"}, {}),
     Open("defRPr", {"tbl_in_cell", "tbl_paragraph"}, {"tbl_run"}, {"tbl_in_defRPr"}, {}),
     Open("lnSpc", {"tbl_in_cell", "tbl_paragraph"}, {}, {"tbl_in_lnSpc"}, {}),
     Open("spcBef", {"tbl_in_cell", "tbl_paragraph"}, {}, {"tbl_in_spcBef"}, {}),
     Open("buClr", {"tbl_in_cell", "tbl_paragraph"}, {}, {"tbl_in_buClr"}, {}),
     Open("buBlip", {"tbl_in_cell", "tbl_paragraph"}, {}, {"tbl_in_buBlip"}, {}),
     Open("buBlip", {"tbl_in_cell", "tbl_list_level"}, {}, {"tbl_in_buBlip"}, {}),
     Open("r", {"tbl_in_cell", "tbl_paragraph"}, {}, {"tbl_run"}, {}),
     Open("rPr", {"tbl_in_cell", "tbl_run"}, {}, {"tbl_in_rPr"}, {}),
     Open("t", {"tbl_in_cell", "tbl_run"}, {}, {"tbl_in_text"}, {}) >>

\* TextSaxState looks at nothing inside a table cell.
OutsideCells(rules) ==
  [i \in 1..Len(rules) |-> [rules[i] EXCEPT !.lack = @ \cup {"tbl_in_cell"}]]

TextOpens == OutsideCells(
  << Open("lstStyle", {"shape"}, {}, {"txt_in_lstStyle"}, {}),
     Open("lvl1pPr", {"txt_in_lstStyle"}, {}, {"txt_level"}, {"paragraph_defaults"}),
     Open("defRPr", {"txt_in_lstStyle", "txt_level"}, {}, {"txt_list_defRPr"},
          {"run_defaults"}),
     Open("lnSpc", {"txt_in_lstStyle", "txt_level"}, {"txt_list_defRPr"},
          {"txt_list_lnSpc"}, {}),
     Open("spcBef", {"txt_in_lstStyle", "txt_level"}, {"txt_list_defRPr"},
          {"txt_list_spcBef"}, {}),
     Open("p", {"shape"}, {}, {"txt_paragraph"}, {}),
     Open("defRPr", {"txt_paragraph"}, {"txt_run"}, {"txt_in_defRPr"}, {}),
     Open("lnSpc", {"txt_paragraph"}, {}, {"txt_in_lnSpc"}, {}),
     Open("spcBef", {"txt_paragraph"}, {}, {"txt_in_spcBef"}, {}),
     Open("buClr", {"txt_paragraph"}, {}, {"txt_in_buClr"}, {}),
     Open("buBlip", {"txt_paragraph"}, {}, {"txt_in_buBlip"}, {}),
     Open("buBlip", {"txt_in_lstStyle", "txt_level"}, {}, {"txt_in_buBlip"}, {}),
     Open("r", {"txt_paragraph"}, {}, {"txt_run"}, {}),
     Open("rPr", {"txt_run"}, {}, {"txt_in_rPr"}, {}),
     Open("t", {"txt_run"}, {}, {"txt_in_text"}, {}) >>)

Pattern == {"pattern_bg", "pattern_cell", "pattern_shape", "role", "pattern_colours"}

FillOpens ==
  << Open("pattFill", {"in_background"}, {}, {"pattern", "pattern_bg"}, Pattern),
     Open("pattFill", {"tbl_in_properties"}, {}, {"pattern", "pattern_cell"}, Pattern),
     Open("pattFill", {"in_sp_pr"}, {}, {"pattern", "pattern_shape"}, Pattern),
     Open("fgClr", {"pattern"}, {}, {"role"}, {}),
     Open("bgClr", {"pattern"}, {}, {"role"}, {}),
     Open("bgPr", {}, {}, {"in_background"}, {}),
     Open("style", {"shape"}, {"in_sp_pr"}, {"in_style"}, {"style_ln", "style_fill"}),
     Open("lnRef", {"in_style"}, {}, {"ln_ref"}, {"fill_ref"}),
     Open("fillRef", {"in_style"}, {}, {"fill_ref"}, {"ln_ref"}),
     Open("gradFill", {"in_background"}, {}, {"bg_gradient"}, {"bg_stops"}),
     Open("blipFill", {"in_background"}, {}, {"bg_image"}, {}),
     Open("ln", {"in_sp_pr"}, {}, {"in_line"}, {}),
     Open("gradFill", {"in_sp_pr"}, {"in_line"}, {"in_gradient"}, {"stops"}),
     Open("effectLst", {"txt_in_rPr"}, {}, {"text_effects"}, {}),
     Open("effectLst", {"tbl_in_rPr"}, {}, {"text_effects"}, {}),
     Open("outerShdw", {"text_effects"}, {}, {"text_shadow"}, {}),
     Open("highlight", {"txt_in_rPr"}, {}, {"in_highlight"}, {"current"}),
     Open("highlight", {"tbl_in_rPr"}, {}, {"in_highlight"}, {"current"}),
     Open("effectLst", {"in_sp_pr", "shape"}, {}, {"shape_effects"}, {}),
     Open("outerShdw", {"shape_effects"}, {}, {"shape_shadow"}, {}),
     Open("glow", {"shape_effects"}, {}, {"shape_glow"}, {}) >>

ShapeOpens ==
  << Open("grpSpPr", {"stack"}, {}, {"in_grp_sp_pr"}, {}),
     Open("sp", {}, {}, {"shape"}, NewShape),
     Open("pic", {}, {}, {"shape", "is_picture"}, NewShape),
     Open("cxnSp", {}, {}, {"shape", "is_connector"}, NewShape),
     Open("nvPr", {"shape"}, {}, {"in_nv_pr"}, {}),
     Open("spPr", {"shape"}, {}, {"in_sp_pr"}, {}),
     Open("avLst", {"in_sp_pr", "shape"}, {}, {"in_av_lst"}, {}),
     Open("gdLst", {"in_cust_geom"}, {}, {"in_av_lst"}, {}),
     Open("custGeom", {"in_sp_pr", "shape"}, {}, {"in_cust_geom"}, {}),
     Open("path", {"in_cust_geom"}, {}, {"in_cust_geom_path"}, {}),
     Open("moveTo", {"in_cust_geom_path"}, {}, {"in_cust_geom_cmd"}, {"cust_geom_pts"}),
     Open("ahXY", {"in_cust_geom"}, {}, {"xy_handle"}, {}),
     Open("cxn", {"in_cust_geom"}, {}, {"site"}, {}) >>

Opens == OwnerOpens \o FrameOpens \o TableOpens \o TextOpens \o FillOpens \o ShapeOpens

---------------------------------------------------------------------------
(* End tags, in the order in which their handlers are asked.               *)

TableCloses ==
  << Close("t", {"tbl_in_text"}, {}, {"tbl_in_text"}, {}, {}),
     Close("rPr", {"tbl_in_rPr"}, {}, {"tbl_in_rPr"}, {}, {}),
     Close("defRPr", {"tbl_in_defRPr"}, {}, {"tbl_in_defRPr"}, {},
           {Take("current", "defaultRun", "tbl_paragraph")}),
     Close("r", {"tbl_in_cell", "tbl_paragraph"}, {}, {},
           {Move("r", "tbl_run", "tbl_paragraph")}, {}),
     Close("p", {"tbl_in_cell"}, {}, {}, {Move("p", "tbl_paragraph", "tbl_cell")}, {}),
     Close("buClr", {"tbl_in_buClr"}, {}, {"tbl_in_buClr"}, {}, {}),
     Close("buBlip", {"tbl_in_buBlip"}, {}, {"tbl_in_buBlip"}, {}, {}),
     Close("lvl1pPr", {"tbl_in_lstStyle"}, {}, {"tbl_list_level"}, {}, {}),
     Close("lstStyle", {"tbl_in_lstStyle"}, {}, {"tbl_in_lstStyle"}, {}, {}),
     Close("lnL", {"tbl_in_properties"}, {}, {"tbl_lnL", "tbl_lnR"}, {}, {}),
     Close("lnR", {"tbl_in_properties"}, {}, {"tbl_lnL", "tbl_lnR"}, {}, {}),
     Close("tcPr", {}, {}, {"tbl_in_properties"}, {}, {}),
     Close("tc", {}, {},
           {"tbl_in_cell", "tbl_paragraph", "tbl_run", "tbl_in_text", "tbl_in_rPr",
            "tbl_in_lstStyle", "tbl_list_level"},
           {Move("tc", "tbl_cell", "tbl_row")}, {Take("tbl_list_style", "list", "tbl_cell")}),
     Close("tr", {}, {}, {"tbl_in_row"}, {Move("tr", "tbl_row", "tbl_builder")}, {}),
     Close("tbl", {}, {}, {"tbl_in_table"}, {}, {}),
     Close("tableStyleId", {"tbl_in_style_id"}, {}, {"tbl_in_style_id"}, {}, {}),
     Close("lnSpc", {"tbl_in_lnSpc"}, {}, {"tbl_in_lnSpc"}, {}, {}),
     Close("spcBef", {"tbl_in_spcBef"}, {}, {"tbl_in_spcBef"}, {}, {}) >>

TextCloses ==
  << Close("t", {"txt_in_text"}, {}, {"txt_in_text"}, {}, {}),
     Close("rPr", {"txt_in_rPr"}, {}, {"txt_in_rPr"}, {}, {}),
     Close("defRPr", {"txt_in_defRPr"}, {}, {"txt_in_defRPr"}, {},
           {Take("current", "defaultRun", "txt_paragraph")}),
     Close("defRPr", {"txt_list_defRPr", "txt_level"}, {}, {"txt_list_defRPr"}, {},
           {Pass("run_defaults", "paragraph_defaults")}),
     Close("lnSpc", {"txt_list_lnSpc"}, {}, {"txt_list_lnSpc"}, {}, {}),
     Close("lnSpc", {"txt_in_lnSpc"}, {}, {"txt_in_lnSpc"}, {}, {}),
     Close("spcBef", {"txt_list_spcBef"}, {}, {"txt_list_spcBef"}, {}, {}),
     Close("spcBef", {"txt_in_spcBef"}, {}, {"txt_in_spcBef"}, {}, {}),
     Close("lstStyle", {"txt_in_lstStyle"}, {}, {"txt_in_lstStyle"}, {}, {}),
     Close("lvl1pPr", {"txt_in_lstStyle"}, {}, {"txt_level"}, {},
           {Take("paragraph_defaults", "list", "shape")}),
     Close("buClr", {"txt_in_buClr"}, {}, {"txt_in_buClr"}, {}, {}),
     Close("buBlip", {"txt_in_buBlip"}, {}, {"txt_in_buBlip"}, {}, {}),
     Close("r", {"txt_paragraph"}, {}, {}, {Move("r", "txt_run", "txt_paragraph")}, {}),
     Close("p", {"shape"}, {}, {}, {Move("p", "txt_paragraph", "shape")}, {}) >>

\* Mutant: a pattern is always given to the shape.
PatternToShape(into) == {Take("pattern_colours", "pattern", "shape")}
PatternTaken(into) == {Take("pattern_colours", "pattern", into)}

FillCloses ==
  << Close("fgClr", {"pattern"}, {}, {"role"}, {}, {}),
     Close("bgClr", {"pattern"}, {}, {"role"}, {}, {}),
     Close("pattFill", {"pattern", "pattern_bg"}, {}, Pattern \cup {"pattern"}, {},
           PatternTaken("document")),
     Close("pattFill", {"pattern", "pattern_cell"}, {}, Pattern \cup {"pattern"}, {},
           PatternTaken("tbl_cell")),
     Close("pattFill", {"pattern", "pattern_shape"}, {}, Pattern \cup {"pattern"}, {},
           PatternTaken("shape")),
     Close("blipFill", {"bg_image"}, {}, {"bg_image"}, {}, {}),
     \* finish_background: an image, else a solid colour, else the gradient's stops
     Close("bgPr", {"in_background", "bg_rel"}, {}, {"in_background"}, {},
           {Take("bg_rel", "backgroundImage", "document")}),
     Close("bgPr", {"in_background", "bg_solid"}, {}, {"in_background"}, {},
           {Take("bg_solid", "background", "document")}),
     Close("bgPr", {"in_background"}, {}, {"in_background"}, {},
           {Take("bg_stops", "backgroundStop", "document")}),
     Close("lnRef", {"in_style", "ln_ref"}, {}, {"ln_ref"}, {}, {}),
     Close("fillRef", {"in_style", "fill_ref"}, {}, {"fill_ref"}, {}, {}),
     Close("style", {"in_style"}, {}, {"in_style"}, {},
           {Take("style_ln", "lnRef", "shape"), Take("style_fill", "fillRef", "shape")}),
     Close("gradFill", {"bg_gradient"}, {}, {"bg_gradient"}, {}, {}),
     Close("effectLst", {"text_effects"}, {}, {"text_effects"}, {}, {}),
     Close("effectLst", {"shape_effects"}, {}, {"shape_effects"}, {}, {}),
     Close("outerShdw", {"text_shadow", "tbl_in_rPr"}, {}, {"text_shadow"}, {},
           {Take("current", "runShadow", "tbl_run")}),
     Close("outerShdw", {"text_shadow", "txt_in_rPr"}, {}, {"text_shadow"}, {},
           {Take("current", "runShadow", "txt_run")}),
     Close("outerShdw", {"shape_shadow"}, {}, {"shape_shadow"}, {},
           {Take("effect", "shadow", "shape")}),
     Close("glow", {"shape_glow"}, {}, {"shape_glow"}, {}, {Take("effect", "glow", "shape")}),
     Close("highlight", {"in_highlight", "tbl_in_rPr"}, {}, {"in_highlight"}, {},
           {Take("current", "highlight", "tbl_run")}),
     Close("highlight", {"in_highlight", "txt_in_rPr"}, {}, {"in_highlight"}, {},
           {Take("current", "highlight", "txt_run")}),
     Close("gradFill", {"in_gradient"}, {}, {"in_gradient"}, {}, {Take("stops", "stop", "shape")}),
     Close("ln", {"in_line"}, {}, {"in_line"}, {}, {}) >>

\* graphic_frame.handle_end, and finish_frame: a frame that is neither a chart
\* nor unsupported needs a table, else its shape is dropped.
FrameFlags == {"in_frame", "in_graphic", "in_data", "is_chart"}
\* Mutant: a frame is appended to the slide, not to the group it is in.
FrameOnSlide == Move("graphicFrame", "shape", "document")
FrameShape == Move("graphicFrame", "shape", "container")
FrameCloses ==
  << Close("tableData", {"in_data"}, {}, {"in_data"}, {}, {}),
     Close("chartData", {"in_data"}, {}, {"in_data"}, {}, {}),
     Close("oleData", {"in_data"}, {}, {"in_data"}, {}, {}),
     Close("graphic", {"in_graphic"}, {}, {"in_graphic"}, {}, {}),
     Close("graphicFrame", {"in_frame", "is_chart"}, {}, FrameFlags, {FrameShape}, {}),
     Close("graphicFrame", {"in_frame", "shape", "unsupported"}, {},
           FrameFlags \cup {"unsupported"}, {FrameShape}, {}),
     Close("graphicFrame", {"in_frame", "shape", "tbl_builder"}, {},
           FrameFlags \cup {"tbl_builder"}, {FrameShape}, {}),
     Close("graphicFrame", {"in_frame"}, {}, FrameFlags \cup {"shape"}, {}, {}) >>

ShapeCloses ==
  << Close("grpSpPr", {}, {}, {"in_grp_sp_pr"}, {}, {}),
     Close("moveTo", {"in_cust_geom_cmd"}, {}, {"in_cust_geom_cmd"}, {},
           {Take("cust_geom_pts", "point", "in_cust_geom_path")}),
     Close("path", {"in_cust_geom_path"}, {}, {},
           {Move("path", "in_cust_geom_path", "in_cust_geom")}, {}),
     Close("ahXY", {"xy_handle"}, {}, {}, {Move("ahXY", "xy_handle", "in_cust_geom")}, {}),
     Close("cxn", {"site"}, {}, {}, {Move("cxn", "site", "in_cust_geom")}, {}),
     Close("custGeom", {"in_cust_geom"}, {}, {},
           {Move("custGeom", "in_cust_geom", "shape")}, {}),
     Close("avLst", {}, {}, {"in_av_lst"}, {}, {}),
     Close("gdLst", {}, {}, {"in_av_lst"}, {}, {}),
     Close("nvPr", {}, {}, {"in_nv_pr"}, {}, {}),
     Close("cNvPr", {}, {}, {"owner_shape", "owner_group"}, {}, {}),
     Close("spPr", {}, {}, {"in_sp_pr"}, {}, {}),
     Close("sp", {}, {}, NewShape, {Move("sp", "shape", "container")}, {}),
     Close("pic", {}, {}, NewShape, {Move("pic", "shape", "container")}, {}),
     Close("cxnSp", {}, {}, NewShape, {Move("cxnSp", "shape", "container")}, {}) >>

Closes == TableCloses \o TextCloses \o FillCloses \o FrameCloses \o ShapeCloses

---------------------------------------------------------------------------
(* Values, in the same order of handlers.                                  *)

FrameRoutes == << Store("chart", {"in_data", "is_chart"}, {}, "chart", {"shape"}) >>

TableRoutes ==
  << Store("latin", {"tbl_in_cell", "tbl_in_defRPr"}, {}, "defaultFont", {"tbl_paragraph"}),
     Store("latin", {"tbl_in_cell"}, {}, "font", {"tbl_run"}),
     Store("spcPct", {"tbl_in_cell", "tbl_in_lnSpc"}, {}, "lnSpc", {"tbl_paragraph"}),
     Store("spcPct", {"tbl_in_cell", "tbl_in_spcBef"}, {}, "spcBef", {"tbl_paragraph"}),
     Ignore("spcPct", {"tbl_in_cell"}, {}),
     Store("buChar", {"tbl_in_cell"}, {}, "bullet", {"tbl_paragraph"}),
     Add("blip", {"tbl_in_buBlip", "tbl_list_level"}, {}, "tbl_list_style"),
     Store("blip", {"tbl_in_buBlip"}, {}, "bullet", {"tbl_paragraph"}),
     Store("chars", {"tbl_in_style_id"}, {}, "tableStyle", {"tbl_builder"}),
     Store("chars", {"tbl_in_text"}, {}, "text", {"tbl_run"}) >>

TextRoutes ==
  << Store("bodyPr", {"shape"}, {"tbl_in_cell"}, "bodyPr", {"shape"}),
     Add("latin", {"txt_list_defRPr"}, {"tbl_in_cell"}, "run_defaults"),
     Store("latin", {"txt_in_defRPr"}, {"tbl_in_cell"}, "defaultFont", {"txt_paragraph"}),
     Store("latin", {}, {"tbl_in_cell"}, "font", {"txt_run"}),
     Add("spcPct", {"txt_in_lstStyle", "txt_list_lnSpc"}, {"tbl_in_cell"},
         "paragraph_defaults"),
     Add("spcPct", {"txt_in_lstStyle", "txt_list_spcBef"}, {"tbl_in_cell"},
         "paragraph_defaults"),
     Ignore("spcPct", {"txt_in_lstStyle"}, {"tbl_in_cell"}),
     Store("spcPct", {"txt_in_lnSpc"}, {"tbl_in_cell"}, "lnSpc", {"txt_paragraph"}),
     Store("spcPct", {"txt_in_spcBef"}, {"tbl_in_cell"}, "spcBef", {"txt_paragraph"}),
     Store("buChar", {}, {"tbl_in_cell"}, "bullet", {"txt_paragraph"}),
     Add("blip", {"txt_in_buBlip", "txt_in_lstStyle"}, {"tbl_in_cell"}, "paragraph_defaults"),
     Store("blip", {"txt_in_buBlip"}, {"tbl_in_cell"}, "bullet", {"txt_paragraph"}),
     Store("chars", {"txt_in_text"}, {"tbl_in_style_id", "tbl_in_text"}, "text", {"txt_run"}) >>

\* action_parser::handle: in run properties, every run that is being built.
ActionRoutes ==
  << Store("hlink", {"txt_in_rPr"}, {}, "action", {"txt_run", "tbl_run"}),
     Store("hlink", {"tbl_in_rPr"}, {}, "action", {"txt_run", "tbl_run"}),
     Store("hlink", {"owner_shape", "shape"}, {}, "action", {"shape"}),
     Store("hlink", {"owner_group", "shape"}, {}, "action", {"shape"}),
     Store("hlink", {"owner_group"}, {}, "action", {"container"}) >>

\* route_color and assign_color.
ColourRoutes ==
  << Add("clr", {"role"}, {}, "pattern_colours"),
     Store("clr", {"in_highlight", "tbl_in_rPr"}, {}, "highlight", {"tbl_run"}),
     Store("clr", {"in_highlight", "txt_in_rPr"}, {}, "highlight", {"txt_run"}),
     Ignore("clr", {"in_highlight"}, {}),
     Keep("clr", {"text_shadow"}, {}, "current"),
     Keep("clr", {"shape_shadow"}, {}, "effect"),
     Keep("clr", {"shape_glow"}, {}, "effect"),
     Keep("clr", {"txt_in_defRPr"}, {}, "current"),
     Keep("clr", {"tbl_in_defRPr"}, {}, "current"),
     Store("clr", {"tbl_in_buClr"}, {}, "bulletColour", {"tbl_paragraph"}),
     Add("clr", {"txt_list_defRPr"}, {}, "run_defaults"),
     Store("clr", {"tbl_in_properties", "tbl_lnL"}, {}, "lnL", {"tbl_cell"}),
     Store("clr", {"tbl_in_properties", "tbl_lnR"}, {}, "lnR", {"tbl_cell"}),
     Store("clr", {"tbl_in_properties"}, {}, "fill", {"tbl_cell"}),
     Store("clr", {"tbl_in_rPr"}, {}, "run", {"tbl_run"}),
     Store("clr", {"txt_in_buClr"}, {}, "bulletColour", {"txt_paragraph"}),
     Keep("clr", {"in_style", "ln_ref"}, {}, "style_ln"),
     Keep("clr", {"in_style", "fill_ref"}, {}, "style_fill"),
     Add("clr", {"in_background", "bg_gradient", "gs"}, {"bg_image"}, "bg_stops"),
     Keep("clr", {"in_background"}, {"bg_image"}, "bg_solid"),
     Store("clr", {"txt_in_rPr"}, {}, "run", {"txt_run"}),
     Store("clr", {"rPr"}, {}, "run", {"txt_run"}),
     Add("clr", {"in_gradient", "gs"}, {}, "stops"),
     Store("clr", {"in_line"}, {}, "border", {"shape"}),
     Store("clr", {"in_sp_pr"}, {}, "fill", {"shape"}) >>

\* A colour with children waits; its modifiers change the one that waits.
WaitingRoutes ==
  << Keep("start", {"shape_shadow"}, {}, "effect"),
     Keep("start", {"shape_glow"}, {}, "effect"),
     Keep("start", {}, {}, "current"),
     Touch("modifier", {"shape_shadow"}, {}, "effect"),
     Touch("modifier", {"shape_glow"}, {}, "effect"),
     Touch("modifier", {}, {}, "current") >>

ShapeRoutes ==
  << Keep("blip", {"bg_image"}, {}, "bg_rel"),
     Store("blip", {"shape"}, {}, "image", {"shape"}),
     Store("off", {"in_grp_sp_pr"}, {}, "position", {"container"}),
     Store("off", {"xfrm"}, {}, "position", {"shape"}),
     Store("ph", {"in_nv_pr"}, {}, "placeholder", {"shape"}),
     Store("gd", {"in_av_lst", "in_cust_geom"}, {}, "guide", {"in_cust_geom"}),
     Store("gd", {"in_av_lst"}, {}, "adjust", {"shape"}),
     Add("pt", {"in_cust_geom_cmd"}, {}, "cust_geom_pts"),
     Store("pos", {"in_cust_geom", "xy_handle"}, {}, "handle", {"xy_handle"}),
     Store("pos", {"in_cust_geom"}, {}, "site", {"site"}) >>

Routes == FrameRoutes \o TableRoutes \o TextRoutes \o ActionRoutes \o ColourRoutes
            \o WaitingRoutes \o ShapeRoutes

---------------------------------------------------------------------------
INSTANCE SaxMachine

=============================================================================
