--------------------------- MODULE MCHeaderIndex ---------------------------
(***************************************************************************)
(* An instance of HeaderIndex for TLC: one definition, a macro and a stamp *)
(* that is in every header.                                                *)
(***************************************************************************)
EXTENDS HeaderIndex

All == {"f", "SIZE", "VERSION"}
Found(w, d, o) ==
  {[worst |-> w, definitions |-> e, macros |-> m, own |-> o] :
     e \in d, m \in {n \in Maps({"SIZE", "VERSION"}, Values) : "VERSION" \in DOMAIN n}}

\* A unit with a fatal diagnostic finds no definition, one of another package's file no stamp.
MCUnits ==
  Found("clean", Maps({"f"}, Definition), All)
    \cup Found("fatal", {None}, All)
    \cup {u \in Found("error", Maps({"f"}, Definition), {"SIZE"}) : DOMAIN u.macros = All \ {"f"}}
=============================================================================
