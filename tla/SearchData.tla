----------------------------- MODULE SearchData -----------------------------
(***************************************************************************)
(* searchdata.js: for each kind of index entry, the sections for which     *)
(* there is a page of results.  A section is an initial letter, "Numbers"  *)
(* or "Symbols".                                                           *)
(***************************************************************************)

Letters == {"A", "B", "C", "D", "E", "F", "G", "H", "I", "J", "K", "L", "M",
            "N", "O", "P", "Q", "R", "S", "T", "U", "V", "W", "X", "Y", "Z"}
Sections == Letters \cup {"Numbers", "Symbols"}

GeneralSections   == Sections \ {"Numbers", "Q", "X", "Y", "Z"}
VariablesSections == Sections \ {"Numbers", "G", "J", "Q", "W", "X", "Y", "Z"}
FilesSections     == {"U"}
ConstantsSections == {"B", "C", "E", "F", "P", "S", "U"}
TypesSections     == {"A", "L", "U"}
MethodsSections   == Letters \ {"O", "Q", "V", "X", "Y", "Z"}
ClassesSections   == {"P", "U"}
PortsSections     == {"A", "B", "G", "M", "P", "R", "S", "T"}
MacrosSections    == {"Symbols"}

indexSectionsWithContent ==
  [General   |-> GeneralSections,   Variables |-> VariablesSections,
   Files     |-> FilesSections,     Constants |-> ConstantsSections,
   Types     |-> TypesSections,     Methods   |-> MethodsSections,
   Classes   |-> ClassesSections,   Ports     |-> PortsSections,
   Macros    |-> MacrosSections]
=============================================================================
