--------------------------- MODULE MCImportHistory ---------------------------
(***************************************************************************)
(* Two sections and two qualities.  The files bring good material to the   *)
(* store of the import, or to the section a column names with scrap to the *)
(* store, or nothing at all.                                               *)
(***************************************************************************)
EXTENDS ImportHistory

CONSTANTS store, shop, good, scrap

MCLocations == { store, shop }
MCQualities == { good, scrap }

Brings(goodRow, scrapRow) == [ q \in MCQualities |-> IF q = good THEN goodRow ELSE scrapRow ]
Absent == [ quantity |-> 0, column |-> NULL ]
Here(n) == [ quantity |-> n, column |-> NULL ]
AtShop(n) == [ quantity |-> n, column |-> shop ]

MCMoved == { << store, good >>, << shop, good >> }
MCOverrides == { [ q \in MCQualities |-> IF q = good THEN shop ELSE NULL ] }

MCSheets ==
    { Brings(Here(1), Absent), Brings(AtShop(1), Here(1)), Brings(Absent, Absent) }
=============================================================================
