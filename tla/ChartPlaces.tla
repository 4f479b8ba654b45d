----------------------------- MODULE ChartPlaces -----------------------------
(* Where a camera can be, of what a chart window tells apart.                *)

CONSTANTS Waters,    \* places over the mariner's charts
          World,     \* the default view, which a chart of no charts opens at
          None

ASSUME PlacesDiffer ==
    /\ World \notin Waters /\ None \notin Waters \cup {World}
    /\ {"none", "blank"} \cap (Waters \cup {World}) = {}

Places == Waters \cup {World}
===============================================================================
