------------------------------ MODULE FigureCrop -----------------------------
(***************************************************************************)
(* Where a figure is on its page (services/figure-extractor.ts): GROBID      *)
(* knows the caption, pdftotext the blocks of text, and the crop is guessed  *)
(* from the blocks above the caption.  Coordinates are in points from the    *)
(* top left corner.                                                          *)
(***************************************************************************)
EXTENDS Integers, Sequences, SequencesExt, FiniteSetsExt

CONSTANTS Layouts   \* pages: width, height, text blocks and the coordinate groups of a caption

Boxes == [x0: Nat, y0: Nat, x1: Nat, y1: Nat]

ASSUME LayoutsAssumption ==
    \A l \in Layouts :
        /\ l.width > 0 /\ l.height > 0 /\ \A b \in l.blocks : b \in Boxes
        /\ \A i \in DOMAIN l.groups : l.groups[i] \in [page: Nat \ {0}, box: Boxes]

VARIABLES layout, crop

cropVars == <<layout, crop>>

NoBox == [x0 |-> 0, y0 |-> 0, x1 |-> 0, y1 |-> 0]

CropInit == layout \in Layouts /\ crop = NoBox

-----------------------------------------------------------------------------
(* The caption and the blocks that may belong to the figure.                *)

Hull(boxes) == [x0 |-> Min({b.x0 : b \in boxes}), y0 |-> Min({b.y0 : b \in boxes}),
                x1 |-> Max({b.x1 : b \in boxes}), y1 |-> Max({b.y1 : b \in boxes})]

\* unionCoordGroups: the groups on the page of the first one.
Caption(l) == Hull({l.groups[i].box : i \in {j \in DOMAIN l.groups : l.groups[j].page = l.groups[1].page}})

Width(b) == b.x1 - b.x0

\* isPageFurnitureBlock: in a margin, or a narrow column of characters.
IsPageFurniture(l, b) ==
    \/ 100 * b.x1 < 8 * l.width \/ 100 * b.x0 > 92 * l.width
    \/ Width(b) < 18 /\ b.y1 - b.y0 > 48

\* Blocks above the caption, the lowest first.
Candidates(l) ==
    SetToSortSeq({b \in l.blocks : /\ b.y1 <= Caption(l).y0 - 2 /\ b.y0 >= 24
                                   /\ ~IsPageFurniture(l, b)},
                 LAMBDA a, b : a.y1 > b.y1)

-----------------------------------------------------------------------------
(* The cluster over the caption.                                            *)

Wide(l, b)       == 100 * Width(b) > 72 * l.width
Paragraph(l, b)  == b.x0 <= Caption(l).x0 + 8 /\ 100 * Width(b) > 48 * l.width

\* The block stops the search, is passed over, or joins the cluster.
Stops(l, c, b) ==
    IF c.boxes = {} THEN Caption(l).y0 - b.y1 > 72
                    ELSE c.top - b.y1 > 55 \/ Paragraph(l, b) \/ Wide(l, b)
Passed(l, c, b) == c.boxes = {} /\ Wide(l, b)

Joined(l, c, b) ==
    LET top == Min({c.top, b.y0})
    IN  [boxes |-> c.boxes \cup {b}, top |-> top,
         over |-> 100 * (Caption(l).y0 - top) > 58 * l.height]

Grow(l, b, c) ==
    IF c.over THEN c
    ELSE IF Stops(l, c, b) THEN [c EXCEPT !.over = TRUE]
    ELSE IF Passed(l, c, b) THEN c
    ELSE Joined(l, c, b)

Cluster(l) ==
    FoldLeft(LAMBDA c, b : Grow(l, b, c), [boxes |-> {}, top |-> Caption(l).y0, over |-> FALSE],
             Candidates(l)).boxes

-----------------------------------------------------------------------------
(* The crop.                                                                *)

Clamp(v, lo, hi) == Min({hi, Max({lo, v})})

\* Two blocks at least, and a hull worth a picture.
Worthwhile(boxes) ==
    Cardinality(boxes) >= 2 /\ LET h == Hull(boxes) IN Width(h) >= 48 /\ h.y1 - h.y0 >= 24

\* Mutant: the crop may reach into the caption.
BottomOf(l, h) == h.y1 + 16

Bottom(l, h) == Min({h.y1 + 16, Caption(l).y0 - 4})

\* inferGraphicBboxAboveCaption, for a cluster that is worthwhile.
Padded(l, h) ==
    LET pad == Min({42, (7 * l.width) \div 100})
        x   == Clamp(h.x0 - pad, 0, l.width - 1)
        y   == Clamp(h.y0 - 18, 0, l.height - 1)
    IN  [x0 |-> x, y0 |-> y, x1 |-> Clamp(h.x1 + pad, x + 1, l.width),
         y1 |-> Clamp(Bottom(l, h), y + 1, l.height)]

InferGraphic ==
    /\ crop = NoBox /\ Worthwhile(Cluster(layout))
    /\ crop' = Padded(layout, Hull(Cluster(layout)))
    /\ UNCHANGED layout

CropNext == InferGraphic

CropSpec == CropInit /\ [][CropNext]_cropVars

\* cropToPng at 300 dots per inch: position and size are rounded on their own.
Dots(points) == (25 * points + 3) \div 6

-----------------------------------------------------------------------------
(* Properties.                                                              *)

CropTypeOK == layout \in Layouts /\ crop \in Boxes

OnPage == crop.x1 <= layout.width /\ crop.y1 <= layout.height
    /\ Dots(crop.x0) + Dots(Width(crop)) <= Dots(layout.width) + 1

\* What is shown as a figure is what stands over its caption: a crop is on the page, it stops
\* before the caption, and it cuts at most two points off a block it was made from, those
\* that overflow the page excepted.
CropsFit ==
    crop # NoBox =>
        /\ OnPage /\ crop.y1 <= Caption(layout).y0 - 4
        /\ \A b \in Cluster(layout) :
            /\ crop.x0 <= b.x0 /\ Min({b.x1, layout.width}) <= crop.x1
            /\ crop.y0 <= b.y0 /\ b.y1 <= crop.y1 + 2
=============================================================================
