------------------------------ MODULE Picture ------------------------------
(***************************************************************************)
(* What image.h promises, pixel by pixel: lines that are sequences of      *)
(* pixels, and for each function what it draws, given its arguments, and   *)
(* what it answers.  There are no bit vectors, chunks, copies or padding;  *)
(* of memory there is only that it may be short.                           *)
(***************************************************************************)
EXTENDS Integers

CONSTANTS Lines, Widths, Heights, Words, Shifts, Indexes, Palettes, Starts

VARIABLES
  line,
  picture,   (* the lines of the image, << >> without one                   *)
  call,      (* the last call: a function and its arguments                 *)
  result,    (* what it returned                                            *)
  short      (* it ran out of memory                                        *)

NoOpacity == [width |-> 0, opaque |-> {}]
Blank     == [colour |-> 0, opaque |-> FALSE]
Empty     == [width |-> 0, opacity |-> NoOpacity]
Drawn(width, pixel) == [width |-> width, pixel |-> pixel]
BlankLine(width) == Drawn(width, [k \in 0 .. width - 1 |-> Blank])

IsDrawn(l) == l.width > 0
Opacity(l) ==
  IF IsDrawn(l) THEN [width |-> l.width, opaque |-> { k \in DOMAIN l.pixel : l.pixel[k].opaque }]
  ELSE l.opacity

(* No pixels, but perhaps the opacity they would have had                  *)
Incomplete(opacity) == [width |-> -1, opacity |-> opacity]

-----------------------------------------------------------------------------
(* A word, of 32 pixels, drawn over the line: the places where each bit of *)
(* the colour is 1.  Colour 0 is not opaque                                *)
WithWord(l, index, msb, lsb) ==
  [l EXCEPT !.pixel = [k \in DOMAIN @ |->
     IF k \div 32 # index THEN @[k]
     ELSE [colour |-> (IF k % 32 \in msb THEN 2 ELSE 0) + (IF k % 32 \in lsb THEN 1 ELSE 0),
           opaque |-> k % 32 \in msb \cup lsb]]]

Shifted(l, by) ==
  Drawn(l.width, [k \in DOMAIN l.pixel |-> IF k - by \in DOMAIN l.pixel THEN l.pixel[k - by] ELSE Blank])

Extracted(l, index, width) ==
  Drawn(width, [k \in 0 .. width - 1 |-> l.pixel[(k + index) % l.width]])

(* A palette holds a colour for each colour, two bits for each             *)
Recoloured(l, map) ==
  Drawn(l.width, [k \in DOMAIN l.pixel |-> [l.pixel[k] EXCEPT !.colour = (map \div 4^@) % 4]])

(* b over a where the mask is set                                          *)
Over(a, b, mask) ==
  Drawn(a.width, [k \in DOMAIN a.pixel |->
    [colour |-> IF k \in mask THEN b.pixel[k].colour ELSE a.pixel[k].colour,
     opaque |-> a.pixel[k].opaque \/ k \in mask]])

Joined(a, b, start) ==
  Drawn(a.width, [k \in DOMAIN a.pixel |-> IF k < start THEN a.pixel[k] ELSE b.pixel[k]])

-----------------------------------------------------------------------------
(* What may come of a call                                                 *)
Refuses == result' = "ERR_BAD_PARAMETER" /\ UNCHANGED << line, picture >>
Fails   == result' = "ERR_MEM" /\ UNCHANGED << line, picture >>
FailsForMemory == Fails /\ short'

Draws(out, made) ==
  /\ result' = "ERR_NONE"
  /\ line' = [line EXCEPT ![out] = made] /\ UNCHANGED picture

Makes(out, made) == Draws(out, made) \/ FailsForMemory

Match(a, b) == IsDrawn(a) /\ IsDrawn(b) /\ a.width = b.width

-----------------------------------------------------------------------------
image_line_create(out, width) ==
  /\ call' = << "image_line_create", out, width >>
  /\ Makes(out, BlankLine(width))

image_line_free(out) ==
  /\ call' = << "image_line_free", out >>
  /\ Draws(out, Empty)

image_line_set_word(out, index, msb, lsb) ==
  /\ call' = << "image_line_set_word", out, index, msb, lsb >>
  /\ IF IsDrawn(line[out]) /\ 32 * index < line[out].width
     THEN Draws(out, WithWord(line[out], index, msb, lsb)) ELSE Refuses

image_line_shift(out, a, by) ==
  /\ call' = << "image_line_shift", out, a, by >>
  /\ IF IsDrawn(line[a]) THEN Makes(out, Shifted(line[a], by)) ELSE Refuses

image_line_extract_wrap_ext(out, a, index, width) ==
  /\ call' = << "image_line_extract_wrap_ext", out, a, index, width >>
  /\ IF IsDrawn(line[a]) THEN Makes(out, Extracted(line[a], index, width)) ELSE Refuses

(* Two functions may leave a line incomplete, and report no error           *)
MakesOrLeaves(out, made, left) == Makes(out, made) \/ (short' /\ \E l \in left : Draws(out, l))

image_line_map_colors(out, a, map) ==
  /\ call' = << "image_line_map_colors", out, a, map >>
  /\ IF ~IsDrawn(line[a]) THEN Refuses
     ELSE \E made \in { Recoloured(line[a], map) } :
            MakesOrLeaves(out, made, { Empty, Incomplete(NoOpacity), Incomplete(Opacity(made)) })

(* b over a with the opacity of c, which must be as wide                    *)
Below(out, a, b, c) ==
  IF ~Match(line[a], line[b]) THEN Refuses
  ELSE IF Opacity(line[c]).width # line[a].width THEN Fails
  ELSE MakesOrLeaves(out, Over(line[a], line[b], Opacity(line[c]).opaque), { Incomplete(NoOpacity) })

image_line_below_with_opacity(out, a, b, c) ==
  /\ call' = << "image_line_below_with_opacity", out, a, b, c >>
  /\ Below(out, a, b, c)

image_line_below(out, a, b) ==
  /\ call' = << "image_line_below", out, a, b >>
  /\ Below(out, a, b, b)

image_line_join(out, a, b, start) ==
  /\ call' = << "image_line_join", out, a, b, start >>
  /\ IF Match(line[a], line[b]) /\ start \in 0 .. line[a].width - 1
     THEN Makes(out, Joined(line[a], line[b], start)) ELSE Refuses

-----------------------------------------------------------------------------
Shows(content) == result' = "ERR_NONE" /\ picture' = content

image_create(width, height) ==
  /\ call' = << "image_create", width, height >>
  /\ \/ Shows([y \in 0 .. height - 1 |-> BlankLine(width)]) /\ UNCHANGED line
     \/ FailsForMemory

image_free ==
  /\ call' = << "image_free" >>
  /\ Shows([y \in {} |-> Empty]) /\ UNCHANGED line

CanTake(y, a) == y \in DOMAIN picture /\ Match(picture[y], line[a])

image_set_line(y, a) ==
  /\ call' = << "image_set_line", y, a >>
  /\ IF CanTake(y, a) THEN Shows([picture EXCEPT ![y] = line[a]]) /\ UNCHANGED line ELSE Refuses

(* The line is given away                                                   *)
image_own_line_content(y, a) ==
  /\ call' = << "image_own_line_content", y, a >>
  /\ IF CanTake(y, a) THEN Shows([picture EXCEPT ![y] = line[a]]) /\ line' = [line EXCEPT ![a] = Empty]
     ELSE Refuses

-----------------------------------------------------------------------------
DrawLine ==
  \E out \in Lines :
    \/ image_line_free(out)
    \/ \E width \in Widths : image_line_create(out, width)
    \/ \E index \in 0 .. 2, msb \in Words, lsb \in Words : image_line_set_word(out, index, msb, lsb)
    \/ \E a \in Lines :
         \/ \E by \in Shifts : image_line_shift(out, a, by)
         \/ \E index \in Indexes, width \in Widths : image_line_extract_wrap_ext(out, a, index, width)
         \/ \E map \in Palettes : image_line_map_colors(out, a, map)
         \/ \E b \in Lines :
              \/ image_line_below(out, a, b)
              \/ \E c \in Lines : image_line_below_with_opacity(out, a, b, c)
              \/ \E start \in Starts : image_line_join(out, a, b, start)

DrawPicture ==
  \/ \E width \in Widths, height \in Heights : image_create(width, height)
  \/ image_free
  \/ \E y \in { 0 } \cup { k + 1 : k \in DOMAIN picture }, a \in Lines :
       image_set_line(y, a) \/ image_own_line_content(y, a)

Next == DrawLine \/ DrawPicture
Spec == [][Next]_<< call, result, short, line, picture >>
=============================================================================
