------------------------------- MODULE Image -------------------------------
(***************************************************************************)
(* image.c: lines of pixels kept in three bit vectors, and images made of  *)
(* lines, for a caller that owns some image_line_t and one image_t.  The   *)
(* vectors are in a heap, an allocation may fail, and most functions build *)
(* their result from copies that they change in place and must free.       *)
(*                                                                         *)
(* The caller is careful: it writes a new line only where it keeps none,   *)
(* and forgets a line it has given to the image.                           *)
(*                                                                         *)
(* Faults, marked so, are definitions for showing that the properties can  *)
(* be broken.                                                              *)
(***************************************************************************)
EXTENDS BitVector

CONSTANTS
  Lines,       (* the caller's lines                                        *)
  MaxVectors,  (* bound: vectors in the heap                                *)
  MaxCalls,    (* bound: calls                                              *)
  Widths, Heights, Words, Shifts, Indexes, Palettes, Starts,
  Failures     (* which allocations of a call fail, counted from 0          *)

(* Lines and images of width 0 are refused before anything is done          *)
ASSUME SizesAssumption ==
  /\ MaxVectors \in Nat /\ Widths \subseteq Nat \ {0} /\ Heights \subseteq Nat \ {0}
  /\ Words \subseteq SUBSET Places
  /\ Shifts \subseteq Int /\ Indexes \subseteq Int /\ Starts \subseteq Int /\ Palettes \subseteq Nat

VARIABLES
  heap, line, image,
  call, result,  (* the last call, a function and its arguments, and what it returned *)
  short, lossy,  (* an allocation has failed, in that call and in any; see Called *)
  calls
vars == << heap, line, image, call, result, short, lossy, calls >>

Pointers == 1 .. MaxVectors
ImageLine == [msb : 0 .. MaxVectors, lsb : 0 .. MaxVectors, opacity : 0 .. MaxVectors]
NoLine == [msb |-> 0, lsb |-> 0, opacity |-> 0]
NoImage == [height |-> 0, content |-> [y \in {} |-> NoLine]]
PALETTE_COLOR_COUNT == 4
DEFAULT_PALETTE == 228

PartsOf(l) == { l.msb, l.lsb, l.opacity }
NON_NULL(l) == 0 \notin PartsOf(l)
Width(l) == heap[l.msb].size
MATCHING(l1, l2) ==
  /\ NON_NULL(l1) /\ NON_NULL(l2)
  /\ heap[l1.lsb].size = heap[l2.lsb].size /\ heap[l1.msb].size = heap[l2.msb].size
  /\ heap[l1.opacity].size = heap[l2.opacity].size

-----------------------------------------------------------------------------
(* A call under way: the heap, the allocations made, those that fail,      *)
(* whether one has, and the pointer the last function returned             *)
Begin(fails) == [heap |-> heap, made |-> 0, fails |-> fails, failed |-> FALSE, ret |-> 0]
At(r, p) == IF p = 0 THEN NULL ELSE r.heap[p]

(* NULL: the function returns before its malloc.  A full heap fails too.   *)
Allocated(r, v) ==
  IF v = NULL THEN [r EXCEPT !.ret = 0]
  ELSE IF r.made \in r.fails \/ \A q \in Pointers : r.heap[q] # NULL
  THEN [r EXCEPT !.made = @ + 1, !.failed = TRUE, !.ret = 0]
  ELSE LET p == CHOOSE q \in Pointers : r.heap[q] = NULL
       IN  [r EXCEPT !.made = @ + 1, !.ret = p, !.heap[p] = v]

Created(r, size) == Allocated(r, bit_vector_create(size, 0))
Copied(r, p)     == Allocated(r, bit_vector_cpy(At(r, p)))

(* In place, on the vector the last function returned                      *)
Changed(r, v) == IF v = NULL THEN [r EXCEPT !.ret = 0] ELSE [r EXCEPT !.heap[r.ret] = v]
Not(r)    == Changed(r, bit_vector_not(At(r, r.ret)))
And(r, p) == Changed(r, bit_vector_and(At(r, r.ret), At(r, p)))
Or(r, p)  == Changed(r, bit_vector_or(At(r, r.ret), At(r, p)))
On(r, p)  == [r EXCEPT !.ret = p]

bit_vector_free(r, ps) == [r EXCEPT !.heap = [p \in Pointers |-> IF p \in ps THEN NULL ELSE @[p]]]
image_line_free(r, l) == bit_vector_free(r, PartsOf(l))

(* do_image_line: lsb, msb, opacity                                        *)
do_image_line(r, F(_, _), l) ==
  LET lsb == F(r, l.lsb)
      msb == F(lsb, l.msb)
      opacity == F(msb, l.opacity)
  IN  [r |-> opacity, line |-> [lsb |-> lsb.ret, msb |-> msb.ret, opacity |-> opacity.ret]]

Done(r, l, code) == [r |-> r, line |-> l, code |-> code]
LeavesTheRest(o) == Done(o.r, o.line, IF NON_NULL(o.line) THEN "ERR_NONE" ELSE "ERR_MEM")  \* fault
valid(o) ==
  IF NON_NULL(o.line) THEN Done(o.r, o.line, "ERR_NONE")
  ELSE Done(image_line_free(o.r, o.line), NoLine, "ERR_MEM")

BadParameter(fails) == Done(Begin(fails), NoLine, "ERR_BAD_PARAMETER")

-----------------------------------------------------------------------------
(* The functions that make a line                                          *)
image_line_create(r, size) == valid(do_image_line(r, LAMBDA s, p : Created(s, size), NoLine))

image_line_shift(r, l, shift) ==
  valid(do_image_line(r, LAMBDA s, p : Allocated(s, bit_vector_shift(At(s, p), shift)), l))

image_line_extract_wrap_ext(r, l, index, size) ==
  valid(do_image_line(r, LAMBDA s, p : Allocated(s, bit_vector_extract_wrap_ext(At(s, p), index, size)), l))

(* The pixels of colour i                                                  *)
Mask(r, l, i) ==
  CASE i = 0 -> LET tmp  == Not(Copied(r, l.lsb))
                    mask == And(Not(Copied(tmp, l.msb)), tmp.ret)
                IN  IF tmp.ret = 0 THEN tmp ELSE bit_vector_free(mask, { tmp.ret })
    [] i = 1 -> And(Not(Copied(r, l.msb)), l.lsb)
    [] i = 2 -> And(Not(Copied(r, l.lsb)), l.msb)
    [] i = 3 -> And(Copied(r, l.lsb), l.msb)

(* One part of the output takes the mask, or the output is given up.  The  *)
(* mask is then not freed.                                                 *)
Merged(o, part, mask) ==
  IF o.code # "ERR_NONE" THEN o
  ELSE LET or  == Or(On(o.r, o.line[part]), mask)
           out == [o.line EXCEPT ![part] = or.ret]
       IN  IF or.ret # 0 THEN Done(or, out, "ERR_NONE")
           ELSE Done(image_line_free(or, out), NoLine, "ERR_MEM")

Masked(o, mask, color_bit_0, color_bit_1) ==
  LET both == [o EXCEPT !.r = mask]
      lsb  == IF color_bit_0 THEN Merged(both, "lsb", mask.ret) ELSE both
  IN  IF color_bit_1 THEN Merged(lsb, "msb", mask.ret) ELSE lsb

Unmasked(o, mask) ==
  IF o.code # "ERR_NONE" THEN o ELSE [o EXCEPT !.r = bit_vector_free(@, { mask })]

Recoloured(o, l, i, map) ==
  LET color_bit_0 == (map \div 4^i) % 2 = 1
      color_bit_1 == (map \div (2 * 4^i)) % 2 = 1
      mask == Mask(o.r, l, i)
  IN  IF o.code # "ERR_NONE" \/ ~(color_bit_0 \/ color_bit_1) THEN o
      ELSE IF mask.ret = 0 THEN Done(image_line_free(mask, o.line), NoLine, "ERR_MEM")
      ELSE Unmasked(Masked(o, mask, color_bit_0, color_bit_1), mask.ret)

image_line_map_colors(r, l, map) ==
  IF map = DEFAULT_PALETTE
  THEN LET o == do_image_line(r, Copied, l) IN Done(o.r, o.line, "ERR_NONE")
  ELSE LET lsb == Created(r, r.heap[l.lsb].size)
           msb == Created(lsb, r.heap[l.msb].size)
           opacity == Copied(msb, l.opacity)
           out == [lsb |-> lsb.ret, msb |-> msb.ret, opacity |-> opacity.ret]
           blank == Done(opacity, out, "ERR_NONE")
       IN  Recoloured(Recoloured(Recoloured(Recoloured(blank, l, 0, map), l, 1, map), l, 2, map), l, 3, map)

KeepsTheMask(notopacity, m_above, l_above) == { m_above.ret, l_above.ret }  \* fault
Spent(notopacity, m_above, l_above) == { notopacity.ret, m_above.ret, l_above.ret }

image_line_below_with_opacity(r, l1, l2, p_opacity) ==
  LET notopacity == Not(Copied(r, p_opacity))
      m_above == And(Copied(notopacity, l2.msb), p_opacity)
      l_above == And(Copied(m_above, l2.lsb), p_opacity)
      m_below == And(Copied(l_above, l1.msb), notopacity.ret)
      l_below == And(Copied(m_below, l1.lsb), notopacity.ret)
      made == { notopacity.ret, m_above.ret, m_below.ret, l_above.ret, l_below.ret }
      msb == Or(On(l_below, m_below.ret), m_above.ret)
      lsb == Or(On(msb, l_below.ret), l_above.ret)
      opacity == Or(Copied(lsb, l1.opacity), p_opacity)
  IN  IF 0 \in made THEN Done(bit_vector_free(l_below, made), NoLine, "ERR_MEM")
      ELSE Done(bit_vector_free(opacity, Spent(notopacity, m_above, l_above)),
                [msb |-> msb.ret, lsb |-> lsb.ret, opacity |-> opacity.ret], "ERR_NONE")

(* bit_vector_join does not look at what its bit_vector_create returned: a  *)
(* failing allocation there ends the program, and no such call is modelled. *)
image_line_join(r, l1, l2, start) ==
  LET size == r.heap[l1.lsb].size IN
  IF start % size = 0 THEN valid(do_image_line(r, Copied, l2))
  ELSE LET lsb == Allocated(r, bit_vector_join(At(r, l1.lsb), At(r, l2.lsb), start))
           msb == Allocated(lsb, bit_vector_join(At(r, l1.msb), At(r, l2.msb), start))
           opacity == Allocated(msb, bit_vector_join(At(r, l1.opacity), At(r, l2.opacity), start))
       IN  valid([r |-> opacity, line |-> [lsb |-> lsb.ret, msb |-> msb.ret, opacity |-> opacity.ret]])

-----------------------------------------------------------------------------
(* A call has returned; lost says that it left copies behind on purpose or *)
(* not                                                                     *)
Called(o, lost) ==
  /\ calls' = calls + 1
  /\ heap' = o.r.heap /\ result' = o.code /\ short' = o.r.failed
  /\ lossy' = (lossy \/ o.r.failed \/ lost)

Refused ==
  /\ calls' = calls + 1
  /\ result' = "ERR_BAD_PARAMETER" /\ short' = FALSE
  /\ UNCHANGED << heap, line, image, lossy >>

(* The caller's line out becomes what one of the outcomes says             *)
Writes(out, outcomes, lost) == \E o \in outcomes :
  /\ Called(o, lost)
  /\ line' = [line EXCEPT ![out] = o.line]
  /\ UNCHANGED image

Outcomes(Make(_)) == { Make(Begin(fails)) : fails \in Failures }

CreateLine(out, size) == Writes(out, Outcomes(LAMBDA r : image_line_create(r, size)), FALSE)

ShiftLine(out, a, shift) ==
  IF NON_NULL(line[a])
  THEN Writes(out, Outcomes(LAMBDA r : image_line_shift(r, line[a], shift)), FALSE) ELSE Refused
ExtractLine(out, a, index, size) ==
  IF NON_NULL(line[a])
  THEN Writes(out, Outcomes(LAMBDA r : image_line_extract_wrap_ext(r, line[a], index, size)), FALSE)
  ELSE Refused
MapColors(out, a, map) ==
  IF NON_NULL(line[a])
  THEN Writes(out, Outcomes(LAMBDA r : image_line_map_colors(r, line[a], map)), FALSE) ELSE Refused

(* Given no opacity, or one of another width, the function has no result, and loses *)
(* the copies it made.                                                     *)
BelowWithOpacity(out, a, b, p_opacity) ==
  IF MATCHING(line[a], line[b])
  THEN Writes(out, Outcomes(LAMBDA r : image_line_below_with_opacity(r, line[a], line[b], p_opacity)),
              p_opacity = 0 \/ heap[p_opacity].size # Width(line[a]))
  ELSE Refused
TakesTheFirstOpacity(out, a, b) ==                                   \* fault
  IF MATCHING(line[a], line[b]) THEN BelowWithOpacity(out, a, b, line[a].opacity) ELSE Refused
image_line_below(out, a, b) ==
  IF MATCHING(line[a], line[b]) THEN BelowWithOpacity(out, a, b, line[b].opacity) ELSE Refused

(* Allocations that make bit_vector_join fail are left out: see there      *)
JoinLines(out, a, b, start) ==
  IF MATCHING(line[a], line[b]) /\ start \in 0 .. Width(line[a]) - 1
  THEN Writes(out, { o \in Outcomes(LAMBDA r : image_line_join(r, line[a], line[b], start)) :
                       o.r.failed => start = 0 }, FALSE)
  ELSE Refused

Worded(h, l, index, msb, lsb) ==
  [h EXCEPT ![l.msb].content[index] = msb, ![l.lsb].content[index] = lsb,
            ![l.opacity].content[index] = msb \cup lsb]

image_line_set_word(out, index, msb, lsb) ==
  LET l == line[out] IN
  IF NON_NULL(l) /\ index < forced_size(Width(l))
  THEN /\ Called([r |-> [Begin({}) EXCEPT !.heap = Worded(@, l, index, msb, lsb)], code |-> "ERR_NONE"],
                 FALSE)
       /\ UNCHANGED << line, image >>
  ELSE Refused

FreeLine(out) ==
  Writes(out, { Done(image_line_free(Begin({}), line[out]), NoLine, "ERR_NONE") }, FALSE)

-----------------------------------------------------------------------------
(* Images                                                                  *)
SetImage(o, content) ==
  /\ Called(o, FALSE)
  /\ image' = content
  /\ UNCHANGED line

PartsOfImage(content) == UNION { PartsOf(content[y]) : y \in DOMAIN content }
KeepsItsHeight(r, im) ==                                             \* fault
  [r |-> bit_vector_free(r, PartsOfImage(im.content)), image |-> [NoImage EXCEPT !.height = im.height]]
image_free(r, im) ==
  [r |-> bit_vector_free(r, PartsOfImage(im.content)), image |-> NoImage]

(* calloc is allocation 0, and its lines hold NULL.  The loop ends with the *)
(* first line that cannot be made.                                         *)
Row(o, y, width) ==
  IF o.code # "ERR_NONE" THEN o
  ELSE LET l == image_line_create(o.r, width)
       IN  [r |-> l.r, content |-> [o.content EXCEPT ![y] = l.line], code |-> l.code]

Rows(o, width, height) ==
  LET rows[y \in 0 .. height] == IF y = 0 THEN o ELSE Row(rows[y - 1], y - 1, width) IN rows[height]

image_create(r, width, height) ==
  LET calloc == [r EXCEPT !.made = @ + 1]
      empty == [r |-> calloc, content |-> [y \in 0 .. height - 1 |-> NoLine], code |-> "ERR_NONE"]
      o  == Rows(empty, width, height)
      im == [height |-> height, content |-> o.content]
  IN  IF 0 \in r.fails THEN [r |-> [calloc EXCEPT !.failed = TRUE], image |-> NoImage, code |-> "ERR_MEM"]
      ELSE IF o.code = "ERR_NONE" THEN [r |-> o.r, image |-> im, code |-> o.code]
      ELSE [r |-> image_free(o.r, im).r, image |-> image_free(o.r, im).image, code |-> o.code]

CreateImage(width, height) == \E fails \in Failures :
  \E o \in { image_create(Begin(fails), width, height) } : SetImage(o, o.image)
FreeImage ==
  LET o == image_free(Begin({}), image) IN SetImage([r |-> o.r, code |-> "ERR_NONE"], o.image)

(* Content is copied word by word, padding too                             *)
CopiedOver(h, to, from) ==
  [h EXCEPT ![to.lsb].content = h[from.lsb].content, ![to.msb].content = h[from.msb].content,
            ![to.opacity].content = h[from.opacity].content]

image_set_line(y, a) ==
  IF y < image.height /\ MATCHING(image.content[y], line[a])
  THEN SetImage([r |-> [Begin({}) EXCEPT !.heap = CopiedOver(@, image.content[y], line[a])],
                 code |-> "ERR_NONE"], image)
  ELSE Refused

FreesWhatItTakes(r, old, new) == image_line_free(r, new)             \* fault
MakesRoom(r, old, new) == image_line_free(r, old)

(* The caller forgets the line                                             *)
image_own_line_content(y, a) ==
  IF y < image.height /\ MATCHING(image.content[y], line[a])
  THEN /\ Called([r |-> MakesRoom(Begin({}), image.content[y], line[a]), code |-> "ERR_NONE"], FALSE)
       /\ image' = [image EXCEPT !.content[y] = line[a]]
       /\ line' = [line EXCEPT ![a] = NoLine]
  ELSE Refused

(* image_get_pixel, of a line                                              *)
Colour(l, x) == 2 * bit_vector_get(heap[l.msb], x) + bit_vector_get(heap[l.lsb], x)

-----------------------------------------------------------------------------
(* The caller makes a call                                                 *)
LineCall(out) ==
  \/ FreeLine(out) /\ call' = << "image_line_free", out >>
  \/ \E index \in 0 .. 2, msb \in Words, lsb \in Words :
       image_line_set_word(out, index, msb, lsb) /\ call' = << "image_line_set_word", out, index, msb, lsb >>
  \/ /\ line[out] = NoLine
     /\ \/ \E size \in Widths : CreateLine(out, size) /\ call' = << "image_line_create", out, size >>
        \/ \E a \in Lines \ { out } :
             \/ \E shift \in Shifts : ShiftLine(out, a, shift) /\ call' = << "image_line_shift", out, a, shift >>
             \/ \E index \in Indexes, size \in Widths :
                  ExtractLine(out, a, index, size) /\ call' = << "image_line_extract_wrap_ext", out, a, index, size >>
             \/ \E map \in Palettes : MapColors(out, a, map) /\ call' = << "image_line_map_colors", out, a, map >>
             \/ \E b \in Lines \ { out } :
                  \/ image_line_below(out, a, b) /\ call' = << "image_line_below", out, a, b >>
                  \/ \E c \in Lines :
                       /\ BelowWithOpacity(out, a, b, line[c].opacity)
                       /\ call' = << "image_line_below_with_opacity", out, a, b, c >>
                  \/ \E start \in Starts : JoinLines(out, a, b, start) /\ call' = << "image_line_join", out, a, b, start >>

ImageCall ==
  \/ /\ image = NoImage
     /\ \E width \in Widths, height \in Heights :
          CreateImage(width, height) /\ call' = << "image_create", width, height >>
  \/ FreeImage /\ call' = << "image_free" >>
  \/ \E y \in 0 .. image.height, a \in Lines :
       \/ image_set_line(y, a) /\ call' = << "image_set_line", y, a >>
       \/ image_own_line_content(y, a) /\ call' = << "image_own_line_content", y, a >>

Init ==
  /\ heap = [p \in Pointers |-> NULL]
  /\ line = [l \in Lines |-> NoLine] /\ image = NoImage
  /\ call = << >> /\ result = "ERR_NONE" /\ short = FALSE /\ lossy = FALSE /\ calls = 0

Next == calls < MaxCalls /\ (ImageCall \/ \E out \in Lines : LineCall(out))
Spec == Init /\ [][Next]_vars

-----------------------------------------------------------------------------
(***************************************************************************)
(* The heap holds vectors, the lines pointers, and an image has as many    *)
(* rows as it says.                                                        *)
(***************************************************************************)
TypeOK ==
  /\ heap = [p \in Pointers |-> heap[p]] /\ \A p \in Pointers : heap[p] = NULL \/ IsVector(heap[p])
  /\ line \in [Lines -> ImageLine]
  /\ image = [height |-> image.height, content |-> image.content]
  /\ image.height \in Nat /\ image.content \in [0 .. image.height - 1 -> ImageLine]
  /\ result \in { "ERR_NONE", "ERR_MEM", "ERR_BAD_PARAMETER" }
  /\ short \in BOOLEAN /\ lossy \in BOOLEAN /\ calls \in Nat

(* Each place a pointer is kept at                                         *)
Kept == { << "line", l, part >> : l \in Lines, part \in { "msb", "lsb", "opacity" } }
        \cup { << "image", y, part >> : y \in DOMAIN image.content, part \in { "msb", "lsb", "opacity" } }
Pointer(k) == IF k[1] = "line" THEN line[k[2]][k[3]] ELSE image.content[k[2]][k[3]]
Held == { Pointer(k) : k \in Kept } \ { 0 }
InUse == { p \in Pointers : heap[p] # NULL }

(***************************************************************************)
(* Every vector a line or the image points to exists, and nothing else     *)
(* points to it: no call frees what is in use or lets two lines share a    *)
(* vector that a later call changes in place (the copies of                *)
(* image_line_map_colors and image_line_below_with_opacity,                *)
(* image_own_line_content).                                                *)
(***************************************************************************)
PartsHaveOneOwner ==
  /\ Held \subseteq InUse
  /\ \A k1, k2 \in Kept : k1 # k2 /\ Pointer(k1) # 0 => Pointer(k1) # Pointer(k2)

(***************************************************************************)
(* As long as no allocation has failed and no opacity of another width was *)
(* given, every vector belongs to a line or the image: the temporaries of  *)
(* image_line_map_colors and image_line_below_with_opacity are all freed.  *)
(***************************************************************************)
NothingLeaks == ~lossy => InUse = Held

(***************************************************************************)
(* A call that reports an error has changed no line and no image, nor any  *)
(* vector they are made of, however far it had come (valid, image_create). *)
(***************************************************************************)
ErrorsChangeNothing ==
  [][result' # "ERR_NONE" =>
       /\ UNCHANGED << line, image >>
       /\ \A p \in Held : heap'[p] = heap[p]]_vars

-----------------------------------------------------------------------------
(* The picture drawn                                                       *)
OpacityOf(p) ==
  IF p = 0 THEN [width |-> 0, opaque |-> {}] ELSE [width |-> heap[p].size, opaque |-> Bits(heap[p])]
View(l) ==
  IF ~NON_NULL(l) THEN [width |-> IF l = NoLine THEN 0 ELSE -1, opacity |-> OpacityOf(l.opacity)]
  ELSE [width |-> Width(l),
        pixel |-> [x \in 0 .. Width(l) - 1 |->
          [colour |-> Colour(l, x), opaque |-> bit_vector_get(heap[l.opacity], x) = 1]]]

LinesSeen == [l \in Lines |-> View(line[l])]
RowsSeen == [y \in DOMAIN image.content |-> View(image.content[y])]
P == INSTANCE Picture WITH line <- LinesSeen, picture <- RowsSeen

(* The arguments that stay within a size_t: a line is no wider, no index or *)
(* shift of one wraps but a negative index, and that one only where the     *)
(* width divides the range                                                  *)
ShiftFits(w, shift) ==
  w <= SIZE_RANGE /\ w - SIZE_RANGE <= -shift /\ -shift + w <= SIZE_RANGE
ExtractFits(w, index, size) ==
  /\ -SIZE_RANGE <= index /\ index + size <= SIZE_RANGE
  /\ index >= 0 \/ SIZE_RANGE % w = 0
InRange ==
  /\ \A w \in Widths, shift \in Shifts : ShiftFits(w, shift)
  /\ \A w \in Widths, size \in Widths, index \in Indexes : ExtractFits(w, index, size)

(***************************************************************************)
(* The calls draw what image.h says, pixel by pixel: words, shifts,        *)
(* wrapped extracts, palettes, lines over lines and joins, whatever the    *)
(* padding holds, and with memory running out at any allocation.           *)
(***************************************************************************)
DrawsThePicture == P!Spec
=============================================================================
