------------------------------ MODULE GlMarshal ------------------------------
(***************************************************************************)
(* What HostGl and HostEgl check before the driver sees guest memory: the  *)
(* extent of an image (gl_pixel_bytes, pixel_pointer), of a string         *)
(* (guest_string, read_guest_string) and of an EGL attribute list          *)
(* (read_attribs).  core/src/gl/gl_manual.cpp and egl_manual.cpp.          *)
(*                                                                         *)
(* Images: the driver's unpack and pack state against HostGl's copy, which *)
(* knows the alignment and the pixel buffer only.                          *)
(* Text: one guest memory of Space cells, Page to a page, given in Init.   *)
(***************************************************************************)
EXTENDS Integers, Sequences, FiniteSets, FiniteSetsExt

CONSTANTS Dims,       \* widths and heights a guest passes, beside -1
          Depths,     \* depths a guest passes
          Kinds,      \* pairs of a pixel format and a type, bad ones included
          Extents,    \* readable bytes at the pixel pointer
          WordMax,    \* the largest std::uint64_t
          SizeMax,    \* the largest GLsizei
          Page, Space, \* cells of a page and of the guest address space
          MaxString,  \* kMaxGuestString
          MaxAttribs  \* kMaxAttribs

VARIABLES copy,    \* t_state: alignment and bound pixel buffer of each side
          gl,      \* the driver's, and its layout: row length, image height and skips
          transfer,  \* the last pixel call that reached the driver
          mem,     \* cells of guest memory
          readable,\* readable pages
          found    \* what the scans answer at each address

marshalVars == <<copy, gl, transfer, mem, readable, found>>

Sides == {"pack", "unpack"}
Aligns == {1, 2, 4, 8}
None == [call |-> FALSE]
Invalid == -1

-----------------------------------------------------------------------------
(* Images.                                                                  *)

Components ==
    [ALPHA |-> 1, LUMINANCE_ALPHA |-> 2, RGB |-> 3, RGBA |-> 4, DEPTH_STENCIL |-> 1]
ComponentBytes == [UNSIGNED_BYTE |-> 1, HALF_FLOAT |-> 2, FLOAT |-> 4]

(* A packed type fixes the size of a pixel and the formats it goes with.    *)
Packed ==
    [UNSIGNED_SHORT_5_6_5 |-> [bytes |-> 2, formats |-> {"RGB"}],
     UNSIGNED_SHORT_4_4_4_4 |-> [bytes |-> 2, formats |-> {"RGBA"}],
     UNSIGNED_INT_24_8 |-> [bytes |-> 4, formats |-> {"DEPTH_STENCIL"}]]

PixelBytes(format, type) ==
    IF format \notin DOMAIN Components THEN Invalid
    ELSE IF type \in DOMAIN Packed
         THEN IF format \in Packed[type].formats THEN Packed[type].bytes ELSE Invalid
         ELSE IF type \in DOMAIN ComponentBytes
              THEN Components[format] * ComponentBytes[type] ELSE Invalid

checked_multiply(a, b) ==
    IF a # 0 /\ b > WordMax \div a THEN Invalid ELSE a * b

RoundUp(n, align) == ((n + align - 1) \div align) * align

(* Mistake: rows are taken to be packed.                                    *)
PackedBytes(format, type, width, height, align) ==
    LET pixel == PixelBytes(format, type)
    IN IF width < 0 \/ height < 0 \/ pixel = Invalid THEN Invalid
       ELSE checked_multiply(width * pixel, height)

gl_pixel_bytes(format, type, width, height, align) ==
    LET pixel == PixelBytes(format, type)
        row == checked_multiply(width, pixel)
        preceding == checked_multiply(height - 1, RoundUp(row, align))
    IN IF width < 0 \/ height < 0 \/ pixel = Invalid \/ row = Invalid THEN Invalid
       ELSE IF height = 0 \/ row = 0 THEN 0
       ELSE IF row > WordMax - (align - 1) THEN Invalid
       ELSE IF preceding = Invalid \/ preceding > WordMax - row THEN Invalid
       ELSE preceding + row

(* The image a pixel call reads or writes: rows of all its depth slices. A  *)
(* negative height is a huge unsigned number here.                          *)
Rows(height, depth) ==
    IF depth < 0 THEN Invalid
    ELSE LET rows == checked_multiply(height % (WordMax + 1), depth)
         IN IF rows = Invalid \/ rows > SizeMax THEN Invalid ELSE rows

ImageBytes(format, type, w, h, d, align) ==
    IF Rows(h, d) = Invalid THEN Invalid
    ELSE gl_pixel_bytes(format, type, w, Rows(h, d), align)

(* The layout parameters of GLES 3.0.  SKIP_ROWS, SKIP_PIXELS and           *)
(* SKIP_IMAGES are one, in pixels.                                          *)
Layout == {"row_length", "image_height", "skip"}
Plain == [l \in Layout |-> 0]

(* glPixelStorei: the driver takes every parameter, and note_pixel_store    *)
(* notes the alignments after it.  A bound: one layout parameter is set at  *)
(* a time.                                                                  *)
glPixelStorei(side, pname, param) ==
    /\ \/ /\ pname = "alignment" /\ param \in Aligns
          /\ gl' = [gl EXCEPT !.align[side] = param]
          /\ copy' = [copy EXCEPT !.align[side] = param]
       \/ /\ pname = "alignment" /\ param \notin Aligns
          /\ UNCHANGED <<gl, copy>>
       \/ /\ pname \in Layout
          /\ \A s \in Sides, l \in Layout : gl.layout[s][l] = 0 \/ <<s, l>> = <<side, pname>>
          /\ gl' = [gl EXCEPT !.layout[side][pname] = param]
          /\ UNCHANGED copy
    /\ transfer' = None
    /\ UNCHANGED <<mem, readable, found>>

note_bind_buffer(side, bound) ==
    /\ gl' = [gl EXCEPT !.pbo[side] = bound]
    /\ copy' = [copy EXCEPT !.pbo[side] = bound]
    /\ transfer' = None
    /\ UNCHANGED <<mem, readable, found>>

DeletePixelBuffer(side) ==
    /\ gl.pbo[side]
    /\ gl' = [gl EXCEPT !.pbo[side] = FALSE]
    /\ transfer' = None
    /\ UNCHANGED <<copy, mem, readable, found>>

(* pixel_pointer: an offset passes untouched; an address needs a whole      *)
(* readable image there, or is null.                                        *)
pixel_pointer(side, bytes, extent) ==
    copy.pbo[side] \/ (bytes # Invalid /\ bytes <= extent)

(* glTexImage2D, glTexSubImage2D, glReadPixels with depth 1; glTexImage3D,  *)
(* glTexSubImage3D.  The driver reads nothing when it finds the format bad. *)
PixelCall(side, format, type, w, h, d, extent) ==
    /\ ~transfer.call
    /\ transfer' =
          IF ~pixel_pointer(side, ImageBytes(format, type, w, h, d, copy.align[side]), extent)
          THEN None
          ELSE IF copy.pbo[side]
          THEN [call |-> TRUE, side |-> side, raw |-> TRUE]
          ELSE [call |-> TRUE, side |-> side, raw |-> FALSE, extent |-> extent,
                image |-> [w |-> w, h |-> h, d |-> d, pixel |-> PixelBytes(format, type)]]
    /\ UNCHANGED <<copy, gl, mem, readable, found>>

(* Bytes from the pointer to the last pixel, by the GL rule for addressing. *)
Touched(image, align, layout) ==
    LET across == IF layout.row_length > 0 THEN layout.row_length ELSE image.w
        down == IF layout.image_height > 0 THEN layout.image_height ELSE image.h
        stride == Min({s \in 0..(across * image.pixel + align) :
                          s >= across * image.pixel /\ s % align = 0})
    IN Max({0} \cup {(z * down + y) * stride + (layout.skip + x + 1) * image.pixel :
                        x \in 0..(image.w - 1), y \in 0..(image.h - 1), z \in 0..(image.d - 1)})

-----------------------------------------------------------------------------
(* Text.                                                                    *)

PageOf(a) == a \div Page

(* What is left of the page, of the limit and of the address space.         *)
Chunk(at, n) == Min({Page - (at % Page), MaxString - n, Space - at})

(* Pages are scanned whole; the string itself is left in guest memory.      *)
guest_string(address) ==
    LET scan[n \in 0..MaxString] ==
            LET at == address + n
                chunk == Chunk(at, n)
            IN IF n >= MaxString \/ at >= Space THEN FALSE
               ELSE IF PageOf(at) \notin readable THEN FALSE
               ELSE IF \E i \in 0..(chunk - 1) : mem[at + i] = "nul" THEN TRUE
               ELSE scan[n + chunk]
    IN address # 0 /\ scan[0]

(* HostEgl copies the string; the answer is its length.                     *)
read_guest_string(address) ==
    LET scan[cursor \in 0..Space] ==
            LET chunk == Page - (cursor % Page)
                nuls == {i \in 0..(chunk - 1) : mem[cursor + i] = "nul"}
            IN IF cursor >= Space \/ cursor - address > MaxString THEN Invalid
               ELSE IF PageOf(cursor) \notin readable THEN Invalid
               ELSE IF nuls # {} THEN cursor + Min(nuls) - address
               ELSE scan[cursor + chunk]
    IN IF address = 0 THEN Invalid ELSE scan[address]

PastEnd(i, at) == i >= MaxAttribs \/ at >= Space

(* Words up to and including EGL_NONE; 0 is the null list.                  *)
read_attribs(address) ==
    LET scan[i \in 0..MaxAttribs] ==
            LET at == address + i
            IN IF PastEnd(i, at) THEN Invalid
               ELSE IF PageOf(at) \notin readable THEN Invalid
               ELSE IF mem[at] = "nul" THEN i + 1
               ELSE scan[i + 1]
    IN IF address = 0 THEN 0 ELSE scan[0]

Addresses == 0..(Space - 1)

ScanText ==
    /\ found = <<>>
    /\ found' = [a \in Addresses |-> [gl |-> guest_string(a), egl |-> read_guest_string(a),
                                      attribs |-> read_attribs(a)]]
    /\ UNCHANGED <<copy, gl, transfer, mem, readable>>

-----------------------------------------------------------------------------
ImageInit ==
    /\ copy = [align |-> [s \in Sides |-> 4], pbo |-> [s \in Sides |-> FALSE]]
    /\ gl = [align |-> [s \in Sides |-> 4], pbo |-> [s \in Sides |-> FALSE],
             layout |-> [s \in Sides |-> Plain]]
    /\ transfer = None

Init ==
    /\ ImageInit
    /\ mem \in [Addresses -> {"x", "nul"}]
    /\ readable \in SUBSET {PageOf(a) : a \in Addresses}
    /\ found = <<>>

Images ==
    /\ found = <<>> /\ readable = {} /\ \A a \in Addresses : mem[a] = "x"
    /\ \/ \E s \in Sides, p \in {3, 4, 8} : glPixelStorei(s, "alignment", p)
       \/ \E s \in Sides, l \in Layout, p \in {0, 2} : glPixelStorei(s, l, p)
       \/ \E s \in Sides, b \in BOOLEAN : note_bind_buffer(s, b)
       \/ \E s \in Sides : DeletePixelBuffer(s)
       \/ \E s \in Sides, k \in Kinds, w, h \in Dims \cup {-1}, d \in Depths, e \in Extents :
              PixelCall(s, k[1], k[2], w, h, d, e)

Next == ScanText \/ Images

Spec == Init /\ [][Next]_marshalVars

-----------------------------------------------------------------------------
(* Types of the variables.                                                  *)
TypeOK ==
    /\ copy.align \in [Sides -> Aligns] /\ copy.pbo \in [Sides -> BOOLEAN]
    /\ gl.align \in [Sides -> Aligns] /\ gl.pbo \in [Sides -> BOOLEAN]
    /\ gl.layout \in [Sides -> [Layout -> Nat]]
    /\ found = <<>> \/ DOMAIN found = Addresses

(* "Otherwise it is a guest address whose whole image [...] must be         *)
(* accessible": the driver touches no byte of an image that pixel_pointer   *)
(* did not check, whatever alignment, padding and depth slices, as long as  *)
(* the rows and images the driver steps over are no longer than the image's *)
(* own and nothing is skipped; and it takes the argument as an offset       *)
(* exactly when HostGl did, unless the guest deleted a bound pixel buffer.  *)
PixelsInBounds ==
    transfer.call =>
        LET image == transfer.image
            layout == gl.layout[transfer.side]
            inside == layout.row_length <= image.w /\ layout.image_height <= image.h /\ layout.skip = 0
        IN /\ gl.pbo[transfer.side] => transfer.raw
           /\ transfer.raw => copy.pbo[transfer.side]
           /\ (~transfer.raw /\ inside /\ image.w >= 0 /\ image.h >= 0) =>
                 Touched(image, gl.align[transfer.side], layout) <= transfer.extent

Terminator(a) == {t \in a..(Space - 1) : mem[t] = "nul"}
Whole(a, t) == \A x \in a..t : PageOf(x) \in readable

(* A string is accepted exactly when it ends within the limit and every     *)
(* byte up to its end is readable, although only whole pages are looked at: *)
(* always for GL, and for EGL at least up to the limit, with the length     *)
(* right.                                                                   *)
StringsExact ==
    found # <<>> =>
        \A a \in 1..(Space - 1) :
            LET ends == Terminator(a)
                length == Min(ends) - a
                good == ends # {} /\ Whole(a, Min(ends))
            IN /\ found[a].gl <=> (good /\ length < MaxString)
               /\ found[a].egl # Invalid => good /\ found[a].egl = length
               /\ good /\ length <= MaxString => found[a].egl # Invalid

(* As long as no attribute has EGL_NONE as its value, a list is accepted    *)
(* exactly when it ends within kMaxAttribs words of readable memory, and    *)
(* then whole.                                                              *)
AttribsExact ==
    found # <<>> =>
        \A a \in 1..(Space - 1) :
            LET ends == Terminator(a)
                good == /\ ends # {} /\ Whole(a, Min(ends))
                        /\ Min(ends) - a < MaxAttribs
            IN (ends = {} \/ (Min(ends) - a) % 2 = 0) =>
                   found[a].attribs = IF good THEN Min(ends) - a + 1 ELSE Invalid

=============================================================================
