--------------------------- MODULE StreamHandlers ---------------------------
(* The formats of tuw_libcamera and what the stream handlers publish of a    *)
(* buffer (convert.cpp, buffer_context.cpp and stream_handler.cpp in         *)
(* src/capture/).  A message is its metadata and the size of its data.       *)
EXTENDS Integers, FiniteSetsExt

CONSTANTS
    Width, Height,   \* size of the streams, as the camera has validated it
    OtherSize,       \* bound: [width, height] of a JPEG that is not of this size
    Padding,         \* bytes the camera leaves at the end of a row
    NDebug           \* whether the build defines NDEBUG: CMakeLists.txt does not say

ASSUME SizeAssumption ==
    /\ Width \in Nat \ {0} /\ Height \in Nat \ {0} /\ Padding \in Nat
    /\ OtherSize.width \in Nat /\ OtherSize.height \in Nat
    /\ NDebug \in BOOLEAN

(* FORMAT_MAP.                                                               *)
direct(lc, ros) == [pixel |-> lc, convert |-> "direct", ros_format |-> ros]
decode(lc, ros) == [pixel |-> lc, convert |-> "decode", ros_format |-> ros]
compressed(lc, ros) == [pixel |-> lc, convert |-> "compressed", ros_format |-> ros]

FORMAT_MAP == {
    direct("R8", "MONO8"), direct("R16", "MONO16"),
    direct("RGB888", "BGR8"), direct("BGR888", "RGB8"),
    direct("ABGR8888", "RGBA8"), direct("ARGB8888", "BGRA16"),
    direct("RGB161616", "BGR16"), direct("BGR161616", "RGB16"),
    decode("MJPEG", "BGR8"), compressed("MJPEG", "jpeg"),
    direct("UYVY", "YUV422"), direct("YUYV", "YUYV")}

(* get_format_mapping(): the multimap is unordered, so that without a target *)
(* ("") it may find any mapping of the format; none if the set is empty.     *)
get_format_mapping(fmt, target_format) ==
    {m \in FORMAT_MAP : m.pixel = fmt /\ target_format \in {"", m.ros_format}}

(* Bytes of a pixel, as libcamera lays them out in the row of a buffer and as*)
(* the encodings of sensor_msgs promise them.                                *)
PixelBytes(fmt) ==
    CASE fmt = "R8" -> 1
      [] fmt \in {"R16", "UYVY", "YUYV"} -> 2
      [] fmt \in {"RGB888", "BGR888"} -> 3
      [] fmt \in {"ABGR8888", "ARGB8888"} -> 4
      [] fmt \in {"RGB161616", "BGR161616"} -> 6

EncodingBytes(encoding) ==
    CASE encoding = "MONO8" -> 1
      [] encoding \in {"MONO16", "YUV422", "YUYV"} -> 2
      [] encoding \in {"BGR8", "RGB8"} -> 3
      [] encoding = "RGBA8" -> 4
      [] encoding \in {"BGR16", "RGB16"} -> 6
      [] encoding = "BGRA16" -> 8

(* The image message of a handler, with the metadata it copies.              *)
Image(m, width, height, step, data) ==
    [pixel |-> m.pixel, encoding |-> m.ros_format, width |-> width,
     height |-> height, step |-> step, data |-> data]

(* The memory a BufferContext maps for the planes of a buffer: from the      *)
(* beginning of their file to the end of the last, whatever lies there.      *)
MappedSize(planes) == Max({p.offset + p.length : p \in planes})

(* publish_buffer() of a direct handler copies all of it, rows or not.       *)
PublishDirect(m, size) ==
    Image(m, Width, Height, Width * PixelBytes(m.pixel) + Padding, size)

(* publish_buffer() of a compressed handler.                                 *)
PublishCompressed(m, size) ==
    [pixel |-> m.pixel, format |-> m.ros_format, data |-> size]

(* What cv::imdecode() makes of dst, which is set up in the message's memory:*)
(* a JPEG of the stream's size is decoded there, an unreadable header leaves *)
(* it as it was, another size gets memory of its own and broken data none.   *)
Decoded ==
    [inplace : {TRUE}, cols : {Width}, rows : {Height}]
    \cup [inplace : {FALSE}, cols : {OtherSize.width}, rows : {OtherSize.height}]
    \cup [inplace : {FALSE}, cols : {0}, rows : {0}]

(* assert(dst.data == img_msg->data.data()), in a build that has assertions. *)
Asserted(dst) == NDebug \/ dst.inplace

(* publish_buffer() of a decoding handler, after the assertion: the size of  *)
(* what was decoded, with the rows and the memory of the stream.             *)
PublishDecoded(m, dst) ==
    Image(m, dst.cols, dst.rows, Width * 3, Width * Height * 3)

(* The messages that handler m may publish of a buffer of this size.         *)
Messages(m, size) ==
    CASE m.convert = "direct" -> {PublishDirect(m, size)}
      [] m.convert = "compressed" -> {PublishCompressed(m, size)}
      [] m.convert = "decode" ->
             {PublishDecoded(m, dst) : dst \in {d \in Decoded : Asserted(d)}}

MayAbort(m) == m.convert = "decode" /\ \E dst \in Decoded : ~Asserted(dst)
=============================================================================
