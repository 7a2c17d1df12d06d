----------------------------- MODULE ImageCopy -----------------------------
(***************************************************************************)
(* Copying the image into its OpenCL buffer: from an OpenGL object, which  *)
(* the application draws asynchronously (CRoutine_ImageToBuffer.cpp), or   *)
(* from host memory (liboi.cpp).                                           *)
(***************************************************************************)
EXTENDS CommandQueue

CONSTANTS
  Sources,         \* the kinds of image source clients use
  Tiles            \* the parts in which OpenGL renders a frame

ASSUME ImageSourceAssumption == Sources \subseteq {"HOST_MEMORY", "OPENGL_TEXTUREBUFFER"}

VARIABLES
  source,          \* where this client's image is
  rendered,        \* the tiles of the source that show the last frame drawn
  owner,           \* who may use the OpenGL object: "GL" or "CL"
  overlapped,      \* the last frame was rendered while OpenCL had the object
  image,           \* the tiles of the OpenCL image buffer that do
  copied           \* whether the last copy returned normally

imageVars == <<source, rendered, owner, overlapped, image, copied>>

ImageInit ==
  /\ source \in Sources /\ owner = "GL"
  /\ rendered = Tiles /\ overlapped = FALSE /\ image = {} /\ copied = FALSE

\* The application draws between calls, in the thread that makes them.  Its
\* own memory it writes at once; OpenGL renders later.
Draw ==
  /\ Immediate("Draw", "ok")
  /\ rendered' = IF source = "HOST_MEMORY" THEN Tiles ELSE {}
  /\ image' = {} /\ overlapped' = FALSE
  /\ UNCHANGED <<queue, source, owner, copied>>

Render(t) ==
  /\ t \notin rendered /\ rendered' = rendered \cup {t}
  /\ overlapped' = (overlapped \/ owner = "CL")
  /\ UNCHANGED <<queueVars, source, owner, image, copied>>

Plain(op) == Command(op, {}, "none")
FinishChecked == <<Step("finish"), Step("check")>>

\* Mutants: the frame is not waited for; the object is not released.
CopyImageUnwaited ==
  Checked(<<Plain("acquire")>>) \o FinishChecked \o Checked(<<Plain("copy")>>)
  \o FinishChecked \o Checked(<<Plain("release")>>)
CopyImageUnreleased ==
  <<Step("glFinish")>> \o Checked(<<Plain("acquire")>>) \o FinishChecked
  \o Checked(<<Plain("copy")>>) \o FinishChecked
\* The release is left in the queue.
CopyImage ==
  <<Step("glFinish")>> \o Checked(<<Plain("acquire")>>) \o FinishChecked
  \o Checked(<<Plain("copy")>>) \o FinishChecked \o Checked(<<Plain("release")>>)

\* A blocking write is refused at once, or waits.
CopyHostMemory == Checked(<<Plain("copy")>>) \o <<Step("wait"), Step("check")>>

CopyImageToBuffer ==
  /\ Calls("CopyImageToBuffer",
       (IF source = "HOST_MEMORY" THEN CopyHostMemory ELSE CopyImage) \o <<Step("return")>>)
  /\ copied' = FALSE
  /\ UNCHANGED <<source, rendered, owner, overlapped, image>>

GlFinish ==
  /\ Does("glFinish") /\ rendered = Tiles
  /\ Proceeds
  /\ UNCHANGED <<queue, refused, imageVars>>

\* What the return of a call means for the image.
ImageReturn ==
  /\ copied' = (copied \/ call = "CopyImageToBuffer")
  /\ UNCHANGED <<source, rendered, owner, overlapped, image>>

ImageOps == {"acquire", "copy", "release"}

\* The device carries out a command of a copy.
ImageCommand(op) ==
  /\ owner' = CASE op = "acquire" -> "CL" [] op = "release" -> "GL" [] op = "copy" -> owner
  /\ image' = IF op = "copy" THEN rendered ELSE image
  /\ UNCHANGED <<source, rendered, overlapped, copied>>
=============================================================================
