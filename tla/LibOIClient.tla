----------------------------- MODULE LibOIClient -----------------------------
(***************************************************************************)
(* A client that uses CLibOI the way liboi_benchmark.cpp, the tests and    *)
(* the comments on the calls intend: the kernel path and the image are     *)
(* described before the first Init (its scale, before the first with       *)
(* data), Init is repeated after new data were loaded, data sets are named *)
(* by indices that exist, and an object whose Init or image source failed  *)
(* is destroyed.  The module shows what such a client may rely on.         *)
(***************************************************************************)
EXTENDS LibOI

\* The client's data sets have enough data for the work-groups of the AMD
\* reduction; fewer are refused by OpenCL.
DataSizes == {NumData(d) : d \in DataSets} \ {0}
ASSUME SumsAssumption ==
  \A n \in DataSizes : NDRangeAccepted(AMDGlobalThreads(n), GroupSize)

NotYetInit == routine["Zero"] = "null"
Failed == last.op \in {"Init", "SetImageSource"} /\ last.out = "throw"

\* The image source can be used: a device buffer is handed over and big
\* enough, an OpenGL source is supported.
ImageReady ==
  CASE mImageType = "HOST_MEMORY" -> TRUE
    [] mImageType = "OPENCL_BUFFER" -> Fits(mImage_cl, Pixels)
    [] mImageType \in {"OPENGL_FRAMEBUFFER", "OPENGL_TEXTUREBUFFER"} ->
         Interop /\ mImage_gl # NULL
    [] OTHER -> FALSE

\* Init has returned since the last data set was loaded.
BaseReady == Ready({"Normalize"})
DataReady == Ready({"LogLike"})

ClientConfigure ==
  /\ NotYetInit
  /\ \/ SetKernelSourcePath \/ SetImageInfo \/ SetImageSourceHost \/ SetImageSourceCL
     \/ mImage_gl = NULL /\ SetImageSourceGL /\ last'.out # "abort"

\* Until the transform is built for a scale, the client may change its mind.
Rescale ==
  /\ routine["FT"] = "null"
  /\ SetImageInfo /\ [mImage' EXCEPT !.scale = mImage.scale] = mImage

ClientInit == ImageReady /\ InitCall

ClientCompute ==
  \/ BaseReady /\ (TotalFlux \/ Normalize)
  \/ BaseReady /\ mImageType # "OPENCL_BUFFER" /\ CopyImageToBuffer
  \/ BaseReady /\ mImage.d = 1 /\ mImage.w <= mImage.h /\ ExportImage

ClientNext ==
  /\ phase = "alive"
  /\ \/ Destroy
     \/ /\ ~Failed
        /\ \/ ClientConfigure \/ Rescale
           \/ ClientInit
           \/ LoadData
           \/ ClientCompute
           \/ \E i \in 0 .. NumLoaded - 1 :
                ChangeData(i) \/ (DataReady /\ ImageTo(i)) \/ QueryData(i)

ClientSpec == InitMembers /\ [][ClientNext]_vars
-----------------------------------------------------------------------------
\* Every computation such a client asks for is carried out: no exception, no
\* failed assertion, no routine used before its Init and no access beyond a
\* buffer - after any sequence of loads, removals, replacements and further
\* Inits (liboi.cpp:102-158, 271-285, 366-474, 519-632, 659-678).
ClientServed ==
  last.op \in ComputeOps \cup {"TotalFlux", "Normalize", "CopyImageToBuffer", "ExportImage"}
    => last.out = "ok"

\* The transform behind an answer is the one for the scale of the image: the
\* kernel is compiled for the scale of the moment when an Init first finds data,
\* and a scale given between two Inits before that is the one that counts
\* (liboi.cpp:590-596, 688-700).
ScaleIsCurrent ==
  last.op \in ComputeOps /\ last.out = "ok" => sized.FT = mImage.scale

\* However far the last Init got before it failed, the destructor returns what
\* the object holds; all that outlives it are image and data buffers that a
\* later Init created anew (liboi.cpp:77-98, 519-548).
NothingLeaks ==
  phase = "destroyed" =>
    \A h \in live \ UserBuffers : h.kind \in {"image", "ft", "sim"} /\ h.gen < epoch
=============================================================================
