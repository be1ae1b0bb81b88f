# ImageOPs: a verification project

TLA+ models of ImageOPs, an iOS application written in Objective-C++, Metal and C++: its image
filters, turns and picture helpers, its singletons and view controller, its camera control and
matrix functions, its text recognition.  With them come the TLC configurations that check
them and the TLAPS proofs about them.

All paths below are those of the repository; `src/ImageOPs/` is shortened to
`ImageOPs/`.

## 1. The system

The application shows one picture, `apple.jpeg`, and three buttons.  Each button
hands the picture to a filter of `ImageMisc` and shows what comes back; the
"binary" button also runs a text-detection network.  `OrbitControl` and the
matrix functions under it belong to the same target, but no button uses them.

| Component | Source | State it keeps | Operations |
|---|---|---|---|
| Compute filters | `ImageMisc.mm` 252-416, kernels in `ImageMisc.metal` 19-50 | per call: two textures, one command buffer; shared: the command queue | `grayTrans:`, `binaryTrans:Threshold:` |
| Pixel formats and shaders | `ImageMisc.mm` 110-171, 252-274, 418-437; `ImageMisc.metal` | none: bytes and texels | `getImageData`, `loadImage`, `imageFromBRGABytes`, `grayscale`, `binaryscale`, `samplingShader` |
| Rotation pass | `ImageMisc.mm` 439-519, `ImageMisc.metal` 75-101 | as the compute filters, with a render target | `roation:angle:` |
| Singletons | `ImageMisc.mm` 173-250, `MetalContext/MetalContext.mm` 7-32 | two `dispatch_once` tokens, two static instances and their fields | `sharedInstance`, `shareMetalContext` and the initializers behind them |
| CoreGraphics helpers | `ImageMisc.mm` 31-108, 557-612; `MetalContext.mm` 34-53 | CoreGraphics objects owned by the caller, the thread's stack of image contexts | `image:rotation:`, `textureFromPixelBuffer` |
| OCR | `CTPNOcr.mm` | none between calls; per call a TensorFlow session, a graph, an input tensor | `RunInferenceOnImage`, `PortableReadFileToProto`, `IfstreamInputStream::Read`, `ctt_beam_decode` |
| OrbitControl | `Math/OrbitControl.cpp` | pitch, yaw, distance, their ranges, target, camera, three derived matrices | `init`, `reset`, four rotations, two zooms, two side views, `getTransform` |
| MathUtilities | `Math/MathUtilities.cpp` | none | translation, scale, rotation, perspective, compose, extract, `eulerian_angle` |
| User interface | `ViewController.m`, `AppDelegate.m`, `SceneDelegate.m`, `main.m` | the picture shown | `viewDidLoad`, `grayTouchUP:`, `roationTouchUP:`, `binaryTouchUP:` |
| TensorFlow | `tensorflow_libs/` | - | vendored headers and libraries |
| Development script, tests | `clean_dev_file.py`, `ImageOPsTests/`, `ImageOPsUITests/` | - | the test targets hold Xcode's empty templates |

### How the parts interact

- `ViewController` calls `[ImageMisc sharedInstance]` on the main thread and one
  filter method on the result.  Nothing in `ImageMisc` ties it to the main
  thread: it is a public singleton, and two threads may be the first to ask for
  it or be inside a filter together.
- `ImageMisc`'s initializer, which runs inside its own `dispatch_once`, calls
  `shareMetalContext` and so waits for the other singleton's `dispatch_once`.
- A filter creates two textures, encodes one dispatch or draw into a command
  buffer of the shared queue, commits it, blocks in `waitUntilCompleted` and
  copies the result texture back.  Everything a call works on is its own except
  the queue, which has a bounded number of unfinished command buffers and makes
  `commandBuffer` block when they are used up.
- `binaryTouchUP:` passes nothing of the picture to the OCR part: `RunInferenceOnImage`
  opens a model file in the bundle, creates a session and runs it.

### What is hard here

No test of the repository exercises any of it.  The behaviours that are hard to
test are (PROJECT.json lists each at its line):

- the GPU runs the threads of a dispatch in any order and concurrently with the
  steps of other callers; a read too early returns a picture half old, half new;
- dispatch sizes at the edge: partial thread groups to the right and below;
- the command buffer's status is never read, so a GPU failure is answered with
  a picture all the same;
- first use of the singletons by several threads, with a nested
  `dispatch_once`, and an initialization that fails half-way for good;
- byte orders: the bytes are RGBA, the textures BGRA, the images made of the
  results BGRA again, and one shader of three exchanges the channels;
- half-precision arithmetic compared with a threshold; memory from `malloc`
  under a translucent picture;
- three conventions for the y axis, a transposed matrix and two translations that
  must agree for turned pictures to come out right;
- a model file read block by block through another library's stream, whose
  result nobody looks at; early returns among objects to be released;
- index arithmetic and float extremes in the decoding of the network's output;
- long sequences of gestures against the ranges and derived values of the
  camera, and the order in which its matrices are multiplied;
- Euler angles: an order of rotations on the way in, the opposite one on the way
  out, and angles that are not unique at a quarter turn;
- sizes in points where sizes in pixels are meant, and the reverse, which agree for
  upright pictures of scale 1 only;
- CoreGraphics and CoreVideo objects released by hand, on paths where any of
  them may have been refused;
- a handler that keeps the main thread for the GPU or the network while its
  picture waits to be seen, and failures that nothing reports to it.

### What makes each component correct

- *Compute filters*: every finished call answers a picture of the size it was
  given with every texel processed exactly by the kernel; nothing writes the
  texture after it was read; every call returns.
- *Pixel formats and shaders*: turning preserves color and alpha; a filter
  applied to its own result changes nothing; gray is the luma it claims to be.
- *Singletons*: what is handed out is completely initialized, once and for all;
  every request returns.
- *OrbitControl*: ranges hold, derived values are those of the latest placement,
  whatever rounding adds up to, and a camera far enough from its target does not pass
  through it.
- *Rotation pass*: the turned picture is the source turned, whole and without gaps,
  whichever function turned it and however often.
- *OCR*: the graph is the whole file; the decoder stays inside its array, loses no row
  and makes no NaN; sessions, streams and arrays are released.
- *CoreGraphics helpers*: what a call creates it releases, once, after the last use;
  what it answers is its own picture; no upload reads past the bytes it was given.
- *MathUtilities*: a pose taken apart and put together is the same pose, also where
  its angles are not unique; the projection keeps what the frustum holds and the
  order of depths.
- *User interface*: what is shown is what the tapped button promises or has a known
  cause, and every tap comes to be seen.

## 2. Modules

### ImageOp and ComputePass

`ImageOp` is the abstract specification: a caller asks for a job on a picture,
the device may give up on it, the caller is answered.  An answer on a healthy
device has every texel processed; on a device that gave up, each texel is
processed or the caller's own.

`ComputePass` is `grayTrans:` and `binaryTrans:Threshold:` step by step.  The two
methods differ in the pipeline they set and in the threshold buffer, so that they
are one set of actions with the pipeline and threshold as the *job*.

| Model | Code (`grayTrans:`; `binaryTrans:Threshold:` alike) |
|---|---|
| `call[c]`, `Start(c)` | arguments; both textures created and filled with the source's bytes |
| `Encode(c)` | `[_commandQueue commandBuffer]`, which blocks at the queue's limit, and the encoder calls |
| `GroupShape`, `CeilDiv`, `Groups` | `threadExecutionWidth`, `maxTotalThreadsPerThreadgroup / w`, the rounded-up group counts |
| `Commit(c)`, `WaitUntilCompleted(c)` | `commit`, `waitUntilCompleted` |
| `GetBytes(c)` | `getBytes:` and `imageFromBRGABytes`, return |
| `RunThread(c, t)` | one kernel invocation; `RunKernel` has the kernels' test of `gid` against the texture |
| `Complete(c)`, `Fail(c)` | the device ends the command buffer with status completed or error |

Texels are model values and `Kernel` a constant function, so what the shaders
compute does not matter here; it is the matter of `FilterChain`.

`ComputePass` implements `ImageOp` under the mapping `Abs`: busy from upload to
readback, healthy until the command buffer is in error.

### RenderPass

`roation:angle:` step by step, from the loaded texture to the picture made of the target's
bytes.  It is a module of its own, as what it shares with `ComputePass` is the outline only:
a render pass clears its target and stores into it, and needs a pipeline and a vertex
buffer that `setupRenderPipeline` and `setupVertex` may have left nil.  `misc` says which of
pipeline, vertices and queue the shared instance has; it is any subset, as `SharedInstance`
shows.

| Model | Code |
|---|---|
| `Start(c)` | `loadImage` and the two textures; a gray picture uploads zeroes, a refused `calloc` nothing |
| `CommandBuffer(c)`, `NoCommandBuffer(c)` | `[_commandQueue commandBuffer]`, which blocks at the queue's limit; a message to nil |
| `passDescriptor` | load action clear, store action store |
| `Encode(c)`, `Abort(c)` | the encoder calls; without a pipeline Metal may end the process |
| `Commit(c)`, `WaitUntilCompleted(c)`, `GetBytes(c)` | as in `ComputePass`; nothing waits for nil |
| `ShadePixel(c, p)`, `Complete(c)`, `Fail(c)` | the GPU |

What a pixel shows is the matter of `Rotation`; here it is `"picture"`, `"blank"` (zeroes were
loaded), `"clear"` or `"old"` (what the target's memory held).

### ImageKernels and FilterChain

`ImageKernels` has the conversions one pixel goes through as pure operators:
`getImageData` and `loadImage` (drawing premultiplied colors over what the memory
holds), `ReadTexel`/`WriteTexel` (a BGRA8Unorm texture), `imageFromBRGABytes`, and
the three shaders.  `FilterChain` hands a pixel from call to call: `Upload`,
`Draw`, `Wrap`, with any filter and threshold each time, the result of one call
being the argument of the next.

Half-precision results are *any* value within `HalfError` of the exact one: 0.4
of an 8-bit level.  Evaluating all orders of half operations over sampled colors
gives errors below 0.28 of a level.  A comparison with a threshold inside that
band may go either way, and a stored level may be either neighbour.

### SharedInstance

Both singletons with both `dispatch_once` tokens.  `pc[c]` is the statement thread
`c` is at; an object is the set of its fields that are not nil; each call into Metal
may answer nil, and does so when its receiver is nil.  `ComputePipeline` is the
one place where the initializer looks at a result, and returns nil.

| Model | Code |
|---|---|
| `BeginMisc`, `CopyDeviceAndLibrary`, `GrayPipeline`, `BinaryPipeline`, `setupRenderPipeline`, `setupVertex`, `CopyCommandQueue` | `sharedInstance` and `initImageMisc`, in the order of their statements |
| `BeginContext`, `CreateSystemDefaultDevice`, `NewDefaultLibrary`, `NewCommandQueue` | `shareMetalContext`, `initWithDevice:` |
| `AskMisc`, `AskContext`, `ReturnMisc`, `ReturnContext` | call and return; `AskContext` is a direct call of the public `shareMetalContext`, which the app itself does not make |

### OrbitControl

One action per public method that changes state.  Angles are counted in a unit that is
left open: a velocity or a limit is a whole number of units, and the sum of an angle and
a velocity, which the code computes in floats, is *any* number within `Rounding` of the exact one
(`Rounded`), so that the errors of a sequence of gestures add up as they do in the code.  What
is assumed of them is that a step is more than its error.  Target
and camera are points of a line: distance and direction are all the class derives
from them, and both are faithful on a line (the direction is 1, -1 or, for a camera
on its target, NaN).  The constructor calls `reset()` while `m_target` and `m_camera`
hold no value anyone gave them, so `Init` lets them be any point or NaN, and NaN
spreads through distance, range and direction until `init`.

### Rotation

A picture is a size and, for each pixel, the *set* of original pixels that show in
it: one if all is well, several where the linear sampler blends, none where nothing
was drawn.  The result of one call is the argument of the next.

| Model | Code |
|---|---|
| `FrameSize` | the target's size in `roation:angle:`: sides exchanged for 90 and 270 degrees of either sign, no others |
| `Center`, `Unrotate` | rasterization: for each pixel of the target the vertex-space point that `vertexShader`, with the matrix of `matrix_float4x4_rotation`, takes there |
| `Covered` | the six vertices of `setupVertex`, two triangles on either side of a diagonal |
| `Sampled` | `samplingShader`: linear filtering, clamped to the edge, texture y downwards |
| `Rotate`, `Rect`, `Translate` | the `switch` of `image:rotation:` |
| `Placed`, `RotateCTM`, `InContext` | the five CTM operations and `CGContextDrawImage` |
| `roation(angle)`, `imageRotation(orientation)` | the two methods |

Coordinates are exact: fractions of the target's side in the one, half pixels in the
other.  For quarter turns the sines and cosines in single precision are off by 1e-7,
which moves no sample by as much as a visible fraction of a texel.

### Pictures

`Rotation` and `FilterChain` look at one picture whose points are its pixels.  `Pictures` is about
all others: a picture has pixels, a scale, an orientation (`turned`, by 90 degrees either
way) and a color space, and every method computes sizes from some of them.

| Model | Code |
|---|---|
| `Size`, `Points`, `PointsUp` | `[image size]` and its conversion to whole numbers, truncated for textures, rounded up for contexts |
| `BytesPerRow`, `Texels`, `Offset` | the arguments of `replaceRegion:`, by which texels find their bytes |
| `InPlace`, `Uploaded` | whether each texel finds the pixel at its own place; if not, the rows are skewed |
| `compute`, `roation`, `Wrapped` | the three filters, as far as sizes go, and `imageFromBRGABytes` |
| `imageByCropToRect`, `imageByResizeToSize`, `convertImageToGrayScale`, `imageRotation` | the methods of that name |

### GraphicsResources

Who owns what.  A helper is written down as the *sequence of its statements* (`cropStatements`
and so on; `Program` has them all by the helper's name) about
CoreGraphics, CoreVideo and malloc'ed objects (`Create`, `Draw`, `Answer`, `Release`, `CFRelease` and
so on, one operator per kind of statement), and the actions execute them one by one: any
`Create` may be refused, `CFRelease` of NULL ends the process, drawing into NULL does nothing.
`onBytes` and `drawn` follow which objects live on the malloc'ed bytes and where the picture
was drawn.  `contexts` is UIKit's stack, which outlives the call.

| Model | Code |
|---|---|
| `cropStatements`, `resizeStatements`, `grayScaleStatements`, `pixelsStatements` | `imageByCropToRect:`, `imageByResizeToSize:`, `convertImageToGrayScale:`, `CopyImagePixels` |
| `dataStatements` | `getImageNSData` and `getGrayImageNSData`, with the functions that hand them bytes to free |
| `wrapStatements` | `imageFromBRGABytes`, the common end of the filters: bytes, context, image, `free` |
| `loadStatements` | `loadImage:`, the upload and the `free` in `roation:angle:` |
| `turnStatements` | `image:rotation:`, which begins a context and ends none |
| `textureStatements` | `textureFromPixelBuffer:` of `MetalContext`, whose cache has a status nobody reads |

### Helpers

The composition of the two: `GraphicsResources` executes the statements of a helper, and when it
returns, `Pictures` says what picture it returns with (`Makes`).  A call that was refused something and answers nil
hands the same picture to the next one.  The size of a picture decides, the other way, what
can be allocated: a filter over a texture without a side does not come to its end
(`NoTexture`), and a context without a side is refused (`Granted`).

### Rationals, MathUtilities, Pose and Frustum

`MathUtilities` has the functions of `MathUtilities.cpp` as operators over `Rationals`: exact
fractions, vectors and matrices of them, and angles whose sine and cosine are fractions.
`Fractions` are the pairs in lowest terms, `Gcd` is Euclid's algorithm as a recursive function.
An angle is the pair of its cosine and sine; `atan2` answers the set of angles it may mean,
which for two zeros is every angle, as rounding decides there.

The functions keep no state, so two modules feed them:

- `Pose` takes one of `Poses`, holds it as angles and a translation or as a matrix, and goes back and forth:
  `Compose` is `matrix_float3x3_rotation` of three angles and `matrix_transform_compose`,
  `Decompose` is `matrix_transform_extract` and `matrix_eulerian_angle`.  It is an abstract
  specification in miniature: the pose does not change.
- `Frustum` extends `Pose` and adds no action: a body that stands as the pose has it is looked at
  through `Lenses`, at several `Depths` and `Scales`, with `matrix_float4x4_perspective`
  and `matrix_float4x4_uniform_scale`.  `InFrustum` is the reference: near, far and the two
  opening angles, without a matrix.

### OrbitView

`OrbitView` extends `OrbitControl` and `MathUtilities` and adds no action: `getTransform` is an operator
evaluated in every state that gestures reach.  `At` and `Along` lay the line of
`OrbitControl` into space, `AngleOf` gives its numbers an angle each.  The run of `OrbitView` is
also the one that checks `OrbitControl`.

| Model | Code (`OrbitControl::getTransform`) |
|---|---|
| `rotationPitch`, `upAxisY`, `rotationYaw` | the rotation about x, the vertical it takes with it, the rotation about that |
| `rotation` | their product, one for each pair of angles |
| `preTranslateMatrix` | `m_preTranslate` as `reset` left it, the target to the origin |
| `getTransform` | the product, or the identity before `init` |

### ViewController

The application: the main thread, the taps that UIKit delivers to it, the image view and what is
seen of it.  `taps` is a history, the buttons in the order they were tapped, and `current` the number of
the tap being handled; `failed` is the history of the taps under which the GPU failed.  It *composes*: the variables and steps of `SharedInstance` are instantiated for the one
thread `"main"` (`Single == INSTANCE SharedInstance WITH Callers <- {"main"}`); `viewDidLoad` and
`TouchUp` call it, and `InSharedInstance` runs it.  What a filter answers (`Answer`) is what `ComputePass` and
`RenderPass` show of it for the fields the instance has, and the network either returns or
ends the process, as `CTPNOcr` does.  `Single!Spec` is also the abstract specification the
application is checked against.

| Model | Code |
|---|---|
| `viewDidLoad`, `Loaded` | `viewDidLoad`: the apple, then the first `sharedInstance` |
| `Tap(button)` | the user (external), at any time |
| `TouchUp` | the run loop (external) delivers the next tap; the handler's `sharedInstance` |
| `FilterOf` | which filter each of `grayTouchUP:`, `roationTouchUP:` and `binaryTouchUP:` calls |
| `Filter`, `FilterFails`, `FilterAborts` | that call: an answer, one after a failure of the GPU, or the end of the process |
| `setImage` | the next statement, in all three |
| `RunInferenceOnImage`, `InferenceAborts` | the last statement of `binaryTouchUP:` |
| `Display` | the run loop (external): the view reaches the screen between handlers only |

### CTPNOcr

`RunInferenceOnImage`, from `NewSession` to the return, called again and again.  Each
TensorFlow call may fail; the file may be missing (which ends the process), of any
listed length, damaged in its contents, and its disk may fail at any read.

| Model | Code |
|---|---|
| `Read` | `IfstreamInputStream::Read`: -1 when the stream has failed, or else what `gcount` says; a short read leaves eofbit and failbit |
| `EndOfStream`, `Block` | protobuf's adaptor and parser (external): nothing is read after 0 or -1, a total above the limit or bytes that are no field end the parsing |
| `Open`, `ReadBlock`, `CloseStream` | `PortableReadFileToProto`, whose result `parsed` nobody looks at |
| `Run`, `Decode` | `session->Run`; the call of `ctt_beam_decode`, here without its loops |
| `Return` | `return`: it destroys what the function's scope owns, the session; not the array, a bare `new[]`, nor a stream left open |
| `Allocate`, `Delete` | `new float[]` and, after the tensor was filled, `delete[]` |
| `alive` | session, stream and array of this call not yet destroyed |

### CttBeamDecode

The three nested loops over the network's output, one action per row (`Iterate`), in
place.  A float is an integer, an infinity or NaN; of `exp` the model keeps whether
the result is 0, positive or infinite, and of `log(e / sum)` the value up to a term
that all cells of a row have in common.  The decoding the function is named after is
commented out in the source.  The module has the loops' variables and steps; when they run
is said by `OCR`.

### OCR

The composition of the two: `RunSession` is `Run` with an output of any shape and any floats,
`ctt_beam_decode` runs the loops over it while the call stands at `Decode`, and `Finish`
is `Decode` once they are over, which takes the output along.  Calls follow one another, each
with an output of its own.

### Proof modules

`ComputePassProofs`, `RenderPassProofs`, `SharedInstanceProofs` and `ViewControllerProofs` extend
the module they are named after; `ViewControllerProofs` instantiates `SharedInstanceProofs`
besides, as its module does `SharedInstance`.  `CameraProofs` is about `OrbitControl`, `OrbitView`, `Pose` and
`Frustum` and, because all of them rest on it, about `Rationals` and `MathUtilities`.  `PixelProofs` is about where pixels go
(`Rotation`) and what becomes of their colors (`FilterChain`), `HelpersProofs` about `Helpers` and
the two modules it composes, `OCRProofs` about `OCR` and its two.

## 3. Runs

| Run | Instance | What it shows |
|---|---|---|
| `compute_pass` | two callers, a picture of 3x1 in groups of 2x1, a queue with one place; 169,860 states | `ResultCorrect`, `ReadbackIsFinal`, `EveryCallReturns`, `RefinesImageOp`: whatever order threads and callers run in and wherever the device fails, each answer is right, final and given |
| `render_pass` | two callers, targets of 2x1, a queue with one place, every subset of pipeline, vertices and queue | `ResultCorrect`, `ReadbackIsFinal`, `EveryCallReturns`: what each pixel of an answer can be, and which missing piece explains it |
| `filter_chain` | six levels per component, seven thresholds, three kinds of stale memory | `ColorInv`, `GrayIsStable`, `BinaryIsStable`: turning keeps colors, a filter has nothing left to do on its own result |
| `filter_chain_rec709` | the same | `GrayIsRec709` is violated: finding 1 |
| `shared_instance` | three threads, every pattern of Metal refusals | `HandedOutIsReady`, `OutcomeStands`, `EveryAskReturns` |
| `orbit_control` | ranges of a few steps, each off by a unit either way, four points of a slanted line | `RangesKept`, `Coherent`, `KeepsSide`; `TargetAhead`, `Steady`: wherever the gestures lead, the camera looks at its target, stays level and deforms nothing |
| `pose` | all triples of twelve angles, and 360 upright bodies; three lenses | `PoseInv`, `AnglesFound`: a pose survives being taken apart, also where two of its angles collapse; `Projects`: the projection keeps what the frustum holds, and who hides whom |
| `rotation` | six sizes up to 3x2, quarter turns -6 to 6, `image:rotation:` up, left and down | `TurnsAddUp`, `NoGaps` |
| `rotation_right` | the same with right | `PictureIsDrawn` is violated: finding 2 |
| `helpers` | chains of all helpers and filters, five sizes, scales 1 to 3, turned or not, color or gray, every refusal; three left-overs | `MemoryInv`, `OnlyKnownLeaks`, `OwnPicture`, `StopsOnlyOnRefusal`: memory; `ReadsInside`, `UprightKept`, `FilteredKept`: mixing points and pixels damages a picture once, and never reads past its bytes |
| `ocr` | files of six lengths, blocks of 3, a limit of 9, every refusal; outputs of five shapes, of two numbers, both infinities and NaN | `NothingLeft`, `WholeGraph`; `InBounds`, `RowsInOrder`, `SharesKept` |
| `view_controller` | three taps, every refusal of Metal, every failure of the GPU | `ShownHasReason`, `EveryTapSeen`, `UsesSingletons` |

Every module with variables has a type invariant.  Where it is proved (section 4) the runs do not repeat it; in
`ColorInv`, `PoseInv` and `MemoryInv` it stands next to the invariant it belongs to.

### Bounds, and why they are enough

- *Pictures and groups.*  Per axis what counts is how the side compares with the
  group's: 3 against 2 is a whole group and a rest, 1 against 1 an exact fit; 3 threads at most in
  groups 2 wide give a height of 3 \div 2, rounded down.  The columns alternate in color, so that a texel
  that went to the wrong place shows.  That the dispatch covers every size is proved, for every
  kernel; here there is one, as the two methods differ in nothing else.
- *Queue.*  Metal's limit is 64 (`newCommandQueue` without a count).  Each caller has
  one unfinished buffer at most, so blocking needs more callers than places; two
  callers and one place is the smallest such system.
- *Levels and thresholds.*  0 and 255 are the ends, 127 and 128 stand on either side
  of the middle and of the threshold the app uses, 254 and 63 make premultiplied
  colors with rounding in them.  Thresholds 0, 1, 254, 255, 256 are the edges of the
  property's condition and beyond.
- *Threads.*  Three: one inside each initializer and one waiting.  A fourth could
  only wait where the third does.
- *Ranges.*  The code's 60, 135, 90 and 80 become 4, 9, 6 and 8 with steps of 2, 3
  and 3.  The relations that matter are kept: the side
  view lies between straight ahead and the limit, the distance's step does not divide
  its span.  `Rounding` is 1, so that the angles reached are all those of the ranges and
  every clamp is met from each distance.  The points, -2, 0, 5 and 8, give a camera on the target, nearer than the span, at it and
  beyond, on either side.
- *Sizes and angles.*  A pixel, a row, a column, a square, and oblongs of even and odd
  sides: centers fall on pixels and between them.  A full turn is 4, and -6 to 6 has
  all remainders on both sides of the frame's list of angles and beyond it.
  `MaxContexts`, 3, is the one bound the code does not have: `image:rotation:` leaves
  an image context open each time, and the run stops after three.  That
  any number of calls adds up is proved.
- *Files.*  Empty, less than a block, two blocks without (6) and with a rest (7), at the limit (9) and
  beyond it; the limit is 1 GB in the code.
- *Outputs.*  Several codes, several steps, several batches, each alone and in pairs.  Both
  numbers are below 0 so that a search for the largest that starts there finds none.
- *Angles of poses.*  The four quarter turns, where angles collapse, and eight angles of the
  triangle 3, 4, 5, two in each quadrant, so that every sign of sine and cosine occurs for
  each of the three axes.  `OrbitView` takes the like for its pitch and yaw, and a line
  with no coordinate 0 through a point with none, so that no exchange of coordinates or
  signs goes unseen.
- *Lenses and bodies.*  The upright bodies stand before, on, between and behind the planes of
  the lenses, on either side of the axis and on it; the first lens has the parameters of
  `roation:angle:`, but for the tangent.
- *Targets.*  Two pixels: the GPU may have shaded both, one or none when it fails, which is what
  answers differ in.  That a target of any size is covered is proved.
- *Scales.*  1, 2 and 3 are those of iOS screens.  The sizes have sides that the scales divide,
  that they leave a remainder of, and that are less than the scale, which leaves a texture
  without a side.
- *Left-overs.*  `MaxLeft`, 3, bounds the image contexts and caches that earlier calls left; the
  model begins no call beyond it.  One left-over is enough to confuse a stack, two to
  see that they add up.
- *Taps.*  `MaxTaps`, 3: one in its handler, one that waits meanwhile, and one before
  them whose picture the view still holds.

There are no state constraints; every run exhausts its state space.  Deadlock is checked
except where the program may stop or a bound is reached: in `ocr`, where a missing file ends the
process; in `render_pass`, where Metal may; in `helpers`, where `CFRelease(NULL)` or an empty texture
does, or `MaxLeft` is reached; and in `view_controller`, where Metal or the missing model file does.

### Fairness

- *ComputePass.*  Weak fairness of a started call's own steps (a thread that can run
  is run) and of the device (Metal completes or fails every committed buffer).
  Strong fairness of `Encode`: a caller blocked in `commandBuffer` waits on a
  semaphore of Metal's, which serves its waiters in turn; with weak fairness another
  caller could take each place that comes free.  No fairness of `Start`.
- *SharedInstance.*  Weak fairness of each caller's steps: `dispatch_once` releases all
  who wait when the block ends.  None of `Ask`.
- *RenderPass.*  As `ComputePass`: strong fairness of `CommandBuffer`, weak fairness of the other
  steps of a call and of the device, none of `Start`.  A step may also be `Abort`: what is
  shown is that a call returns *or* the process ended.
- *ViewController.*  Weak fairness of the handlers together: the main thread goes on, and the run loop
  delivers a tap that waits.  Strong fairness of `Display`: UIKit commits the view's contents
  in each turn of the run loop, but a tap may be delivered first, so that it is enabled
  again and again rather than all the time.  No fairness of `Tap`.
- All others: safety only; no fairness.

### Findings

1. `ImageMisc.metal:15` introduces its weights as "Rec 709 LUMA values for grayscale
   image conversion", 0.2126 for red and 0.0722 for blue.  `grayTrans:` and
   `binaryTrans:` upload RGBA bytes (`ImageMisc.mm:153`, `kCGImageAlphaPremultipliedLast |
   kCGBitmapByteOrder32Big`) into a texture of format BGRA, so that the kernel's
   `rgb` is blue, green, red: red is weighed as blue and blue as red.
   `samplingShader` exchanges the channels back, the two kernels do not.
2. For `UIImageOrientationRight`, `image:rotation:` turns by `33 * M_PI_2`
   (`ImageMisc.mm:576`): eight full turns and a quarter, the angle of the left turn, with
   the translation of the right one (`3 * M_PI_2` is the angle that fits it).  The picture
   lies outside the context, and the result is blank, where `ImageMisc.mm:606` announces
   that the picture is drawn.  No caller in the repository passes this orientation.

Two declarations say other than the code, without a consequence that a run would show.
`ImageMisc.h` declares `sharedInstance` and the initializer as never nil (`NS_ASSUME_NONNULL_BEGIN`,
`nonnull`); `initImageMisc` returns nil when a compute pipeline is refused
(`ImageMisc.mm:195-208`), and `dispatch_once` keeps that answer for the life of the process
(`OutcomeStands`).  `CopyingInputStream` (`zero_copy_stream_impl_lite.h:182`) asks for 0 at the end
of the stream and -1 for errors; `IfstreamInputStream::Read` answers -1 after the last, short
block of a sound file, because `!ifs_` is true of failbit.  The adaptor ends the stream on both, so that
`WholeGraph` holds all the same.

`SharedInstance` and `RenderPass` show the cause of a nil pipeline and its effect.  What happens in
between, a picture of one color or the unfiltered apple without a word (`ShownHasReason`),
contradicts no statement of the repository and is no finding.

## 4. Proofs

All theorems hold for every value of the constants that the modules' named
assumptions admit; TLC evaluates these assumptions in the runs.

**ComputePassProofs.**  `TypeCorrect`, `ResultAlwaysCorrect`, `ReadbackAlwaysFinal` and
`Refinement` (`Spec => Abs!OpSpec`), for any number of callers, any pictures, any
kernel, any group shape and any queue limit.  Assumptions: pictures are well formed
and not empty, kernels map texels to texels, the pipeline's maximum is at least its
execution width (otherwise the group height would be 0), the queue has a place.
`ResultCorrect` is not inductive: it says nothing of the time before the return.
The invariant `PassInv` adds that a completed buffer has run all its threads
(`Waited`), that the source texture is the argument and the destination differs from
it only where a thread ran, where it holds the kernel's result (`Written`), and what
was returned (`Returned`).  The step that needs arithmetic is
`DispatchCovers`: every texel is the position of some thread, from `DivMod` and
`CeilDivCovers`.

**RenderPassProofs.**  `TypeCorrect`, `ResultAlwaysCorrect`, `ReadbackAlwaysFinal`, for any callers, any
sizes of the target and any part of the instance missing.  Neither `TypeOK` nor `ResultCorrect` is
inductive alone: the type of an answer is that of the target it was read from, and an
answer is right because of what happened before it was read.  `PassInv` adds to the type
where a caller stands against the status of its buffer (`Waited`: only without a queue is
a call past `commandBuffer` without one), what each pixel of the target holds, shaded or not
(`Shaded`), and that the answer is the target (`Returned`).

**SharedInstanceProofs.**  `TypeCorrect`, `AlwaysReady`, `OutcomeAlwaysStands`, for any set
of threads.  The invariant `OnceInv` says who may stand where: at most one thread is
inside each initializer, it is inside exactly while the token is running, the one in
the context's is there alone or on behalf of the one in `ImageMisc`'s, and each label
comes with the fields obtained so far.

**CameraProofs, OrbitControl.**  `TypeCorrect`, `RangesAlwaysKept`, `AlwaysCoherent` and `SideAlwaysKept`,
for all velocities, limits, rounding errors and points within the assumptions: the
side view is within the yaw's range, as 90 and 135 are, and a step is more than its
error.  `ClampedStep` says of a rounded step from within a range that the one clamp the
code makes, on the side it steps to, leads back into it: a step that could be
taken the wrong way would need the other clamp too.  `OrbitInv` joins type, ranges and coherence: the zooms keep the
distance's range only because the range is a pair of numbers once `init` ran, and
`KeepsSide` follows from range and coherence together.

**CameraProofs, fractions.**  The three modules below compute with fractions in lowest terms, put there by a
recursive `Gcd`.  The lemma `GcdIs` shows what it computes, without induction over a predicate: there is a
function with `Gcd`'s equation (`ChosenGcdRecursion`), and the least number for which `Gcd` were
no greatest common divisor has a smaller one (`WFMin` of the library).  From there `LowestUnique` and `FractionLowest`:
equal fractions are equal pairs.  All else rests on `Is(q, n, d)`, that q is n over d, in lowest terms or not:
`SumIs`, `ProductIs`, `NegativeIs`, `QuotientIs` compute numerators, `OrderIs` compares them, and `Common` has
fractions share a denominator, so that an identity of fractions is one of integers.
`RootOfSquare` (with `Bezout` and `SquareLowest`) is for the root in `atan2`.

**CameraProofs, OrbitView.**  `AlwaysSteady` and `AlwaysTargetAhead`, for every unit direction and point of the line,
every table of angles that has `AngleOf[-d]` opposite to `AngleOf[d]` and 0 straight, and all that is
assumed of `OrbitControl`.  Both follow from `OrbitInv`; what is hard is in the matrices.  `OrbitRotation`
multiplies out the rotation about the axis that the pitch has tilted: it is the yaw about the untilted vertical, and
the pitch after it (`PitchedYaw`), of which `PitchedYawIsRigid` shows lengths, right angles and handedness.
`Between` puts the two translations to it, and `TargetSeen` and `CameraSeen` look at two points through it.

**CameraProofs, Pose.**  `AlwaysPose` and `AlwaysAnglesFound`, for all poses with such angles and a place of
fractions.  `PoseInv` is not inductive: a transform that happens to be the given one may be composed of
anything once it is taken apart.  `PoseIInv` adds that the present angles, whichever they are, compose it.  `Decomposed`
keeps this, because of `EulerianFound`: the three angles found in a rotation make the same rotation.
There are three cases.  Where the cosine of the angle about y is positive, `atan2` finds each
angle itself (`RegularFound`, `TurnedBack`), which is also `AnglesFound`; where it is negative, it finds the angles of
the same rotation that are half a turn away (`OtherTurns`); where it is 0, `atan2` is asked about two
zeros, and whatever it answers for the angle about z the one about x makes up for (`QuarterFound`, `PairTurned`).

**CameraProofs, Frustum.**  `AlwaysProjects`, for all lenses with positive aspect and tangent and
0 < near < far, all depths and all positive scales, in every state of `Pose`.  A transform composed of
angles and a place is a body (`IsBody`, `TransformIsBody`) and `OriginOf` is that place.  `ClipOf` multiplies the matrices
out and `ClipDepthIs` has the third coordinate over one denominator: `DepthWithin` then says that it is within -w .. w just
between the planes, `DepthScaled` that a scale cancels, `NearerDepth` that depth grows with distance.

**PixelProofs, places.**  `TypeCorrect`, `TurnsAlwaysAddUp`, `NeverGaps`, for all sizes and any
number of calls.  The core is arithmetic: `DivExact` and `SampledAtCenter` say that the
sampler, asked for the center of a texel, reads that texel alone; from there
`DrawnIsTurned` (for angles of at most a full turn) and `InContextIsTurned` say that each
method *is* a turn, and `TurnsCompose` that turns add up.  `TurnsAddUp` is inductive with
`TypeOK`.  `NeverGaps` needs no bound on the angle: `SampledSomething` says that any point
of the square meets a texel.  `TurnsAlwaysAddUp` assumes that `Orientations` does not have
`"right"` (finding 2).

**PixelProofs, colors.**  `RotationKeepsColors`, `GrayStaysStable`, `BinaryStaysStable`, of chains of any
length, for all levels, thresholds and whatever bytes `malloc` answers (assumption: levels and that garbage
are bytes, thresholds are natural numbers).  The three properties speak of the end of a call; `ChainInv` adds what
holds on the way: an image handed on is premultiplied (`Premultiplied`), and after the upload the texel is
the argument, unless the argument is translucent and went into uncleared memory (`TexelOfArg`).
`BlendIsByte` shows that drawing premultiplied colors over any bytes gives bytes, and the color
itself where it is opaque or the memory zero; `GrayOfGray` and `BinaryOfBinary` that the band of half
precision is too narrow to move a gray level or to take black or white across a threshold.

**HelpersProofs, pictures.**  `PicturesAsAlone`: the composition `HelpersSpec` implements the specification of
`Pictures`, as every statement of a helper but its return leaves the picture alone.  So
`TypeCorrect`, `AlwaysInside`, `UprightAlwaysKept` and `FilteredAlwaysKept`, proved of `Pictures`, hold of the
composition, for pictures of every
size, scales of every factor and rectangles of every extent.  `PictureInv` joins the type,
`ReadsInside` and `Handed`, that what a filter made is upright and of scale 1.  The arithmetic is
in `Quotient` (dividing by a scale enlarges nothing), `Inside` (the last row of a texture ends
within the bytes of the picture, although the rotation's rows are not whole points) and
`UprightInPlace` (at scale 1 each texel finds its own pixel).

**HelpersProofs, memory.**  `ResourcesAsAlone`: the composition implements the specification of
`GraphicsResources` too.  So `MemoryAlwaysSound`, `OnlyThoseLeaks`, `PictureIsOwn` and `StopsThereAlone`, proved of
`GraphicsResources`, hold of the composition, for any number of calls, any `MaxLeft` (a natural number,
the one assumption) and every pattern of refusals.  None of the four properties is inductive: three of
them speak of the time between calls, and `NoDangling` does not say why what is freed was no longer
in use.  The invariant `ResourcesInv` follows a call through its statements.  `Life` has for each helper the
statement that obtains an object and the one that lets go of it, and `Disciplined`
what the nine programs keep to: an object is used, taken and released only between the two, bytes outlive
the context over them, `CFRelease` is given what may be NULL in one place.  `AllDisciplined` shows it of
each program, statement by statement, and the proof that objects live and die as they should
(`LivesStep`) rests on it alone.  The parts of the invariant are:

- `Lives`: before its statement an object is unset, between the two it is there, NULL or garbage, after
  them gone; only a texture cache may be garbage, and NULL means that something was refused;
- `Caches`: what earlier calls left is caches, as many as refused a texture;
- `Stack`: UIKit's stack holds one context for each `image:rotation:`, and the current one is the running call's own
  from the statement that begins it to the last that uses it;
- `Filled`, `Result`: while nothing is refused, which memory has the picture after which statement, and
  so what the answer is made of;
- `Bounded`: a call that may leave something begins below `MaxLeft`, so that the stack keeps its type.

TLC found `ResourcesInv` to hold in all 1,553,572 states of the `helpers` instance before it was proved.

**OCRProofs.**  `CallsAsAlone`: the composition `OCRSpec` implements the specification of `CTPNOcr`, whose
`Decode` it draws out.  `TypeCorrect`, `AlwaysWholeGraph`, `NothingEverLeft`, for all lengths, block
sizes and limits.  `WholeGraph` speaks of the time after parsing; the invariant `LoadInv`
adds `Delivered`: a file that is read is there, and the stream is at its end only if all
its bytes were delivered.  `NothingEverLeft` rests on `AliveInv`: the
objects alive are just those that the function holds where it stands (`Owned`), so that
every return is one at which stream and array are gone.  `DecodeTypeCorrect`, `AlwaysInBounds`, `RowsAlwaysInOrder`, `SharesAlwaysKept`, for all
lengths, batches and codes and all numbers the network may return, in any number of calls;
their lemmas about one row come first.  `RowFits` is the
inequality behind the odd offset: a step below the length times a batch index of at most
the number of batches leaves room for a row.  For `SharesKept` the invariant adds `Ahead`: rows
not yet reached are as the network left them, so that a row is decoded from what
`SharesKept` compares it with.  That the search finds the largest of a row of any length
(`LargestExists`, `MaxCoffIsTop`) is shown without induction over a predicate: were there no
largest, the first length of row without one would have a row before it that has one
(`WFMin` of the library, for the order of the naturals).

**ViewControllerProofs.**  `TypeCorrect`, `ShownAlwaysHasReason` and `StepsAreSingletons`, for any number of
taps and every pattern of refusals and failures.  `StepsAreSingletons` is the safety part of the refinement
`UsesSingletons`: each step of the application is one of `SharedInstance` for the thread `"main"`, or leaves its
variables alone.  So `OnceInv` of `SharedInstanceProofs` holds here as well and is a part of the
invariant.  `AppInv` adds where the main thread stands in both modules (`MainThread`: outside of
`viewDidLoad` the singleton's token is done) and that what a filter hands over is `Explained` before it is shown.
`ShownHasReason` is kept by all later steps because the singletons do not change any more, which is
`SettledStep` of `SharedInstanceProofs`, and the histories only grow (`ExplainedForGood`).

**Model-checked only.**  The liveness properties `EveryCallReturns` (of both passes),
`EveryAskReturns` and `EveryTapSeen`, which are beyond the prover, and of the refinement
`UsesSingletons` the fairness of `SharedInstance`.  `PictureIsDrawn` and `GrayIsRec709` are
false (section 3, findings).

## 5. Abstractions, and what is not modelled

- `ComputePass`, `RenderPass`, `FilterChain` and `Rotation` take an upright picture of scale 1, as `apple.jpeg`
  is.  What happens to the sizes of all others is `Pictures`; what a skewed picture looks
  like is not modelled.
- `ComputePass` has all of its objects.  A nil queue or nil pipeline is in `RenderPass`, and for the
  compute filters in `ViewController`.  Textures that Metal refuses are outside both passes;
  textures without a side, which it refuses always, are in `Pictures`.
- In `ComputePass` a kernel is a function.  Its nondeterminism, from half precision,
  is in `FilterChain`, where one pixel is enough, as no kernel reads a neighbour.
- `Rotation` has quarter turns.  At other angles the frame is not adapted and the
  corners are cut by construction of the method, and what a pixel shows depends on the
  weights of the sampler.
- `roation:angle:` builds a perspective matrix and hands it to a vertex shader that makes no use
  of it.  `Frustum` therefore speaks of the matrix, not of the picture.  The depths it gives are those
  of -1 to 1, where Metal's clip space has 0 to 1; no shader here depends on it.
- The target of the rotation is made from a descriptor without the usage of a render target.
  `RenderPass` takes what a release build does, which is to draw.
- `OrbitControl` has the rounding of its angles, not that of its distances.
  `MathUtilities` and `OrbitView` compute exactly, with angles whose sine and cosine are
  fractions; the rounding of floats is left out, but for the one place where it decides:
  `atan2` of two zeros.
- The float that `binaryTrans:Threshold:` allocates for its threshold (`ImageMisc.mm:347`) and frees
  before its one return (`ImageMisc.mm:413`) is not among the objects of `GraphicsResources`.
- `GraphicsResources` assumes of the libraries: `CGBitmapContextCreateImage`, `NSData` and
  `replaceRegion:` copy; `malloc` does not fail (its result is never looked at, that of `calloc`
  is); UIKit pushes an image context also when it cannot make one.  No caller in the
  repository uses `textureFromPixelBuffer:`, so that what its texture shows after its
  CoreVideo object was released is not modelled.
- In `CTPNOcr` a file is a length and whether it is a graph; nothing of the picture or of
  the tensors is modelled, as nothing of the picture reaches the network and the call
  answers the same string whatever comes out of it.  The input array is read
  uninitialised (`CTPNOcr.mm:158`), which no state of the program shows.
- In `CttBeamDecode` the network's output is any array; rounding of the logarithms is left
  out, overflow and underflow are not.
- In `ViewController` the picture in the bundle can be read, as it is part of the build; the
  run loop is UIKit's and modelled by what the handlers rely on.
- `grayNormlize` in `ImageMisc.metal` is a kernel no pipeline uses; `newContext` has no caller.
- TensorFlow, nearly all of the repository's lines, is vendored: headers and libraries of
  another project, of which this one calls a session, a file reader and a tensor.  The
  development script deletes files of it and has no state; `AppDelegate`, `SceneDelegate`, `main.m` and
  the tests are Xcode's templates.

## 6. Plan

Done: every file of the application's own code with a state or an algorithm has its
module, and every safety property of a passing run its theorem.  What is left: angles between
quarter turns in `Rotation`, with the sampler's weights.
