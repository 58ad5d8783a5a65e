--------------------------- MODULE MCJobPipeline ---------------------------
(* Scenarios of JobPipeline for TLC.                                       *)
EXTENDS JobPipeline

\* Two inputs with a file each, run in parallel.  Output 1 is a new layer,
\* output 2 its input.  File 1 has lines enough for two jobs, and names a static
\* group in the first of them and a dynamic group in the second.  File 2 names
\* twice the type group with the conditions of the dynamic one, its items being
\* built by two jobs, and the item group of file 1 with another tag.
TwoCopySrc == <<0, 1, 0, 0>>
TwoNew == {2}
TwoSize == <<3, 0, 1, 4>>
TwoLines == <<<<<<2>>, <<>>, <<3>>>>, <<<<1, 1, 4>>>>>>
TwoSrc == <<1, 3>>
TwoTarget == <<2, 3>>
TwoFileOf == <<1, 2>>
TwoPath == <<1, 2>>
TwoItemOf == <<1, 3, 2, 3>>
TwoTypeOf == <<1, 2, 0, 3>>
TwoStaticOf == <<0, 1, 0>>
TwoPlugin == <<4, 4, 3>>

\* Serial mode: one input, two new outputs, a file for each.  The files are
\* named in the order of the command line.
SerialCopySrc == <<0, 1, 1>>
SerialNew == {2, 3}
SerialSize == <<1, 0, 0>>
SerialLines == <<<<<<>>>>, <<<<>>>>>>
SerialSrc == <<1, 1>>
SerialTarget == <<2, 3>>
SerialFileOf == <<1, 2>>
SerialPath == <<1, 2>>
NoGroups == <<>>
=============================================================================
