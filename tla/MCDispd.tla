------------------------------ MODULE MCDispd ------------------------------
EXTENDS Dispd

\* DVI through mxc_ddc, the second framebuffer distinct from fb0.
DviBoard    == [ddc |-> TRUE,  sii |-> FALSE, differ |-> TRUE,  plug |-> "ddc"]
\* DVI already the primary display: no switch needed.
DviPrimary  == [ddc |-> TRUE,  sii |-> FALSE, differ |-> FALSE, plug |-> "ddc"]
\* HDMI through the sii902x transmitter.
HdmiBoard   == [ddc |-> FALSE, sii |-> TRUE,  differ |-> TRUE,  plug |-> "sii"]
\* DVI reported by the dvi_det switch.
SwitchBoard == [ddc |-> TRUE,  sii |-> FALSE, differ |-> TRUE,  plug |-> "switch"]

MC_AllBoards == {DviBoard, DviPrimary, HdmiBoard, SwitchBoard}
MC_DviOnly   == {DviBoard}
MC_SwitchOnly == {SwitchBoard}
=============================================================================
