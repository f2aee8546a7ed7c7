--------------------------- MODULE MCTsCalibrator ---------------------------
EXTENDS TsCalibrator

\* An 800x480 panel whose raw coordinates are about twice the screen's;
\* no two points share a coordinate, so the input core drops nothing.
MCTouchAt ==
  <<{[x |-> 450, y |-> 530], [x |-> 455, y |-> 536]},
    {[x |-> 850, y |-> 290], [x |-> 857, y |-> 283]},
    {[x |-> 1250, y |-> 770], [x |-> 1244, y |-> 777]}>>

\* The second cross is touched at the raw x of the first touch, so the
\* input core reports no ABS_X for it.
MCTouchAtShared ==
  <<{[x |-> 450, y |-> 530]},
    {[x |-> 450, y |-> 290]},
    {[x |-> 1250, y |-> 770]}>>

MCSavedConf == <<1, 0, 0, 0, 1, 0, 1>>
MCConfChoices == {<<>>, <<1, 0>>, MCSavedConf}
=============================================================================
