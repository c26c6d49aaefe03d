---------------------------- MODULE MCWaterBoxes ----------------------------
EXTENDS WaterBoxes
MCSchedules == {<<<<"a", "b">>, <<"c">>, << >>>>, <<<<"a">>, <<"b">>, <<"c">>>>}
=============================================================================
