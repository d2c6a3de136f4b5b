----------------------------- MODULE MCAgvDrive -----------------------------
EXTENDS AgvDrive

Backwards == {-90}
\* The line under one sensor, or lost.
Samples == {{"center"}, {"left"}, {"right"}, {}}
=============================================================================
