--------------------------- MODULE MCReleasePipeline --------------------------
\* Two versions over three commits, two interventions by people, and builds that
\* are right, hold a file too many, or lack one inside.
EXTENDS ReleasePipeline

Dist(a, w) == [artifacts |-> a, wrong |-> w]
MCDists ==
    {Dist({"wheel", "sdist"}, {}), Dist({"wheel", "sdist"}, {"blocked name"}),
     Dist({"wheel", "second wheel", "sdist"}, {})}
=============================================================================
