------------------------- MODULE MCWaylandRegistry --------------------------
\* WaylandRegistry with the small constants of the Registry*.cfg files.
EXTENDS WaylandRegistry
=============================================================================
