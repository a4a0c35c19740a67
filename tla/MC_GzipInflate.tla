--------------------------- MODULE MC_GzipInflate ---------------------------
EXTENDS GzipInflate
=============================================================================
