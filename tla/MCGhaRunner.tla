----------------------------- MODULE MCGhaRunner -----------------------------
EXTENDS GhaRunner

CONSTANTS plain, ignored, outside
MCIgnored == {ignored}
MCOutside == {outside}
=============================================================================
