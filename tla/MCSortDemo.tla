----------------------------- MODULE MCSortDemo -----------------------------
EXTENDS SortDemo
=============================================================================
