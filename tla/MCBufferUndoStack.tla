-------------------------- MODULE MCBufferUndoStack ---------------------------
EXTENDS BufferUndoStack, MCBuffer
=============================================================================
