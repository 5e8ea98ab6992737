---- MODULE MCPriorityQueue ----
EXTENDS PriorityQueue
====
